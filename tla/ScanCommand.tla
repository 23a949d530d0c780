---------------------------- MODULE ScanCommand ----------------------------
(***************************************************************************)
(* One run of `esops-doctor scan' as a process: main's signal goroutine    *)
(* and root context (cmd/esops-doctor/main.go), the resolution of          *)
(* --targets, the sequential walk over the clusters under a deadline of    *)
(* their own, the report and the exit code (internal/cli, internal/exit).  *)
(*                                                                         *)
(* The engine phase is ProbeEngine's; here a cluster's rules get their     *)
(* results one by one, and the context may be done between any two.  The   *)
(* waivers and the baseline are Triage's; here "fail" is a failing rule    *)
(* that neither of them excuses.                                           *)
(***************************************************************************)
EXTENDS Integers, Sequences

CONSTANTS
  Contexts,    \* context names the esops config defines
  Blank,       \* a --targets entry that is empty after trimming
  Default,     \* the context of a scan without --targets
  TargetFlags, \* the values of --targets considered, <<>> for a single-cluster scan
  Severity,    \* severities of the catalog's rules, in catalog order
  FailOn,      \* --fail-on
  Timeouts     \* whether --scan-timeout is on: a subset of BOOLEAN

ASSUME ScanAssumption ==
  /\ Blank \notin Contexts
  /\ \A f \in TargetFlags : f \in Seq({f[j] : j \in DOMAIN f})
  /\ Severity \in Seq(1 .. 4) /\ FailOn \in 1 .. 4
  /\ Timeouts \subseteq BOOLEAN

NoSignal == "none"
Signals == {"INT", "TERM"}
ConnectErrors == {"unreachable", "auth", "forbidden", "unknownProduct", "other"}
ContextErrors == {"canceled", "deadline"}

VARIABLES
  flag,      \* the value of --targets
  timeout,   \* whether clusters are scanned under a deadline
  sigCh,     \* the one-slot channel signal.Notify writes to
  watcher,   \* where main's signal goroutine is
  held,      \* the signal it has received
  sig,       \* the atomic pointer it stores that signal in
  root,      \* the root context: "live" or "canceled"
  pc,        \* where the main goroutine is
  pos,       \* entries of --targets looked at
  targets,   \* the clusters to visit
  scan,      \* the current cluster's context: "live" or its Err()
  lapsed,    \* positions whose deadline passed while they were visited (history)
  results,   \* results of the cluster being scanned
  outcomes,  \* per cluster visited: [results, err]
  rendered,  \* the report was written
  err,       \* what cli.Run returned
  code       \* the exit code, -1 before the process exits

cli == <<flag, timeout, pos, targets, scan, lapsed, results, outcomes, rendered, err>>
signal == <<sigCh, watcher, held, sig, root>>
vars == <<flag, timeout, sigCh, watcher, held, sig, root, pc, pos, targets, scan,
          lapsed, results, outcomes, rendered, err, code>>

Multi == flag # << >>
----------------------------------------------------------------------------
Init ==
  /\ flag \in TargetFlags /\ timeout \in Timeouts
  /\ sigCh = NoSignal /\ watcher = "select" /\ held = NoSignal /\ sig = NoSignal
  /\ root = "live"
  /\ pc = "targets" /\ pos = 0
  /\ targets = << >> /\ scan = "live" /\ lapsed = {}
  /\ results = << >> /\ outcomes = << >>
  /\ rendered = FALSE /\ err = "nil" /\ code = -1
----------------------------------------------------------------------------
(* Signals.                                                                *)

\* The OS delivers a signal; signal.Notify drops it when the slot is taken.
Deliver ==
  /\ pc # "exited"
  /\ \E s \in Signals : sigCh' = IF sigCh = NoSignal THEN s ELSE sigCh
  /\ sigCh' # sigCh
  /\ UNCHANGED <<cli, watcher, held, sig, root, pc, code>>

Receive ==
  /\ pc # "exited" /\ watcher = "select" /\ sigCh # NoSignal
  /\ held' = sigCh /\ sigCh' = NoSignal
  /\ watcher' = "received"
  /\ UNCHANGED <<cli, sig, root, pc, code>>

StoreSignal ==
  /\ pc # "exited" /\ watcher = "received"
  /\ sig' = held
  /\ watcher' = "stored"
  /\ UNCHANGED <<cli, sigCh, held, root, pc, code>>

\* The current cluster's context is a child of the root context.
Propagate == IF scan = "live" THEN "canceled" ELSE scan

\* Variant: cancel() before Store.
CancelRoot_Early ==
  /\ pc # "exited" /\ watcher \in {"received", "stored"} /\ root = "live"
  /\ root' = "canceled" /\ scan' = Propagate
  /\ watcher' = IF watcher = "stored" THEN "gone" ELSE "received"
  /\ UNCHANGED <<flag, timeout, pos, targets, lapsed, results, outcomes, rendered,
                 err, sigCh, held, sig, pc, code>>

CancelRoot ==
  /\ pc # "exited" /\ watcher = "stored"
  /\ root' = "canceled" /\ scan' = Propagate
  /\ watcher' = "gone"
  /\ UNCHANGED <<flag, timeout, pos, targets, lapsed, results, outcomes, rendered,
                 err, sigCh, held, sig, pc, code>>

\* The deadline of the cluster being visited passes.
Expire ==
  /\ timeout /\ scan = "live" /\ pc \in {"connect", "engine"}
  /\ scan' = "deadline"
  /\ lapsed' = lapsed \cup {Len(outcomes) + 1}
  /\ UNCHANGED <<flag, timeout, pos, targets, results, outcomes, rendered, err,
                 signal, pc, code>>
----------------------------------------------------------------------------
(* cli.Run.                                                                *)

\* cli.Run returns e to main.
Return(e) == err' = e /\ pc' = "returned"

\* Variant: names are not compared with those already taken.
ResolveTarget_NoDedupe ==
  /\ pc = "targets" /\ pos < Len(flag)
  /\ pos' = pos + 1
  /\ LET name == flag[pos + 1] IN
       \/ /\ name = Blank
          /\ UNCHANGED <<targets, err, pc>>
       \/ /\ name \in Contexts
          /\ targets' = Append(targets, name)
          /\ UNCHANGED <<err, pc>>
       \/ /\ name \notin Contexts \cup {Blank}
          /\ Return("usage") /\ UNCHANGED targets
  /\ UNCHANGED <<flag, timeout, scan, lapsed, results, outcomes, rendered, signal, code>>

\* resolveMultiTargets, one entry: blanks and repetitions are passed over, an
\* unknown context is a usage error.
ResolveTarget ==
  /\ pc = "targets" /\ pos < Len(flag)
  /\ pos' = pos + 1
  /\ LET name == flag[pos + 1]
         seen == {targets[j] : j \in DOMAIN targets}
     IN  \/ /\ name \in seen \cup {Blank}
            /\ UNCHANGED <<targets, err, pc>>
         \/ /\ name \in Contexts \ seen
            /\ targets' = Append(targets, name)
            /\ UNCHANGED <<err, pc>>
         \/ /\ name \notin Contexts \cup {Blank}
            /\ Return("usage") /\ UNCHANGED targets
  /\ UNCHANGED <<flag, timeout, scan, lapsed, results, outcomes, rendered, signal, code>>

\* --targets next to --url or --context, or a config file that does not load.
TargetsRefused ==
  /\ pc = "targets" /\ Multi /\ pos = 0
  /\ Return("usage")
  /\ UNCHANGED <<flag, timeout, pos, targets, scan, lapsed, results, outcomes,
                 rendered, signal, code>>

TargetsResolved ==
  /\ pc = "targets" /\ pos = Len(flag)
  /\ \/ Multi /\ targets = << >> /\ Return("usage")
     \/ ~(Multi /\ targets = << >>) /\ pc' = "load" /\ UNCHANGED err
  /\ UNCHANGED <<flag, timeout, pos, targets, scan, lapsed, results, outcomes,
                 rendered, signal, code>>

\* buildEngineAndWaivers, loadBaseline and, for a single cluster,
\* resolveTargetContext.
Load ==
  /\ pc = "load"
  /\ \/ \E e \in {"usage", "catalog"} : Return(e) /\ UNCHANGED targets
     \/ /\ targets' = IF Multi THEN targets ELSE <<Default>>
        /\ pc' = "visit" /\ UNCHANGED err
  /\ UNCHANGED <<flag, timeout, pos, scan, lapsed, results, outcomes, rendered,
                 signal, code>>

ToVisit == Len(outcomes) < Len(targets)

\* Between the clusters of a fleet a cancelled root context ends the command,
\* without a report.
FleetCanceled ==
  /\ pc = "visit" /\ ToVisit /\ Multi /\ root = "canceled"
  /\ Return("canceled")
  /\ UNCHANGED <<flag, timeout, pos, targets, scan, lapsed, results, outcomes,
                 rendered, signal, code>>

\* Variant: one deadline for the fleet.
Visit_OneDeadline ==
  /\ pc = "visit" /\ ToVisit /\ (Multi => root = "live")
  /\ pc' = "connect"
  /\ UNCHANGED <<cli, signal, code>>

\* The next cluster gets a context of its own: the root's, with a new deadline.
Visit ==
  /\ pc = "visit" /\ ToVisit /\ (Multi => root = "live")
  /\ scan' = IF root = "live" THEN "live" ELSE "canceled"
  /\ pc' = "connect"
  /\ UNCHANGED <<flag, timeout, pos, targets, lapsed, results, outcomes, rendered,
                 err, signal, code>>

\* connectFn succeeds (and the health summary is fetched, whatever comes of it).
Connect ==
  /\ pc = "connect"
  /\ pc' = "engine"
  /\ UNCHANGED <<cli, signal, code>>

\* It fails.  A context that is done may surface as itself or as any of the
\* classes the client reports.  Only a fleet scan goes on.
ConnectFails ==
  /\ pc = "connect"
  /\ \E e \in ConnectErrors \cup ({scan} \cap ContextErrors) :
       /\ outcomes' = Append(outcomes, [results |-> << >>, err |-> e])
       /\ IF Multi THEN pc' = "visit" /\ UNCHANGED err ELSE Return(e)
  /\ UNCHANGED <<flag, timeout, pos, targets, scan, lapsed, results, rendered,
                 signal, code>>

\* The engine appends the next rule's result: the context's error once it is
\* done, else a verdict or a probe's error.
Evaluate ==
  /\ pc = "engine" /\ Len(results) < Len(Severity)
  /\ \E r \in IF scan = "live" THEN {"pass", "fail", "error"} ELSE {scan} :
       results' = Append(results, r)
  /\ UNCHANGED <<flag, timeout, pos, targets, scan, lapsed, outcomes, rendered, err,
                 signal, pc, code>>

\* Variant: the outcome is not appended.
ClusterDone_Forgotten ==
  /\ pc = "engine" /\ Len(results) = Len(Severity)
  /\ results' = << >>
  /\ pc' = "visit"
  /\ UNCHANGED <<flag, timeout, pos, targets, scan, lapsed, outcomes, rendered, err,
                 signal, code>>

ClusterDone ==
  /\ pc = "engine" /\ Len(results) = Len(Severity)
  /\ outcomes' = Append(outcomes, [results |-> results, err |-> "nil"])
  /\ results' = << >>
  /\ pc' = "visit"
  /\ UNCHANGED <<flag, timeout, pos, targets, scan, lapsed, rendered, err, signal, code>>

\* Every cluster was visited: the report is written, or writing it fails.
Render ==
  /\ pc = "visit" /\ ~ToVisit
  /\ \/ rendered' = TRUE /\ pc' = "gate" /\ UNCHANGED err
     \/ Return("io") /\ UNCHANGED rendered
  /\ UNCHANGED <<flag, timeout, pos, targets, scan, lapsed, results, outcomes,
                 signal, code>>

\* MaxFailingSeverityFleet >= failOn.
Tripped ==
  \E i \in DOMAIN outcomes : \E r \in DOMAIN outcomes[i].results :
    outcomes[i].results[r] = "fail" /\ Severity[r] >= FailOn

Unreached == {i \in DOMAIN outcomes : outcomes[i].err # "nil"}

\* firstConnectErr.
FirstConnectErr ==
  outcomes[CHOOSE i \in Unreached : \A j \in Unreached : i <= j].err

\* Variant: connect errors before findings.
Gate_ErrorsFirst ==
  /\ pc = "gate"
  /\ Return(IF Unreached # {} THEN FirstConnectErr
            ELSE IF Tripped THEN "findings" ELSE "nil")
  /\ UNCHANGED <<flag, timeout, pos, targets, scan, lapsed, results, outcomes,
                 rendered, signal, code>>

Gate ==
  /\ pc = "gate"
  /\ Return(IF Tripped THEN "findings"
            ELSE IF Unreached # {} THEN FirstConnectErr ELSE "nil")
  /\ UNCHANGED <<flag, timeout, pos, targets, scan, lapsed, results, outcomes,
                 rendered, signal, code>>
----------------------------------------------------------------------------
(* Exit codes.                                                             *)

Code(e) == CASE e = "nil" -> 0
             [] e = "usage" -> 2
             [] e = "unreachable" -> 3
             [] e = "auth" -> 4
             [] e = "forbidden" -> 5
             [] e = "unknownProduct" -> 10
             [] e = "findings" -> 20
             [] e = "catalog" -> 21
             [] e = "canceled" -> 130
             [] OTHER -> 1

SignalCode(s) == IF s = "INT" THEN 130 ELSE 143

\* run(): the stored signal, if any, decides.
Exit ==
  /\ pc = "returned"
  /\ code' = IF sig # NoSignal THEN SignalCode(sig) ELSE Code(err)
  /\ pc' = "exited"
  /\ UNCHANGED <<cli, signal>>

Exited == pc = "exited" /\ UNCHANGED vars
----------------------------------------------------------------------------
Watcher == Receive \/ StoreSignal \/ CancelRoot

Main == \/ ResolveTarget \/ TargetsRefused \/ TargetsResolved \/ Load
        \/ FleetCanceled \/ Visit \/ Connect \/ ConnectFails \/ Evaluate \/ ClusterDone
        \/ Render \/ Gate \/ Exit

Next == Deliver \/ Watcher \/ Expire \/ Main \/ Exited

\* Both goroutines run; requests, which carry their own timeouts, come back.
\* No signal need arrive and no deadline need pass.
Spec == Init /\ [][Next]_vars /\ WF_vars(Main) /\ WF_vars(Watcher)
----------------------------------------------------------------------------
(* Properties.                                                             *)

\* Whether any part of the scan was cut short by the cancelled root context.
SawCancellation ==
  \/ err = "canceled"
  \/ \E i \in DOMAIN outcomes :
       \/ outcomes[i].err = "canceled"
       \/ \E r \in DOMAIN outcomes[i].results : outcomes[i].results[r] = "canceled"

\* A scan that was cut short by a signal exits with that signal's code, 130 for
\* SIGINT and 143 for SIGTERM, wherever the cancellation was noticed and whatever
\* was found before it: the goroutine in main.go stores the signal before it
\* cancels, and run() looks at the stored signal first.  A second signal changes
\* neither: the goroutine has received the first and is gone.
ExitCodeNamesSignal ==
  /\ sig \in {NoSignal, held}
  /\ pc = "exited" /\ SawCancellation => held # NoSignal /\ code = SignalCode(held)

\* A report without a signal: a failing rule at the threshold in any cluster that
\* was reached gives 20 even when other clusters were not reached; only then does
\* the cluster that failed first decide (runMultiClusterScan, "exit-code
\* semantics, in priority order").
FindingsBeatConnectErrors ==
  pc = "exited" /\ rendered /\ sig = NoSignal =>
    LET failing == {i \in DOMAIN outcomes :
                      \E r \in DOMAIN outcomes[i].results :
                        outcomes[i].results[r] = "fail" /\ Severity[r] >= FailOn}
    IN  /\ (code = 20) = (failing # {})
        /\ code \in {0, 20} \/
             \E i \in Unreached : /\ Code(outcomes[i].err) = code
                                 /\ \A j \in 1 .. i - 1 : outcomes[j].err = "nil"
        /\ code = 0 => Unreached = {}

\* A fleet report has one block per distinct name in --targets, in the order the
\* names were first given: none is scanned twice, none vanishes because it could
\* not be reached (resolveMultiTargets, buildClusterReports).  Each has a result for
\* every rule or a connect error and none, also when it was cut off.
EveryTargetOnce ==
  Multi /\ rendered =>
    /\ \A i \in DOMAIN outcomes :
         Len(outcomes[i].results) = IF outcomes[i].err = "nil" THEN Len(Severity) ELSE 0
    /\ Len(outcomes) = Len(targets)
    /\ {targets[i] : i \in DOMAIN targets} = {flag[j] : j \in DOMAIN flag} \ {Blank}
    /\ \A i, k \in DOMAIN targets :
         i < k => \E j \in DOMAIN flag :
                    /\ flag[j] = targets[i]
                    /\ \A h \in 1 .. j : flag[h] # targets[k]

\* The deadline is per cluster: results cut off by it are found only in clusters
\* whose own deadline passed, a slow cluster does not eat the budget of the next
\* (scanContext, called inside the loop).
DeadlineIsPerCluster ==
  \A i \in DOMAIN outcomes :
    (\/ outcomes[i].err = "deadline"
     \/ \E r \in DOMAIN outcomes[i].results : outcomes[i].results[r] = "deadline")
      => i \in lapsed

\* Within a cluster an interruption cuts off a suffix of the catalog, and of a
\* fleet only the last cluster visited can be cut off by a signal: a report never
\* shows a cluster scanned in full after one that was interrupted.
CutOnlyAtTheEnd ==
  \A i \in DOMAIN outcomes :
    /\ \A r, q \in DOMAIN outcomes[i].results :
         r < q /\ outcomes[i].results[r] \in ContextErrors
           => outcomes[i].results[q] = outcomes[i].results[r]
    /\ Multi /\ i < Len(outcomes) =>
         /\ outcomes[i + 1].err # "canceled" \/ root = "canceled"
         /\ outcomes[i].err # "canceled"
         /\ \A r \in DOMAIN outcomes[i].results : outcomes[i].results[r] # "canceled"

\* What a deadline or a signal cuts off is confined to where it struck.
InterruptionsStayLocal == DeadlineIsPerCluster /\ CutOnlyAtTheEnd

\* Exit code 0 is never given to a scan that missed a cluster, was interrupted,
\* failed to write its report or found something at the threshold.
ZeroMeansEveryClusterReached ==
  code = 0 =>
    /\ rendered /\ sig = NoSignal
    /\ Len(outcomes) = Len(targets) /\ targets # << >>
    /\ \A i \in DOMAIN outcomes :
         /\ outcomes[i].err = "nil"
         /\ \A r \in DOMAIN Severity :
              outcomes[i].results[r] = "fail" => Severity[r] < FailOn

\* The exit code says what the report says: of findings, of clusters missed, of neither.
ExitCodeTellsTheReport == FindingsBeatConnectErrors /\ ZeroMeansEveryClusterReached

\* The command comes to an end: with or without a signal or a deadline, whichever
\* clusters can be reached, the process exits.
Terminates == <>(pc = "exited")
============================================================================
