---------------------------- MODULE ProbeEngine ----------------------------
(***************************************************************************)
(* The engine phase of one cluster scan (internal/engine):                 *)
(*                                                                         *)
(*   - Engine.Prefetch fans the probes of the applicable rules out to the  *)
(*     registry, one goroutine per probe, at most `cap' of them at a time  *)
(*     (a buffered channel used as a semaphore), under a context that may  *)
(*     be cancelled (signal, --scan-timeout) at any moment;                *)
(*   - Engine.EvaluateWithCache then walks the catalog and gives every     *)
(*     rule one result, from the cache or, for a probe the cache does not  *)
(*     hold, from a lazy fetch.                                            *)
(*                                                                         *)
(* Engine.Evaluate, the entry point without a prefetch, is the same walk   *)
(* from an empty cache; Init chooses between the two.                      *)
(*                                                                         *)
(* A goroutine is identified by the catalog position of the rule for which *)
(* uniqueProbes listed the probe, so that a duplicate in that list would   *)
(* be a second goroutine for the same probe, as it is in the code.         *)
(***************************************************************************)
EXTENDS Integers, Sequences, FiniteSets

CONSTANTS
  Catalog,       \* compiled rules in catalog order: [probe, dialects] records
  Probes,        \* the probe names rules refer to
  NoProbe,       \* the empty probe name
  Dialects,      \* the dialects a cluster can have
  Wired,         \* the probes whose client capability is configured
  Data,          \* probe payloads, as far as some condition tells them apart
  Outcome,       \* Outcome[i][d]: what the condition of rule i makes of d
  Concurrencies  \* the values of --prefetch-concurrency considered

Rules    == 1 .. Len(Catalog)
Skips    == {"notFound", "notApplicable"}
Failures == {"failed", "canceled"}
Entries  == Data \cup Skips \cup Failures
Absent   == "absent"
Statuses == {"pass", "fail", "skipped", "error"}

ASSUME CatalogAssumption ==
  /\ Catalog \in Seq([probe : Probes, dialects : SUBSET Dialects])
  /\ NoProbe \in Probes /\ Wired \subseteq Probes \ {NoProbe}
  /\ Concurrencies \subseteq Int

ASSUME DataAssumption ==
  /\ Data \cap (Skips \cup Failures \cup {Absent}) = {}
  /\ Outcome \in [Rules -> [Data -> {"pass", "fail", "error"}]]

VARIABLES
  dialect,  \* the probed cluster's dialect
  mode,     \* "prefetch" (scan) or "lazy" (Evaluate without a prefetch)
  cap,      \* capacity of the semaphore channel
  ctx,      \* "live", or "done" once cancelled or past its deadline
  pc,       \* where the calling goroutine is
  todo,     \* positions whose probe the schedule loop has still to start
  sem,      \* tokens in the semaphore channel
  wg,       \* the WaitGroup counter
  mu,       \* the goroutine holding the cache mutex, 0 when free
  worker,   \* where each prefetch goroutine is
  answer,   \* what registry.Probe returned to it
  cache,    \* the ProbeCache
  asked,    \* how often registry.Probe was called for a probe (history)
  results   \* the RuleResults appended so far

vars == <<dialect, mode, cap, ctx, pc, todo, sem, wg, mu, worker, answer,
          cache, asked, results>>
setup == <<dialect, mode, cap>>
----------------------------------------------------------------------------
DefaultPrefetchConcurrency == 4

\* Variant: the default is not applied, a zero makes the channel unbuffered.
SemCap_NoDefault(c) == c

SemCap(c) == IF c <= 0 THEN DefaultPrefetchConcurrency ELSE c

RuleSupportsDialect(i, d) == d \in Catalog[i].dialects

\* Variant: without the `seen' map.
UniqueProbes_NoDedupe(d) == { i \in Rules : RuleSupportsDialect(i, d) }
\* uniqueProbes: the catalog positions at which an applicable probe is first seen.
UniqueProbes(d) ==
  { i \in Rules :
      /\ RuleSupportsDialect(i, d)
      /\ Catalog[i].probe # NoProbe
      /\ \A j \in 1 .. (i - 1) :
           RuleSupportsDialect(j, d) => Catalog[j].probe # Catalog[i].probe }

\* What a request that reached the cluster can come back with.
Answers == Data \cup {"notApplicable", "failed"}
             \cup (IF ctx = "done" THEN {"canceled"} ELSE {})

\* Variant: the adapters do not look at the context before they call.
Immediate_NoCtxCheck(p) == IF p \notin Wired THEN {"notFound"} ELSE {}

\* Where dispatch and the adapters answer without a request: a probe with no
\* adapter, and any probe once the context is done.
Immediate(p) == IF p \notin Wired THEN {"notFound"}
                ELSE IF ctx = "done" THEN {"canceled"} ELSE {}

\* evalOne, once it holds the rule's cache entry.
Verdict(i, e) ==
  [status |-> IF e \in Skips THEN "skipped"
              ELSE IF e \in Failures THEN "error" ELSE Outcome[i][e],
   from   |-> IF e \in Data THEN "condition" ELSE "probe"]

Current == Len(results) + 1

Report(r) ==
  /\ results' = Append(results, r)
  /\ pc' = "loop"
----------------------------------------------------------------------------
Init ==
  /\ dialect \in Dialects
  /\ mode \in {"prefetch", "lazy"}
  /\ cap \in {SemCap(c) : c \in Concurrencies}
  /\ ctx \in {"live", "done"}
  /\ pc = IF mode = "prefetch" THEN "schedule" ELSE "loop"
  /\ todo = IF mode = "prefetch" THEN UniqueProbes(dialect) ELSE {}
  /\ sem = 0 /\ wg = 0 /\ mu = 0
  /\ worker = [i \in Rules |-> "none"]
  /\ answer = [i \in Rules |-> Absent]
  /\ cache = [p \in Probes |-> Absent]
  /\ asked = [p \in Probes |-> 0]
  /\ results = <<>>

\* A signal, or the --scan-timeout deadline.
Cancel ==
  /\ ctx = "live" /\ pc # "done"
  /\ ctx' = "done"
  /\ UNCHANGED <<setup, pc, todo, sem, wg, mu, worker, answer, cache, asked, results>>

\* Variant: no semaphore.
Spawn_NoLimit ==
  /\ pc = "schedule"
  /\ \E i \in todo :
       /\ \A j \in todo : i <= j
       /\ todo' = todo \ {i}
       /\ worker' = [worker EXCEPT ![i] = "spawned"]
  /\ sem' = sem + 1
  /\ wg' = wg + 1
  /\ UNCHANGED <<setup, ctx, pc, mu, answer, cache, asked, results>>

\* select, semaphore branch: take a token and start the goroutine. With both
\* branches ready Go picks either, so this stays enabled after cancellation.
Spawn ==
  /\ pc = "schedule" /\ sem < cap
  /\ \E i \in todo :
       /\ \A j \in todo : i <= j
       /\ todo' = todo \ {i}
       /\ worker' = [worker EXCEPT ![i] = "spawned"]
  /\ sem' = sem + 1
  /\ wg' = wg + 1
  /\ UNCHANGED <<setup, ctx, pc, mu, answer, cache, asked, results>>

\* Variant: the last probe of the range is never scheduled.
StopScheduling_OffByOne ==
  /\ pc = "schedule"
  /\ ctx = "done" \/ Cardinality(todo) <= 1
  /\ pc' = "wait"
  /\ UNCHANGED <<setup, ctx, todo, sem, wg, mu, worker, answer, cache, asked, results>>

\* select, ctx.Done branch (break scheduleLoop), or the end of the range.
StopScheduling ==
  /\ pc = "schedule"
  /\ ctx = "done" \/ todo = {}
  /\ pc' = "wait"
  /\ UNCHANGED <<setup, ctx, todo, sem, wg, mu, worker, answer, cache, asked, results>>

\* Variant: Prefetch returns without wg.Wait.
PrefetchReturns_NoWait ==
  /\ pc = "wait"
  /\ pc' = "loop"
  /\ UNCHANGED <<setup, ctx, todo, sem, wg, mu, worker, answer, cache, asked, results>>

\* wg.Wait() returns, and Prefetch with it.
PrefetchReturns ==
  /\ pc = "wait" /\ wg = 0
  /\ pc' = "loop"
  /\ UNCHANGED <<setup, ctx, todo, sem, wg, mu, worker, answer, cache, asked, results>>
----------------------------------------------------------------------------
(* The goroutine of position i: registry.Probe, the locked map write, then *)
(* the deferred calls in LIFO order: release the token, wg.Done.           *)

\* Move(i, s, t): goroutine i goes from s to t.
Move(i, s, t) == worker[i] = s /\ worker' = [worker EXCEPT ![i] = t]

Ask(p) == asked' = [asked EXCEPT ![p] = @ + 1]

CallProbe(i) ==
  LET p == Catalog[i].probe IN
  /\ \/ /\ Immediate(p) = {}
        /\ Move(i, "spawned", "calling")
        /\ UNCHANGED answer
     \/ /\ Move(i, "spawned", "returned")
        /\ \E e \in Immediate(p) : answer' = [answer EXCEPT ![i] = e]
  /\ Ask(p)
  /\ UNCHANGED <<setup, ctx, pc, todo, sem, wg, mu, cache, results>>

ProbeReturns(i) ==
  /\ Move(i, "calling", "returned")
  /\ \E e \in Answers : answer' = [answer EXCEPT ![i] = e]
  /\ UNCHANGED <<setup, ctx, pc, todo, sem, wg, mu, cache, asked, results>>

LockCache(i) ==
  /\ mu = 0
  /\ Move(i, "returned", "locked")
  /\ mu' = i
  /\ UNCHANGED <<setup, ctx, pc, todo, sem, wg, answer, cache, asked, results>>

StoreEntry(i) ==
  /\ Move(i, "locked", "stored")
  /\ cache' = [cache EXCEPT ![Catalog[i].probe] = answer[i]]
  /\ mu' = 0
  /\ UNCHANGED <<setup, ctx, pc, todo, sem, wg, answer, asked, results>>

\* Variant: the token is leaked.
ReleaseToken_Leak(i) ==
  /\ Move(i, "stored", "released")
  /\ UNCHANGED <<setup, ctx, pc, todo, sem, wg, mu, answer, cache, asked, results>>

ReleaseToken(i) ==
  /\ Move(i, "stored", "released")
  /\ sem' = sem - 1
  /\ UNCHANGED <<setup, ctx, pc, todo, wg, mu, answer, cache, asked, results>>

WorkerDone(i) ==
  /\ Move(i, "released", "done")
  /\ wg' = wg - 1
  /\ UNCHANGED <<setup, ctx, pc, todo, sem, mu, answer, cache, asked, results>>

Goroutine(i) == \/ CallProbe(i) \/ ProbeReturns(i) \/ LockCache(i)
                \/ StoreEntry(i) \/ ReleaseToken(i) \/ WorkerDone(i)
----------------------------------------------------------------------------
(* EvaluateWithCache: the loop body and evalOne.                           *)

Unmoved == <<setup, ctx, todo, sem, wg, mu, worker, answer>>

\* The ctx.Err() check at the top of the loop fails: the rule is an Error.
RuleCancelled ==
  /\ pc = "loop" /\ Current \in Rules /\ ctx = "done"
  /\ Report([status |-> "error", from |-> "ctx"])
  /\ UNCHANGED <<Unmoved, cache, asked>>

\* It succeeds: evalOne is entered. The context may be cancelled from here on.
RuleStarts ==
  /\ pc = "loop" /\ Current \in Rules /\ ctx = "live"
  /\ pc' = "rule"
  /\ UNCHANGED <<Unmoved, cache, asked, results>>

DialectMismatch ==
  /\ pc = "rule" /\ ~RuleSupportsDialect(Current, dialect)
  /\ Report([status |-> "skipped", from |-> "dialect"])
  /\ UNCHANGED <<Unmoved, cache, asked>>

CacheHit ==
  LET p == Catalog[Current].probe IN
  /\ pc = "rule" /\ RuleSupportsDialect(Current, dialect)
  /\ cache[p] # Absent
  /\ Report(Verdict(Current, cache[p]))
  /\ UNCHANGED <<Unmoved, cache, asked>>

\* Variant: an error is not kept for the rules that share the probe.
KeepAndReport_DataOnly(p, e) ==
  /\ cache' = IF e \in Data THEN [cache EXCEPT ![p] = e] ELSE cache
  /\ Report(Verdict(Current, e))

\* A miss: the lazy fetch goes out, or is answered without a request, and its
\* entry, an error included, is kept for the rules that share the probe.
KeepAndReport(p, e) ==
  /\ cache' = [cache EXCEPT ![p] = e]
  /\ Report(Verdict(Current, e))

LazyFetch ==
  LET p == Catalog[Current].probe IN
  /\ pc = "rule" /\ RuleSupportsDialect(Current, dialect)
  /\ cache[p] = Absent
  /\ Ask(p)
  /\ \/ /\ Immediate(p) = {}
        /\ pc' = "lazy"
        /\ UNCHANGED <<cache, results>>
     \/ \E e \in Immediate(p) : KeepAndReport(p, e)
  /\ UNCHANGED Unmoved

LazyReturns ==
  /\ pc = "lazy"
  /\ \E e \in Answers : KeepAndReport(Catalog[Current].probe, e)
  /\ UNCHANGED <<Unmoved, asked>>

\* The range over the catalog ends: the results are returned.
EvaluateReturns ==
  /\ pc = "loop" /\ Current \notin Rules
  /\ pc' = "done"
  /\ UNCHANGED <<Unmoved, cache, asked, results>>

Returned == pc = "done" /\ UNCHANGED vars
----------------------------------------------------------------------------
Caller == \/ Spawn \/ StopScheduling \/ PrefetchReturns
          \/ RuleCancelled \/ RuleStarts \/ DialectMismatch \/ CacheHit
          \/ LazyFetch \/ LazyReturns \/ EvaluateReturns

Next == Cancel \/ Caller \/ Returned \/ \E i \in Rules : Goroutine(i)

\* Both the caller and the goroutines are scheduled by the Go runtime, and a
\* request returns (every esops-go request carries its own timeout). Nothing
\* obliges the context to be cancelled.
Fairness == WF_vars(Caller) /\ \A i \in Rules : WF_vars(Goroutine(i))

Spec == Init /\ [][Next]_vars /\ Fairness
----------------------------------------------------------------------------
(* Properties.                                                             *)

WorkerStates == {"none", "spawned", "calling", "returned", "locked", "stored",
                 "released", "done"}
CallerStates == {"schedule", "wait", "loop", "rule", "lazy", "done"}

TypeOK ==
  /\ dialect \in Dialects /\ mode \in {"prefetch", "lazy"} /\ cap \in Nat \ {0}
  /\ ctx \in {"live", "done"} /\ pc \in CallerStates
  /\ todo \subseteq Rules /\ sem \in Nat /\ wg \in Nat /\ mu \in Rules \cup {0}
  /\ worker \in [Rules -> WorkerStates]
  /\ answer \in [Rules -> Entries \cup {Absent}]
  /\ cache \in [Probes -> Entries \cup {Absent}]
  /\ asked \in [Probes -> Nat]
  /\ results \in Seq([status : Statuses, from : {"ctx", "dialect", "probe", "condition"}])

\* Positions whose goroutine has a request in flight.
InFlight == {i \in Rules : worker[i] = "calling"}

\* "concurrency caps in-flight probe fetches" (prefetch.go:25): whatever the
\* interleaving of the goroutines, the cluster never sees more requests at once.
InFlightBounded == Cardinality(InFlight) <= cap

\* At most one goroutine is inside the section that writes the cache map (a
\* second one would be Go's fatal "concurrent map writes").
OneMapWriter ==
  \A i, j \in Rules : worker[i] = "locked" /\ worker[j] = "locked" => i = j

\* No goroutine outlives Prefetch: once the caller has left wg.Wait the cache
\* it reads is no longer written behind its back (prefetch.go:53-57).
PrefetchQuiescent ==
  pc \notin {"schedule", "wait"} => \A i \in Rules : worker[i] \in {"none", "done"}

\* The cache needs no lock of its own on either side of Prefetch's return: while the
\* goroutines run one of them writes at a time, and afterwards nobody but the reader does.
CacheIsSafe == OneMapWriter /\ PrefetchQuiescent

\* "Probe data is fetched at most once per scan" (evaluate.go:34), by prefetch
\* and lazy path together, also when the answer was an error.
FetchedAtMostOnce == \A p \in Probes : asked[p] <= 1

\* No round trip for a probe that no rule of the cluster's dialect reads
\* (prefetch.go:21-23).
NoWastedFetch ==
  \A p \in Probes : asked[p] > 0 =>
    \E i \in Rules : RuleSupportsDialect(i, dialect) /\ Catalog[i].probe = p

\* Two results that rest on one probe rest on one answer: never one rule judged
\* on data and another skipped or failed on an error of the same probe.
SharedObservation ==
  \A k, l \in DOMAIN results :
    /\ Catalog[k].probe = Catalog[l].probe
    /\ results[k].from \in {"probe", "condition"}
    /\ results[l].from \in {"probe", "condition"}
    => /\ results[k].from = results[l].from
       /\ results[k].from = "probe" => results[k].status = results[l].status

\* Cancellation cuts the catalog at one point: after the first rule reported as
\* cancelled every later one is too, a dialect mismatch included.
CancellationCutsSuffix ==
  \A k, l \in DOMAIN results :
    k < l /\ results[k].from = "ctx" => results[l].from = "ctx"

\* After a prefetch the evaluation sends no request of its own: it is "CPU-bound
\* (CEL only)" (prefetch.go:18), even when the prefetch was cut short.
PrefetchSuffices == mode = "prefetch" => pc # "lazy"

\* Prefetch asks for what the evaluation will read: nothing else, and all of it.
PrefetchIsExact == NoWastedFetch /\ PrefetchSuffices

\* A cache entry, once there, is what every later rule reads.
CacheEntriesFinal ==
  [][\A p \in Probes : cache[p] # Absent => cache'[p] = cache[p]]_vars

\* Once the context is done no further request reaches the cluster, although
\* the schedule loop may still start goroutines (evaluate.go:36-38).
CancelStopsRequests ==
  [][ctx = "done" => InFlight' \subseteq InFlight /\ (pc' = "lazy" => pc = "lazy")]_vars

\* Every scan ends, cancelled or not: no token, count or lock is left behind.
ScanTerminates == <>(pc = "done")

\* The engine implements the promise of RuleScan.
Promise == INSTANCE RuleScan WITH
  Unread <- Absent, Judge <- Verdict,
  obs <- cache, verdicts <- results, cut <- (ctx = "done")

ImplementsRuleScan == Promise!Spec
============================================================================
