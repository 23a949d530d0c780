------------------------- MODULE ProbeEngineProofs -------------------------
(***************************************************************************)
(* Proofs about ProbeEngine for every catalog, dialect, set of payloads    *)
(* and concurrency.  The invariant IInv is inductive; the properties the   *)
(* runs check on a small catalog follow from it, and so does that the      *)
(* engine implements RuleScan.                                             *)
(***************************************************************************)
EXTENDS ProbeEngine, FiniteSetTheorems, WellFoundedInduction, TLAPS

Evaluating == pc \notin {"schedule", "wait"}

\* Goroutines that hold a semaphore token, and those wg.Wait waits for.
Held == {i \in Rules : worker[i] \in {"spawned", "calling", "returned", "locked", "stored"}}
Live == {i \in Rules : worker[i] \notin {"none", "done"}}

CountsInv == sem = Cardinality(Held) /\ sem <= cap /\ wg = Cardinality(Live)

LockInv == \A i \in Rules : worker[i] = "locked" <=> mu = i

\* Goroutines exist only for the probes uniqueProbes listed, and only while
\* Prefetch runs.
WorkersInv ==
  /\ todo \subseteq UniqueProbes(dialect)
  /\ \A i \in todo : worker[i] = "none"
  /\ \A i \in Rules : worker[i] # "none" => i \in UniqueProbes(dialect)
  /\ Evaluating => \A i \in Rules : worker[i] \in {"none", "done"}
  /\ pc \in {"rule", "lazy"} => Current \in Rules
  /\ pc = "lazy" => RuleSupportsDialect(Current, dialect)

\* What a goroutine has done so far to the count and the entry of its probe.
ProbeOf(i) == Catalog[i].probe

\* A probe listed but not asked for yet: no count, no entry.
PendingInv ==
  \A i \in UniqueProbes(dialect) : ~Evaluating =>
    /\ worker[i] \in {"none", "spawned"} => asked[ProbeOf(i)] = 0
    /\ worker[i] \in {"none", "spawned", "calling", "returned", "locked"}
         => cache[ProbeOf(i)] = Absent

\* What a goroutine has done by the time it is where it is.
ProgressInv ==
  \A i \in Rules :
    /\ worker[i] \in {"calling", "returned", "locked"} => asked[ProbeOf(i)] = 1
    /\ worker[i] \in {"returned", "locked", "stored"} => answer[i] \in Entries
    /\ worker[i] \in {"stored", "released", "done"} => cache[ProbeOf(i)] # Absent

\* Asked at most once; without an entry only while that one answer is pending.
OnceInv ==
  \A p \in Probes :
    /\ asked[p] <= 1
    /\ cache[p] # Absent => asked[p] = 1
    /\ asked[p] = 1 /\ cache[p] = Absent =>
         \/ pc = "lazy" /\ p = ProbeOf(Current)
         \/ \E i \in Rules : ProbeOf(i) = p /\ worker[i] \in {"calling", "returned", "locked"}

LazyInv ==
  pc = "lazy" => cache[ProbeOf(Current)] = Absent /\ asked[ProbeOf(Current)] = 1

FetchInv == PendingInv /\ ProgressInv /\ OnceInv /\ LazyInv

IInv == TypeOK /\ CountsInv /\ LockInv /\ WorkersInv /\ FetchInv
----------------------------------------------------------------------------
(* Facts about the constants and the helpers.                              *)

\* The catalog is a sequence of records over the constants.
LEMMA CatalogFacts ==
  /\ Len(Catalog) \in Nat
  /\ \A i \in Rules : Catalog[i] \in [probe : Probes, dialects : SUBSET Dialects]
  /\ \A i \in Rules : i \in Nat \ {0}
<1> DEFINE R == [probe : Probes, dialects : SUBSET Dialects]
<1>1. Catalog \in Seq(R)
  BY CatalogAssumption
<1> HIDE DEF R
<1>2. Len(Catalog) \in Nat /\ \A i \in 1 .. Len(Catalog) : Catalog[i] \in R
  BY <1>1
<1> QED
  BY <1>2 DEF R, Rules

LEMMA ProbeOfType == \A i \in Rules : ProbeOf(i) \in Probes
BY CatalogFacts DEF ProbeOf

LEMMA UniqueProbesType == \A d : UniqueProbes(d) \subseteq Rules
BY DEF UniqueProbes

\* Any set of catalog positions is finite.
LEMMA PositionsFinite ==
  ASSUME NEW S, S \subseteq Rules
  PROVE  IsFiniteSet(S)
<1>1. IsFiniteSet(Rules)
  BY CatalogFacts, FS_Interval DEF Rules
<1> QED
  BY <1>1, FS_Subset

\* uniqueProbes lists a probe under one position only.
LEMMA UniqueProbesDistinct ==
  ASSUME NEW d, NEW i \in UniqueProbes(d), NEW j \in UniqueProbes(d),
         Catalog[i].probe = Catalog[j].probe
  PROVE  i = j
<1>1. i \in 1 .. Len(Catalog) /\ j \in 1 .. Len(Catalog) /\ Len(Catalog) \in Nat
  BY CatalogFacts DEF UniqueProbes, Rules
<1>2. ~(i < j) /\ ~(j < i)
  BY <1>1 DEF UniqueProbes
<1> QED
  BY <1>1, <1>2

\* The capacity of the semaphore is positive, whatever the flag's value.
LEMMA SemCapPositive == \A c \in Int : SemCap(c) \in Nat \ {0}
BY DEF SemCap, DefaultPrefetchConcurrency

\* Answers that come without a request, or with one, are cache entries.
LEMMA AnswersAreEntries ==
  /\ Answers \subseteq Entries
  /\ \A p : Immediate(p) \subseteq Entries
  /\ Absent \notin Entries
BY DataAssumption DEF Answers, Immediate, Entries, Skips, Failures, Absent

\* Every verdict is a well-formed result.
LEMMA VerdictType ==
  ASSUME NEW i \in Rules, NEW e \in Entries
  PROVE  Verdict(i, e) \in [status : Statuses, from : {"ctx", "dialect", "probe", "condition"}]
BY DataAssumption DEF Verdict, Entries, Statuses, Skips, Failures
----------------------------------------------------------------------------
(* Type correctness. wg and sem never go below zero because they count.    *)

LEMMA InitInv == Init => IInv
<1> SUFFICES ASSUME Init PROVE IInv
  OBVIOUS
<1>1. TypeOK
  <2>1. cap \in Nat \ {0}
    BY CatalogAssumption, SemCapPositive DEF Init
  <2>2. todo \subseteq Rules
    BY DEF Init, UniqueProbes
  <2> QED
    BY <2>1, <2>2 DEF Init, TypeOK, CallerStates, WorkerStates
<1>2. CountsInv
  <2>1. Held = {} /\ Live = {}
    BY DEF Init, Held, Live
  <2> QED
    BY <1>1, <2>1, FS_EmptySet DEF Init, CountsInv, TypeOK
<1>3. LockInv
  BY CatalogFacts DEF Init, LockInv
<1>4. WorkersInv
  <2>1. Evaluating => \A i \in Rules : worker[i] \in {"none", "done"}
    BY DEF Init, Evaluating
  <2>2. pc \notin {"rule", "lazy"}
    BY DEF Init
  <2>3. todo \subseteq UniqueProbes(dialect) /\ \A i \in Rules : worker[i] = "none"
    BY DEF Init
  <2>4. todo \subseteq Rules
    BY <1>1 DEF TypeOK
  <2> QED
    BY <2>1, <2>2, <2>3, <2>4 DEF WorkersInv
<1>5. FetchInv
  BY ProbeOfType, UniqueProbesType DEF Init, FetchInv, PendingInv, ProgressInv, OnceInv, LazyInv
<1> QED
  BY <1>1, <1>2, <1>3, <1>4, <1>5 DEF IInv

\* A non-empty set of positions is counted as such.
LEMMA CountPositive ==
  ASSUME NEW S, S \subseteq Rules, NEW i \in S
  PROVE  Cardinality(S) \in Nat \ {0}
<1>1. IsFiniteSet(S)
  BY PositionsFinite
<1> QED
  BY <1>1, FS_CardinalityType, FS_EmptySet

\* A goroutine that holds a token, or that is not done, is in the counters.
LEMMA CountersPositive ==
  ASSUME TypeOK, CountsInv, NEW i \in Rules
  PROVE  /\ i \in Held => sem \in Nat \ {0}
         /\ i \in Live => wg \in Nat \ {0}
<1>1. Held \subseteq Rules /\ Live \subseteq Rules
  BY DEF Held, Live
<1> QED
  BY <1>1, CountPositive DEF CountsInv

LEMMA TypeStep ==
  ASSUME IInv, [Next]_vars
  PROVE  TypeOK'
<1> USE DEF TypeOK, setup
<1>0. TypeOK /\ CountsInv /\ WorkersInv
  BY DEF IInv
<1>1. CASE UNCHANGED vars
  BY <1>0, <1>1 DEF vars
<1>2. CASE Cancel
  BY <1>0, <1>2 DEF Cancel
<1>3. CASE Spawn
  BY <1>0, <1>3 DEF Spawn, WorkerStates
<1>4. CASE StopScheduling
  BY <1>0, <1>4 DEF StopScheduling, CallerStates
<1>5. CASE PrefetchReturns
  BY <1>0, <1>5 DEF PrefetchReturns, CallerStates
<1>6. ASSUME NEW i \in Rules, CallProbe(i) PROVE TypeOK'
  <2>1. worker' \in [Rules -> WorkerStates]
    BY <1>0, <1>6 DEF CallProbe, Move, WorkerStates
  <2>2. answer' \in [Rules -> Entries \cup {Absent}]
    BY <1>0, <1>6, AnswersAreEntries DEF CallProbe
  <2>3. asked' \in [Probes -> Nat]
    BY <1>0, <1>6, ProbeOfType DEF CallProbe, Ask, ProbeOf
  <2> QED
    BY <1>0, <1>6, <2>1, <2>2, <2>3 DEF CallProbe
<1>7. ASSUME NEW i \in Rules, ProbeReturns(i) PROVE TypeOK'
  <2>1. worker' \in [Rules -> WorkerStates]
    BY <1>0, <1>7 DEF ProbeReturns, Move, WorkerStates
  <2>2. answer' \in [Rules -> Entries \cup {Absent}]
    BY <1>0, <1>7, AnswersAreEntries DEF ProbeReturns
  <2> QED
    BY <1>0, <1>7, <2>1, <2>2 DEF ProbeReturns
<1>8. ASSUME NEW i \in Rules, LockCache(i) PROVE TypeOK'
  BY <1>0, <1>8 DEF LockCache, Move, WorkerStates
<1>9. ASSUME NEW i \in Rules, StoreEntry(i) PROVE TypeOK'
  <2>1. cache' \in [Probes -> Entries \cup {Absent}]
    BY <1>0, <1>9, ProbeOfType DEF StoreEntry, ProbeOf
  <2> QED
    BY <1>0, <1>9, <2>1 DEF StoreEntry, Move, WorkerStates
<1>10. ASSUME NEW i \in Rules, ReleaseToken(i) PROVE TypeOK'
  <2>1. i \in Held
    BY <1>10 DEF ReleaseToken, Move, Held
  <2> QED
    BY <1>0, <1>10, <2>1, CountersPositive DEF ReleaseToken, Move, WorkerStates
<1>11. ASSUME NEW i \in Rules, WorkerDone(i) PROVE TypeOK'
  <2>1. i \in Live
    BY <1>11 DEF WorkerDone, Move, Live
  <2> QED
    BY <1>0, <1>11, <2>1, CountersPositive DEF WorkerDone, Move, WorkerStates
<1>12. CASE RuleCancelled
  BY <1>0, <1>12 DEF RuleCancelled, Report, Unmoved, CallerStates, Statuses
<1>13. CASE RuleStarts
  BY <1>0, <1>13 DEF RuleStarts, Unmoved, CallerStates
<1>14. CASE DialectMismatch
  BY <1>0, <1>14 DEF DialectMismatch, Report, Unmoved, CallerStates, Statuses
<1>15. CASE CacheHit
  <2>1. Current \in Rules /\ cache[Catalog[Current].probe] \in Entries
    BY <1>0, <1>15, ProbeOfType DEF CacheHit, WorkersInv, ProbeOf
  <2> QED
    BY <1>0, <1>15, <2>1, VerdictType DEF CacheHit, Report, Unmoved, CallerStates
<1>16. CASE LazyFetch
  <2>1. Current \in Rules /\ Catalog[Current].probe \in Probes
    BY <1>0, <1>16, ProbeOfType DEF LazyFetch, WorkersInv, ProbeOf
  <2>2. asked' \in [Probes -> Nat]
    BY <1>0, <1>16, <2>1 DEF LazyFetch, Ask
  <2>3. CASE pc' = "lazy" /\ UNCHANGED <<cache, results>>
    BY <1>0, <1>16, <2>2, <2>3 DEF LazyFetch, Unmoved, CallerStates
  <2>4. ASSUME NEW e \in Immediate(Catalog[Current].probe),
               KeepAndReport(Catalog[Current].probe, e)
        PROVE  TypeOK'
    <3>1. e \in Entries
      BY AnswersAreEntries
    <3>2. Verdict(Current, e) \in [status : Statuses, from : {"ctx", "dialect", "probe", "condition"}]
      BY <2>1, <3>1, VerdictType
    <3> QED
      BY <1>0, <1>16, <2>1, <2>2, <2>4, <3>1, <3>2
         DEF LazyFetch, KeepAndReport, Report, Unmoved, CallerStates
  <2> QED
    BY <1>16, <2>3, <2>4 DEF LazyFetch
<1>17. CASE LazyReturns
  <2>1. Current \in Rules /\ Catalog[Current].probe \in Probes
    BY <1>0, <1>17, ProbeOfType DEF LazyReturns, WorkersInv, ProbeOf
  <2>2. PICK e \in Answers : KeepAndReport(Catalog[Current].probe, e)
    BY <1>17 DEF LazyReturns
  <2>3. e \in Entries
    BY AnswersAreEntries
  <2>4. Verdict(Current, e) \in [status : Statuses, from : {"ctx", "dialect", "probe", "condition"}]
    BY <2>1, <2>3, VerdictType
  <2> QED
    BY <1>0, <1>17, <2>1, <2>2, <2>3, <2>4
       DEF LazyReturns, KeepAndReport, Report, Unmoved, CallerStates
<1>18. CASE EvaluateReturns
  BY <1>0, <1>18 DEF EvaluateReturns, Unmoved, CallerStates
<1>19. CASE Returned
  BY <1>0, <1>19 DEF Returned, vars
<1> QED
  BY <1>1, <1>2, <1>3, <1>4, <1>5, <1>6, <1>7, <1>8, <1>9, <1>10, <1>11, <1>12,
     <1>13, <1>14, <1>15, <1>16, <1>17, <1>18, <1>19 DEF Next, Caller, Goroutine
----------------------------------------------------------------------------
(* The semaphore and the WaitGroup count the goroutines they stand for.    *)

\* Held, Live and the counters only change with the goroutines.
LEMMA CountsUnchanged ==
  ASSUME CountsInv, UNCHANGED <<worker, sem, wg, cap>>
  PROVE  CountsInv'
BY DEF CountsInv, Held, Live

\* A step of goroutine i inside the same two sets changes no count.
LEMMA CountsInside ==
  ASSUME TypeOK, CountsInv, UNCHANGED <<sem, wg, cap>>, NEW i \in Rules,
         NEW t \in WorkerStates, worker' = [worker EXCEPT ![i] = t],
         i \in Held, t \in {"calling", "returned", "locked", "stored"}
  PROVE  CountsInv'
<1>1. Held' = Held /\ Live' = Live
  BY DEF Held, Live, TypeOK
<1> QED
  BY <1>1 DEF CountsInv

LEMMA CountsStep ==
  ASSUME IInv, [Next]_vars
  PROVE  CountsInv'
<1>0. TypeOK /\ CountsInv /\ WorkersInv /\ IsFiniteSet(Held) /\ IsFiniteSet(Live)
  <2>1. Held \subseteq Rules /\ Live \subseteq Rules
    BY DEF Held, Live
  <2> QED
    BY <2>1, PositionsFinite DEF IInv
<1>1. CASE Spawn
  <2>1. PICK i \in todo : worker' = [worker EXCEPT ![i] = "spawned"]
    BY <1>1 DEF Spawn
  <2>2. i \in Rules /\ worker[i] = "none"
    BY <1>0, <2>1 DEF TypeOK, WorkersInv
  <2>3. Held' = Held \cup {i} /\ Live' = Live \cup {i} /\ i \notin Held /\ i \notin Live
    BY <1>0, <2>1, <2>2 DEF TypeOK, Held, Live
  <2>4. Cardinality(Held') = Cardinality(Held) + 1 /\ Cardinality(Live') = Cardinality(Live) + 1
    BY <1>0, <2>3, FS_AddElement
  <2> QED
    BY <1>0, <1>1, <2>4 DEF Spawn, CountsInv, TypeOK, setup
<1>2. ASSUME NEW i \in Rules, CallProbe(i) \/ ProbeReturns(i) \/ LockCache(i) \/ StoreEntry(i)
      PROVE  CountsInv'
  <2>1. PICK t \in {"calling", "returned", "locked", "stored"} :
          worker' = [worker EXCEPT ![i] = t] /\ i \in Held
    BY <1>2 DEF CallProbe, ProbeReturns, LockCache, StoreEntry, Move, Held
  <2>2. UNCHANGED <<sem, wg, cap>>
    BY <1>2 DEF CallProbe, ProbeReturns, LockCache, StoreEntry, setup
  <2> QED
    BY <1>0, <2>1, <2>2, CountsInside DEF WorkerStates
<1>3. ASSUME NEW i \in Rules, ReleaseToken(i) PROVE CountsInv'
  <2>1. Held' = Held \ {i} /\ i \in Held /\ Live' = Live
    BY <1>0, <1>3 DEF ReleaseToken, Move, Held, Live, TypeOK
  <2>2. Cardinality(Held') = Cardinality(Held) - 1
    BY <1>0, <2>1, FS_RemoveElement
  <2> QED
    BY <1>0, <1>3, <2>1, <2>2 DEF ReleaseToken, CountsInv, TypeOK, setup
<1>4. ASSUME NEW i \in Rules, WorkerDone(i) PROVE CountsInv'
  <2>1. Live' = Live \ {i} /\ i \in Live /\ Held' = Held
    BY <1>0, <1>4 DEF WorkerDone, Move, Held, Live, TypeOK
  <2>2. Cardinality(Live') = Cardinality(Live) - 1
    BY <1>0, <2>1, FS_RemoveElement
  <2> QED
    BY <1>0, <1>4, <2>1, <2>2 DEF WorkerDone, CountsInv, TypeOK, setup
<1>5. CASE UNCHANGED <<worker, sem, wg, cap>>
  BY <1>0, <1>5, CountsUnchanged
<1> QED
  BY <1>1, <1>2, <1>3, <1>4, <1>5
     DEF Next, Caller, Goroutine, Cancel, StopScheduling, PrefetchReturns,
         RuleCancelled, RuleStarts, DialectMismatch, CacheHit, LazyFetch,
         LazyReturns, EvaluateReturns, Returned, Unmoved, setup, vars
----------------------------------------------------------------------------
(* The mutex is held by the one goroutine inside the map write.            *)

LEMMA LockStep ==
  ASSUME IInv, [Next]_vars
  PROVE  LockInv'
<1>0. TypeOK /\ LockInv /\ WorkersInv
  BY DEF IInv
<1>1. CASE Spawn
  <2>1. PICK i \in todo : worker' = [worker EXCEPT ![i] = "spawned"]
    BY <1>1 DEF Spawn
  <2>2. i \in Rules /\ worker[i] = "none" /\ mu' = mu
    BY <1>0, <1>1, <2>1 DEF TypeOK, WorkersInv, Spawn
  <2> QED
    BY <1>0, <2>1, <2>2 DEF LockInv, TypeOK
<1>2. ASSUME NEW i \in Rules, CallProbe(i) \/ ProbeReturns(i) \/ ReleaseToken(i) \/ WorkerDone(i)
      PROVE  LockInv'
  <2>1. mu' = mu /\ worker[i] # "locked"
        /\ \E t \in WorkerStates \ {"locked"} : worker' = [worker EXCEPT ![i] = t]
    BY <1>2 DEF CallProbe, ProbeReturns, ReleaseToken, WorkerDone, Move, WorkerStates
  <2> QED
    BY <1>0, <2>1 DEF LockInv, TypeOK
<1>3. ASSUME NEW i \in Rules, LockCache(i) PROVE LockInv'
  BY <1>0, <1>3, CatalogFacts DEF LockCache, Move, LockInv, TypeOK
<1>4. ASSUME NEW i \in Rules, StoreEntry(i) PROVE LockInv'
  BY <1>0, <1>4, CatalogFacts DEF StoreEntry, Move, LockInv, TypeOK
<1>5. CASE UNCHANGED <<worker, mu>>
  BY <1>0, <1>5 DEF LockInv
<1> QED
  BY <1>1, <1>2, <1>3, <1>4, <1>5
     DEF Next, Caller, Goroutine, Cancel, StopScheduling, PrefetchReturns,
         RuleCancelled, RuleStarts, DialectMismatch, CacheHit, LazyFetch,
         LazyReturns, EvaluateReturns, Returned, Unmoved, setup, vars
----------------------------------------------------------------------------
(* Goroutines live inside Prefetch.                                        *)

\* A goroutine on its way can only be met before wg.Wait has returned.
LEMMA MovingMeansPrefetching ==
  ASSUME WorkersInv, NEW i \in Rules, worker[i] \notin {"none", "done"}
  PROVE  ~Evaluating /\ i \in UniqueProbes(dialect)
BY DEF WorkersInv, Evaluating

LEMMA WorkersStep ==
  ASSUME IInv, [Next]_vars
  PROVE  WorkersInv'
<1>0. TypeOK /\ CountsInv /\ WorkersInv /\ todo \subseteq Rules
  BY DEF IInv, TypeOK
<1>1. CASE Spawn
  <2>1. PICK i \in todo : /\ worker' = [worker EXCEPT ![i] = "spawned"]
                          /\ todo' = todo \ {i}
    BY <1>1 DEF Spawn
  <2>2. pc = "schedule" /\ UNCHANGED <<pc, dialect, results>>
    BY <1>1 DEF Spawn, setup
  <2> QED
    BY <1>0, <2>1, <2>2 DEF WorkersInv, TypeOK, Evaluating
<1>2. ASSUME NEW i \in Rules, Goroutine(i) PROVE WorkersInv'
  <2>1. worker[i] \notin {"none", "done"} /\ UNCHANGED <<pc, dialect, todo, results>>
    BY <1>2 DEF Goroutine, CallProbe, ProbeReturns, LockCache, StoreEntry,
                ReleaseToken, WorkerDone, Move, setup
  <2>2. PICK t \in WorkerStates \ {"none"} : worker' = [worker EXCEPT ![i] = t]
    BY <1>2 DEF Goroutine, CallProbe, ProbeReturns, LockCache, StoreEntry,
                ReleaseToken, WorkerDone, Move, WorkerStates
  <2>3. ~Evaluating /\ i \in UniqueProbes(dialect)
    BY <1>0, <2>1, MovingMeansPrefetching
  <2> QED
    BY <1>0, <2>1, <2>2, <2>3 DEF WorkersInv, TypeOK, Evaluating, Current
<1>3. CASE PrefetchReturns
  <2>1. Live = {}
    <3>1. Live \subseteq Rules /\ Cardinality(Live) = 0
      BY <1>0, <1>3 DEF PrefetchReturns, CountsInv, Live
    <3> QED
      BY <3>1, PositionsFinite, FS_EmptySet
  <2>2. \A i \in Rules : worker[i] \in {"none", "done"}
    BY <2>1 DEF Live
  <2> QED
    BY <1>0, <1>3, <2>2 DEF PrefetchReturns, WorkersInv, setup
<1>4. CASE Cancel \/ StopScheduling \/ Returned \/ UNCHANGED vars
  BY <1>0, <1>4 DEF Cancel, StopScheduling, Returned, WorkersInv, Evaluating,
                    Current, setup, vars
<1>5. CASE RuleCancelled \/ RuleStarts \/ DialectMismatch \/ CacheHit
           \/ LazyFetch \/ LazyReturns \/ EvaluateReturns
  <2>1. UNCHANGED <<dialect, todo, worker>> /\ Evaluating
    BY <1>5 DEF RuleCancelled, RuleStarts, DialectMismatch, CacheHit,
                LazyFetch, LazyReturns, EvaluateReturns, Unmoved, setup, Evaluating
  <2>2. \/ pc' \in {"loop", "done"}
        \/ pc' = "rule" /\ Current \in Rules /\ results' = results
        \/ /\ pc' = "lazy" /\ Current \in Rules /\ results' = results
           /\ RuleSupportsDialect(Current, dialect)
    BY <1>0, <1>5 DEF RuleCancelled, RuleStarts, DialectMismatch, CacheHit,
                LazyFetch, LazyReturns, EvaluateReturns, KeepAndReport, Report, WorkersInv
  <2> QED
    BY <1>0, <2>1, <2>2 DEF WorkersInv, Evaluating, Current
<1> QED
  BY <1>1, <1>2, <1>3, <1>4, <1>5 DEF Next, Caller
----------------------------------------------------------------------------
(* Counts and cache entries follow the goroutines; no probe is asked twice. *)

\* Steps that touch neither the counts nor the entries, the answers or the
\* position of any goroutine keep FetchInv, as long as they do not go back into
\* Prefetch and neither enter nor leave a lazy fetch.
LEMMA FetchUnchanged ==
  ASSUME FetchInv, UNCHANGED <<worker, answer, cache, asked, dialect, results>>,
         Evaluating => Evaluating', pc # "lazy", pc' # "lazy"
  PROVE  FetchInv'
BY DEF FetchInv, PendingInv, ProgressInv, OnceInv, LazyInv, Evaluating, ProbeOf

\* The step of goroutine i that asks, answers, locks, stores or leaves.
LEMMA FetchGoroutine ==
  ASSUME IInv, NEW i \in Rules, Goroutine(i)
  PROVE  FetchInv'
<1>0. /\ TypeOK /\ WorkersInv /\ FetchInv /\ ProbeOf(i) \in Probes
      /\ Absent \notin Entries
  BY ProbeOfType, AnswersAreEntries DEF IInv
<1>1. /\ worker[i] \notin {"none", "done"} /\ UNCHANGED <<pc, dialect, results>>
  BY DEF Goroutine, CallProbe, ProbeReturns, LockCache, StoreEntry,
         ReleaseToken, WorkerDone, Move, setup
<1>2. ~Evaluating /\ i \in UniqueProbes(dialect) /\ pc # "lazy"
  BY <1>0, <1>1, MovingMeansPrefetching DEF Evaluating
<1>3. \A j \in UniqueProbes(dialect) : j # i => ProbeOf(j) # ProbeOf(i)
  BY <1>2, UniqueProbesDistinct DEF ProbeOf
<1>4. UniqueProbes(dialect) \subseteq Rules /\ \A j \in Rules : ProbeOf(j) \in Probes
  BY UniqueProbesType, ProbeOfType
<1>5. CASE CallProbe(i)
  <2>1. /\ worker[i] = "spawned"
        /\ asked' = [asked EXCEPT ![ProbeOf(i)] = @ + 1]
        /\ cache' = cache
    BY <1>5 DEF CallProbe, Move, Ask, ProbeOf
  <2>2. \/ worker' = [worker EXCEPT ![i] = "calling"] /\ answer' = answer
        \/ /\ worker' = [worker EXCEPT ![i] = "returned"]
           /\ \E e \in Entries : answer' = [answer EXCEPT ![i] = e]
    BY <1>5, AnswersAreEntries DEF CallProbe, Move
  <2>3. asked[ProbeOf(i)] = 0 /\ cache[ProbeOf(i)] = Absent
    BY <1>0, <1>2, <2>1 DEF FetchInv, PendingInv, ProgressInv
  <2>4. PendingInv'
    BY <1>0, <1>1, <1>2, <1>3, <1>4, <2>1, <2>2, <2>3
       DEF FetchInv, PendingInv, TypeOK, Evaluating
  <2>5. ProgressInv'
    BY <1>0, <1>1, <1>2, <1>4, <2>1, <2>2, <2>3 DEF FetchInv, ProgressInv, TypeOK
  <2>6. OnceInv'
    <3>1. worker'[i] \in {"calling", "returned"} /\ asked'[ProbeOf(i)] = 1
      BY <1>0, <2>1, <2>2, <2>3 DEF TypeOK
    <3>2. \A j \in Rules : worker[j] \in {"calling", "returned", "locked"} =>
                            worker'[j] \in {"calling", "returned", "locked"}
      BY <1>0, <2>1, <2>2 DEF TypeOK
    <3> QED
      BY <1>0, <1>1, <1>2, <1>4, <2>1, <3>1, <3>2 DEF FetchInv, OnceInv, TypeOK
  <2> QED
    BY <1>1, <1>2, <2>4, <2>5, <2>6 DEF FetchInv, LazyInv
<1>6. CASE ProbeReturns(i)
  <2>1. /\ worker[i] = "calling" /\ worker' = [worker EXCEPT ![i] = "returned"]
        /\ UNCHANGED <<asked, cache>>
        /\ \E e \in Entries : answer' = [answer EXCEPT ![i] = e]
    BY <1>6, AnswersAreEntries DEF ProbeReturns, Move
  <2> QED
    BY <1>0, <1>1, <1>2, <1>4, <2>1
       DEF FetchInv, PendingInv, ProgressInv, OnceInv, LazyInv, TypeOK, Evaluating, Current
<1>7. CASE LockCache(i)
  <2>1. /\ worker[i] = "returned" /\ worker' = [worker EXCEPT ![i] = "locked"]
        /\ UNCHANGED <<asked, cache, answer>>
    BY <1>7 DEF LockCache, Move
  <2> QED
    BY <1>0, <1>1, <1>2, <1>4, <2>1
       DEF FetchInv, PendingInv, ProgressInv, OnceInv, LazyInv, TypeOK, Evaluating, Current
<1>8. CASE StoreEntry(i)
  <2>1. /\ worker[i] = "locked" /\ worker' = [worker EXCEPT ![i] = "stored"]
        /\ cache' = [cache EXCEPT ![ProbeOf(i)] = answer[i]]
        /\ UNCHANGED <<asked, answer>>
    BY <1>8 DEF StoreEntry, Move, ProbeOf
  <2>2. answer[i] \in Entries /\ cache[ProbeOf(i)] = Absent
    BY <1>0, <1>2, <2>1 DEF FetchInv, PendingInv, ProgressInv
  <2>3. asked[ProbeOf(i)] = 1
    BY <1>0, <1>2, <2>1 DEF FetchInv, PendingInv, ProgressInv
  <2> QED
    BY <1>0, <1>1, <1>2, <1>3, <1>4, <2>1, <2>2, <2>3
       DEF FetchInv, PendingInv, ProgressInv, OnceInv, LazyInv, TypeOK, Evaluating
<1>9. CASE ReleaseToken(i) \/ WorkerDone(i)
  <2>1. /\ worker[i] \in {"stored", "released"}
        /\ \E t \in {"released", "done"} : worker' = [worker EXCEPT ![i] = t]
        /\ UNCHANGED <<asked, cache, answer>>
    BY <1>9 DEF ReleaseToken, WorkerDone, Move
  <2> QED
    BY <1>0, <1>1, <1>2, <1>4, <2>1
       DEF FetchInv, PendingInv, ProgressInv, OnceInv, LazyInv, TypeOK, Evaluating, Current
<1> QED
  BY <1>5, <1>6, <1>7, <1>8, <1>9 DEF Goroutine

LEMMA FetchStep ==
  ASSUME IInv, [Next]_vars
  PROVE  FetchInv'
<1>0. TypeOK /\ WorkersInv /\ FetchInv /\ Absent \notin Entries /\ todo \subseteq Rules
  BY AnswersAreEntries DEF IInv, TypeOK
<1>1. CASE Spawn
  <2>1. PICK i \in todo : worker' = [worker EXCEPT ![i] = "spawned"]
    BY <1>1 DEF Spawn
  <2>2. /\ pc = "schedule" /\ i \in Rules /\ worker[i] = "none"
        /\ UNCHANGED <<pc, dialect, answer, cache, asked, results>>
    BY <1>0, <1>1 DEF Spawn, setup, WorkersInv
  <2>3. /\ PendingInv' /\ ProgressInv' /\ LazyInv'
    BY <1>0, <2>1, <2>2, UniqueProbesType
       DEF FetchInv, PendingInv, ProgressInv, LazyInv, TypeOK, Evaluating
  <2>4. \A j \in Rules : worker[j] \in {"calling", "returned", "locked"} =>
                          worker'[j] \in {"calling", "returned", "locked"}
    BY <1>0, <2>1, <2>2 DEF TypeOK
  <2>5. OnceInv'
    BY <1>0, <2>2, <2>4 DEF FetchInv, OnceInv
  <2> QED
    BY <2>3, <2>5 DEF FetchInv
<1>2. CASE UNCHANGED vars
  BY <1>0, <1>2 DEF vars, FetchInv, PendingInv, ProgressInv, OnceInv, LazyInv,
                    Evaluating, Current, setup
<1>3. CASE Cancel \/ Returned
  <2>1. UNCHANGED <<pc, worker, answer, cache, asked, dialect, results>>
    BY <1>3 DEF Cancel, Returned, vars, setup
  <2> QED
    BY <1>0, <2>1 DEF FetchInv, PendingInv, ProgressInv, OnceInv, LazyInv,
                      Evaluating, Current
<1>4. CASE StopScheduling \/ PrefetchReturns \/ RuleStarts \/ EvaluateReturns
  <2>1. /\ UNCHANGED <<worker, answer, cache, asked, dialect, results>>
        /\ Evaluating => Evaluating'
        /\ pc # "lazy" /\ pc' # "lazy"
    BY <1>4 DEF StopScheduling, PrefetchReturns, RuleStarts, EvaluateReturns,
                Unmoved, setup, Evaluating
  <2> QED
    BY <1>0, <2>1, FetchUnchanged
<1>5. CASE RuleCancelled \/ DialectMismatch \/ CacheHit
  <2>1. /\ UNCHANGED <<worker, answer, cache, asked, dialect>>
        /\ pc \in {"loop", "rule"} /\ pc' = "loop"
    BY <1>5 DEF RuleCancelled, DialectMismatch, CacheHit, Report, Unmoved, setup
  <2> QED
    BY <1>0, <2>1 DEF FetchInv, PendingInv, ProgressInv, OnceInv, LazyInv, Evaluating
<1>6. CASE LazyFetch
  <2> DEFINE p == ProbeOf(Current)
  <2>1. /\ pc = "rule" /\ cache[p] = Absent
        /\ UNCHANGED <<worker, answer, dialect>>
        /\ asked' = [asked EXCEPT ![p] = @ + 1]
    BY <1>6 DEF LazyFetch, Ask, Unmoved, setup, ProbeOf
  <2>2. p \in Probes /\ \A j \in Rules : worker[j] \in {"none", "done"}
    BY <1>0, <2>1, ProbeOfType DEF WorkersInv, Evaluating
  <2>3. asked[p] = 0
    <3>1. asked[p] \in Nat /\ asked[p] <= 1
      BY <1>0, <2>2 DEF FetchInv, OnceInv, TypeOK
    <3>2. asked[p] # 1
      BY <1>0, <2>1, <2>2 DEF FetchInv, OnceInv
    <3> QED
      BY <3>1, <3>2
  <2>4. \/ pc' = "lazy" /\ UNCHANGED <<cache, results>>
        \/ /\ pc' = "loop"
           /\ \E e \in Entries : cache' = [cache EXCEPT ![p] = e]
    BY <1>6, AnswersAreEntries DEF LazyFetch, KeepAndReport, Report, ProbeOf
  <2>5. PendingInv'
    BY <2>1, <2>4 DEF PendingInv, Evaluating
  <2>6. ProgressInv'
    <3>1. \A q \in Probes : cache[q] # Absent => cache'[q] # Absent
      BY <1>0, <2>2, <2>4 DEF TypeOK
    <3>2. \A j \in Rules : worker'[j] = "done" => cache'[ProbeOf(j)] # Absent
      BY <1>0, <2>1, <3>1, ProbeOfType DEF FetchInv, ProgressInv
    <3> QED
      BY <2>1, <2>2, <3>2 DEF ProgressInv
  <2>7. CASE pc' = "lazy" /\ UNCHANGED <<cache, results>>
    BY <1>0, <2>1, <2>2, <2>3, <2>5, <2>6, <2>7
       DEF FetchInv, OnceInv, LazyInv, TypeOK, Current
  <2>8. CASE pc' = "loop" /\ \E e \in Entries : cache' = [cache EXCEPT ![p] = e]
    BY <1>0, <2>1, <2>2, <2>3, <2>5, <2>6, <2>8
       DEF FetchInv, OnceInv, LazyInv, TypeOK
  <2> QED
    BY <2>4, <2>7, <2>8
<1>7. CASE LazyReturns
  <2> DEFINE p == ProbeOf(Current)
  <2>1. /\ pc = "lazy" /\ pc' = "loop"
        /\ UNCHANGED <<worker, answer, dialect, asked>>
        /\ \E e \in Entries : cache' = [cache EXCEPT ![p] = e]
    BY <1>7, AnswersAreEntries DEF LazyReturns, KeepAndReport, Report, Unmoved, setup, ProbeOf
  <2>2. p \in Probes /\ \A j \in Rules : worker[j] \in {"none", "done"}
    BY <1>0, <2>1, ProbeOfType DEF WorkersInv, Evaluating
  <2>3. asked[p] = 1
    BY <1>0, <2>1 DEF FetchInv, LazyInv
  <2>4. PendingInv' /\ LazyInv'
    BY <2>1 DEF PendingInv, LazyInv, Evaluating
  <2>5. ProgressInv'
    BY <1>0, <2>1, <2>2 DEF FetchInv, ProgressInv, TypeOK
  <2>6. OnceInv'
    BY <1>0, <2>1, <2>2, <2>3 DEF FetchInv, OnceInv, TypeOK
  <2> QED
    BY <2>4, <2>5, <2>6 DEF FetchInv
<1>8. ASSUME NEW i \in Rules, Goroutine(i) PROVE FetchInv'
  BY <1>8, FetchGoroutine
<1> QED
  BY <1>1, <1>2, <1>3, <1>4, <1>5, <1>6, <1>7, <1>8 DEF Next, Caller
----------------------------------------------------------------------------
(* The theorems.                                                           *)

\* Every behaviour of the engine satisfies the inductive invariant.
THEOREM Inductive == Spec => []IInv
<1>1. IInv /\ [Next]_vars => IInv'
  BY TypeStep, CountsStep, LockStep, WorkersStep, FetchStep DEF IInv
<1> QED
  BY InitInv, <1>1, PTL DEF Spec

\* Type correctness: in particular neither counter ever goes negative.
THEOREM TypeCorrect == Spec => []TypeOK
<1>1. IInv => TypeOK
  BY DEF IInv
<1> QED
  BY Inductive, <1>1, PTL

\* Prefetch never has more requests in flight than its semaphore admits.
THEOREM BoundedConcurrency == Spec => []InFlightBounded
<1>1. IInv => InFlightBounded
  <2> SUFFICES ASSUME IInv PROVE Cardinality(InFlight) <= cap
    BY DEF InFlightBounded
  <2>1. Held \subseteq Rules /\ InFlight \subseteq Held
    BY DEF Held, InFlight
  <2>2. Cardinality(InFlight) <= Cardinality(Held) /\ IsFiniteSet(InFlight)
    BY <2>1, PositionsFinite, FS_Subset
  <2>3. Cardinality(InFlight) \in Nat
    BY <2>2, FS_CardinalityType
  <2> QED
    BY <2>2, <2>3 DEF IInv, CountsInv, TypeOK
<1> QED
  BY Inductive, <1>1, PTL

\* The cache map has one writer at a time, and none of the goroutines is left when
\* the evaluation reads it.
THEOREM CacheSafety == Spec => []CacheIsSafe
<1>1. IInv => OneMapWriter
  BY DEF IInv, LockInv, OneMapWriter
<1>2. IInv => PrefetchQuiescent
  BY DEF IInv, WorkersInv, Evaluating, PrefetchQuiescent
<1>3. IInv => CacheIsSafe
  BY <1>1, <1>2 DEF CacheIsSafe
<1> QED
  BY Inductive, <1>3, PTL

\* Prefetch and lazy fetches together ask for a probe at most once.
THEOREM AtMostOnce == Spec => []FetchedAtMostOnce
<1>1. IInv => FetchedAtMostOnce
  BY DEF IInv, FetchInv, OnceInv, FetchedAtMostOnce
<1> QED
  BY Inductive, <1>1, PTL

\* An entry, once stored, survives every step.
LEMMA EntriesFinalStep ==
  ASSUME IInv, [Next]_vars
  PROVE  [\A p \in Probes : cache[p] # Absent => cache'[p] = cache[p]]_vars
<1> SUFFICES ASSUME IInv, Next, NEW p \in Probes, cache[p] # Absent
             PROVE  cache'[p] = cache[p]
  OBVIOUS
<1>0. TypeOK /\ WorkersInv /\ FetchInv
  BY DEF IInv
<1>1. CASE cache' = cache
  BY <1>1
<1>2. ASSUME NEW i \in Rules, StoreEntry(i) PROVE cache'[p] = cache[p]
  <2>1. worker[i] = "locked" /\ cache' = [cache EXCEPT ![ProbeOf(i)] = answer[i]]
    BY <1>2 DEF StoreEntry, Move, ProbeOf
  <2>2. cache[ProbeOf(i)] = Absent
    BY <1>0, <2>1, MovingMeansPrefetching DEF FetchInv, PendingInv
  <2> QED
    BY <1>0, <2>1, <2>2 DEF TypeOK
<1>3. CASE LazyFetch \/ LazyReturns
  <2>1. cache[ProbeOf(Current)] = Absent
    BY <1>0, <1>3 DEF LazyFetch, LazyReturns, FetchInv, LazyInv, ProbeOf
  <2>2. cache' = cache \/ \E e : cache' = [cache EXCEPT ![ProbeOf(Current)] = e]
    BY <1>3 DEF LazyFetch, LazyReturns, KeepAndReport, ProbeOf
  <2> QED
    BY <1>0, <2>1, <2>2 DEF TypeOK
<1> QED
  BY <1>1, <1>2, <1>3
     DEF Next, Caller, Goroutine, Cancel, Spawn, StopScheduling, PrefetchReturns,
         CallProbe, ProbeReturns, LockCache, ReleaseToken, WorkerDone,
         RuleCancelled, RuleStarts, DialectMismatch, CacheHit, EvaluateReturns,
         Returned, vars

\* A cache entry is never replaced, by a goroutine or by a lazy fetch.
THEOREM EntriesFinal == Spec => CacheEntriesFinal
<1>1. IInv /\ [Next]_vars =>
        [\A p \in Probes : cache[p] # Absent => cache'[p] = cache[p]]_vars
  BY EntriesFinalStep
<1> QED
  BY Inductive, <1>1, PTL DEF Spec, CacheEntriesFinal
----------------------------------------------------------------------------
(* Prefetch asks for what the evaluation will read.                        *)

\* A prefetch that was not cut short has started a goroutine for all it listed, and
\* evalOne is not entered after one that was: the context is done by then.
PrefetchInv ==
  mode = "prefetch" =>
    /\ \A i \in UniqueProbes(dialect) \ todo : worker[i] # "none"
    /\ pc # "schedule" => todo = {} \/ ctx = "done"
    /\ pc \in {"rule", "lazy"} => todo = {}

ExactInv == PrefetchInv /\ PrefetchIsExact

\* Every set of positions has a first one.
LEMMA FirstPosition ==
  ASSUME NEW T, T \subseteq Nat, T # {}
  PROVE  \E x \in T : \A y \in T : ~(y < x)
<1> DEFINE R == {ss \in Nat \X Nat : ss[1] < ss[2]}
<1>1. IsWellFoundedOn(R, Nat)
  BY NatLessThanWellFounded, Zenon DEF OpToRel
<1> HIDE DEF R
<1>2. PICK x \in T : \A y \in T : ~(<<y, x>> \in R)
  BY <1>1, WFMin
<1> QED
  BY <1>2 DEF R

\* uniqueProbes lists the probe of every applicable rule that has one.
LEMMA UniqueProbesComplete ==
  ASSUME NEW d, NEW i \in Rules, RuleSupportsDialect(i, d), ProbeOf(i) # NoProbe
  PROVE  \E j \in UniqueProbes(d) : ProbeOf(j) = ProbeOf(i)
<1> DEFINE T == {j \in Rules : RuleSupportsDialect(j, d) /\ ProbeOf(j) = ProbeOf(i)}
<1>1. T \subseteq Nat /\ i \in T
  BY CatalogFacts
<1>2. PICK j \in T : \A k \in T : ~(k < j)
  BY <1>1, FirstPosition
<1>3. ASSUME NEW k \in 1 .. (j - 1), RuleSupportsDialect(k, d)
      PROVE  ProbeOf(k) # ProbeOf(j)
  <2>1. k \in Rules /\ k < j
    BY CatalogFacts, <1>2 DEF Rules
  <2> QED
    BY <1>2, <1>3, <2>1
<1>4. j \in UniqueProbes(d)
  BY <1>2, <1>3 DEF UniqueProbes, ProbeOf
<1> QED
  BY <1>2, <1>4

\* Where nothing is left to start and no goroutine is on its way, the cache has the
\* probe of every applicable rule.
LEMMA NothingToFetch ==
  ASSUME IInv, PrefetchInv, mode = "prefetch", Evaluating, todo = {},
         NEW i \in Rules, RuleSupportsDialect(i, dialect), ProbeOf(i) # NoProbe
  PROVE  cache[ProbeOf(i)] # Absent
<1>1. PICK j \in UniqueProbes(dialect) : ProbeOf(j) = ProbeOf(i)
  BY UniqueProbesComplete
<1>2. j \in Rules /\ worker[j] # "none"
  BY UniqueProbesType DEF PrefetchInv
<1>3. worker[j] = "done"
  BY <1>2 DEF IInv, WorkersInv
<1> QED
  BY <1>1, <1>2, <1>3 DEF IInv, FetchInv, ProgressInv

LEMMA PrefetchStep ==
  ASSUME IInv, PrefetchInv, [Next]_vars
  PROVE  PrefetchInv'
<1>0. TypeOK /\ WorkersInv
  BY DEF IInv
<1>1. CASE Spawn
  <2>1. PICK i \in todo : /\ worker' = [worker EXCEPT ![i] = "spawned"]
                          /\ todo' = todo \ {i}
    BY <1>1 DEF Spawn
  <2> QED
    BY <1>0, <1>1, <2>1 DEF Spawn, setup, PrefetchInv, TypeOK
<1>2. ASSUME NEW i \in Rules, Goroutine(i) PROVE PrefetchInv'
  <2>1. UNCHANGED <<mode, dialect, pc, todo, ctx>>
    BY <1>2 DEF Goroutine, CallProbe, ProbeReturns, LockCache, StoreEntry,
                ReleaseToken, WorkerDone, setup
  <2>2. PICK t \in WorkerStates \ {"none"} : worker' = [worker EXCEPT ![i] = t]
    BY <1>2 DEF Goroutine, CallProbe, ProbeReturns, LockCache, StoreEntry,
                ReleaseToken, WorkerDone, Move, WorkerStates
  <2> QED
    BY <1>0, <2>1, <2>2 DEF PrefetchInv, TypeOK
<1>3. CASE Cancel \/ StopScheduling \/ PrefetchReturns \/ Returned \/ UNCHANGED vars
  BY <1>0, <1>3 DEF Cancel, StopScheduling, PrefetchReturns, Returned, PrefetchInv, TypeOK, setup, vars
<1>4. CASE RuleCancelled \/ RuleStarts \/ DialectMismatch \/ CacheHit
           \/ LazyFetch \/ LazyReturns \/ EvaluateReturns
  <2>1. UNCHANGED <<mode, dialect, todo, ctx, worker>> /\ pc \in {"loop", "rule", "lazy"}
    BY <1>4 DEF RuleCancelled, RuleStarts, DialectMismatch, CacheHit,
                LazyFetch, LazyReturns, EvaluateReturns, Unmoved, setup
  <2>2. \/ pc' \in {"loop", "done"}
        \/ pc' = "rule" /\ pc = "loop" /\ ctx = "live"
        \/ pc' = "lazy" /\ pc = "rule"
    BY <1>4 DEF RuleCancelled, RuleStarts, DialectMismatch, CacheHit,
                LazyFetch, LazyReturns, EvaluateReturns, KeepAndReport, Report
  <2> QED
    BY <2>1, <2>2 DEF PrefetchInv
<1> QED
  BY <1>1, <1>2, <1>3, <1>4 DEF Next, Caller

LEMMA SufficesStep ==
  ASSUME IInv, PrefetchInv, PrefetchSuffices, [Next]_vars
  PROVE  PrefetchSuffices'
<1> SUFFICES ASSUME mode' = "prefetch", pc' = "lazy"
             PROVE  FALSE
  BY DEF PrefetchSuffices
<1>1. mode' = mode
  BY DEF Next, Caller, Goroutine, Cancel, Spawn, StopScheduling, PrefetchReturns,
         CallProbe, ProbeReturns, LockCache, StoreEntry, ReleaseToken, WorkerDone,
         RuleCancelled, RuleStarts, DialectMismatch, CacheHit, LazyFetch, LazyReturns,
         EvaluateReturns, Returned, Unmoved, setup, vars
<1>2. pc # "lazy"
  BY <1>1 DEF PrefetchSuffices
<1>3. LazyFetch
  BY <1>2 DEF Next, Caller, Goroutine, Cancel, Spawn, StopScheduling, PrefetchReturns,
         CallProbe, ProbeReturns, LockCache, StoreEntry, ReleaseToken, WorkerDone,
         RuleCancelled, RuleStarts, DialectMismatch, CacheHit, LazyReturns,
         EvaluateReturns, KeepAndReport, Report, Returned, vars
<1>4. /\ pc = "rule" /\ Current \in Rules /\ RuleSupportsDialect(Current, dialect)
      /\ cache[ProbeOf(Current)] = Absent
  BY <1>3 DEF LazyFetch, IInv, WorkersInv, ProbeOf
<1>5. todo = {} /\ Evaluating
  BY <1>1, <1>4 DEF PrefetchInv, Evaluating
<1>6. ProbeOf(Current) = NoProbe
  BY <1>1, <1>4, <1>5, NothingToFetch
<1>7. Immediate(ProbeOf(Current)) = {"notFound"}
  BY <1>6, CatalogAssumption DEF Immediate
<1> QED
  BY <1>3, <1>7 DEF LazyFetch, KeepAndReport, Report, ProbeOf

LEMMA WastedStep ==
  ASSUME IInv, NoWastedFetch, [Next]_vars
  PROVE  NoWastedFetch'
<1>1. TypeOK /\ dialect' = dialect
  BY DEF IInv, Next, Caller, Goroutine, Cancel, Spawn, StopScheduling, PrefetchReturns,
         CallProbe, ProbeReturns, LockCache, StoreEntry, ReleaseToken, WorkerDone,
         RuleCancelled, RuleStarts, DialectMismatch, CacheHit, LazyFetch, LazyReturns,
         EvaluateReturns, Returned, Unmoved, setup, vars
<1>2. CASE asked' = asked
  BY <1>1, <1>2 DEF NoWastedFetch, RuleSupportsDialect
<1>3. ASSUME NEW i \in Rules, RuleSupportsDialect(i, dialect), Ask(ProbeOf(i))
      PROVE  NoWastedFetch'
  BY <1>1, <1>3 DEF NoWastedFetch, RuleSupportsDialect, Ask, TypeOK, ProbeOf
<1>4. ASSUME NEW i \in Rules, CallProbe(i)
      PROVE  RuleSupportsDialect(i, dialect) /\ Ask(ProbeOf(i))
  BY <1>4, MovingMeansPrefetching DEF CallProbe, Move, IInv, UniqueProbes, ProbeOf
<1>5. CASE LazyFetch
  BY <1>3, <1>5 DEF LazyFetch, IInv, WorkersInv, ProbeOf
<1> QED
  BY <1>2, <1>3, <1>4, <1>5
     DEF Next, Caller, Goroutine, Cancel, Spawn, StopScheduling, PrefetchReturns,
         ProbeReturns, LockCache, StoreEntry, ReleaseToken, WorkerDone,
         RuleCancelled, RuleStarts, DialectMismatch, CacheHit, LazyReturns,
         EvaluateReturns, Returned, Unmoved, vars

\* Prefetch asks for nothing that no applicable rule reads, and the evaluation that
\* follows it asks for nothing more, also after a prefetch that was cut short.
THEOREM PrefetchExact == Spec => []PrefetchIsExact
<1>1. Init => ExactInv
  <2> SUFFICES ASSUME Init PROVE ExactInv
    OBVIOUS
  <2>1. PrefetchInv
    BY DEF Init, PrefetchInv
  <2>2. NoWastedFetch /\ PrefetchSuffices
    BY DEF Init, NoWastedFetch, PrefetchSuffices
  <2> QED
    BY <2>1, <2>2 DEF ExactInv, PrefetchIsExact
<1>2. IInv /\ ExactInv /\ [Next]_vars => ExactInv'
  BY PrefetchStep, SufficesStep, WastedStep DEF ExactInv, PrefetchIsExact
<1>3. ExactInv => PrefetchIsExact
  BY DEF ExactInv
<1> QED
  BY Inductive, <1>1, <1>2, <1>3, PTL DEF Spec
----------------------------------------------------------------------------
(* No request after the cancellation.                                      *)

LEMMA NoRequestWhenDone ==
  ASSUME TypeOK, [Next]_vars, ctx = "done"
  PROVE  InFlight' \subseteq InFlight /\ (pc' = "lazy" => pc = "lazy")
<1>1. \A p : Immediate(p) # {}
  BY DEF Immediate
<1>2. ASSUME NEW i \in Rules, Goroutine(i)
      PROVE  InFlight' \subseteq InFlight /\ pc' = pc
  <2>1. PICK t \in WorkerStates \ {"calling"} : worker' = [worker EXCEPT ![i] = t]
    BY <1>1, <1>2 DEF Goroutine, CallProbe, ProbeReturns, LockCache, StoreEntry,
                      ReleaseToken, WorkerDone, Move, WorkerStates
  <2> QED
    BY <1>2, <2>1 DEF InFlight, TypeOK, Goroutine, CallProbe, ProbeReturns, LockCache,
                      StoreEntry, ReleaseToken, WorkerDone
<1>3. CASE Spawn
  BY <1>3 DEF Spawn, InFlight, TypeOK
<1>4. CASE LazyFetch
  BY <1>1, <1>4 DEF LazyFetch, KeepAndReport, Report, Unmoved, InFlight
<1>5. CASE Cancel \/ StopScheduling \/ PrefetchReturns \/ Returned \/ UNCHANGED vars
           \/ RuleCancelled \/ RuleStarts \/ DialectMismatch \/ CacheHit
           \/ LazyReturns \/ EvaluateReturns
  BY <1>5 DEF Cancel, StopScheduling, PrefetchReturns, RuleCancelled, RuleStarts,
              DialectMismatch, CacheHit, LazyReturns, EvaluateReturns, KeepAndReport,
              Report, Returned, Unmoved, InFlight, vars
<1> QED
  BY <1>2, <1>3, <1>4, <1>5 DEF Next, Caller

\* Once the context is done the schedule loop may still start goroutines, but no request
\* reaches the cluster any more, from one of them or from the evaluation.
THEOREM CancellationStops == Spec => CancelStopsRequests
<1>1. IInv /\ [Next]_vars =>
        [ctx = "done" => InFlight' \subseteq InFlight /\ (pc' = "lazy" => pc = "lazy")]_vars
  BY NoRequestWhenDone DEF IInv
<1> QED
  BY Inductive, <1>1, PTL DEF Spec, CancelStopsRequests
----------------------------------------------------------------------------
(* ProbeEngine implements RuleScan: whatever the goroutines, the lazy path *)
(* and the cancellation do, every result is the verdict on the one         *)
(* observation of its probe.                                               *)

\* A result that names its probe is the verdict on the entry the cache holds.
ResultsInv ==
  \A k \in DOMAIN results :
    /\ k \in Rules
    /\ results[k].from \in {"probe", "condition"} =>
         /\ cache[ProbeOf(k)] # Absent
         /\ results[k] = Verdict(k, cache[ProbeOf(k)])

\* Once a rule was reported as cancelled no rule is entered any more.
CutInv ==
  /\ \A k \in DOMAIN results :
       results[k].from = "ctx" => ctx = "done" /\ pc \in {"loop", "done"}
  /\ CancellationCutsSuffix

RInv == IInv /\ ResultsInv /\ CutInv

\* The steps that report, and what they report.
LEMMA ReportSteps ==
  ASSUME IInv, Next, results' # results
  PROVE  /\ Current \in Rules
         /\ ctx' = ctx
         /\ \E r \in [status : Statuses, from : {"ctx", "dialect", "probe", "condition"}] :
              /\ results' = Append(results, r)
              /\ r.from = "ctx" => ctx = "done" /\ pc' = "loop"
              /\ r.from # "ctx" => pc \in {"rule", "lazy"} /\ pc' = "loop"
              /\ r.from \in {"probe", "condition"} =>
                   /\ cache'[ProbeOf(Current)] \in Entries
                   /\ r = Verdict(Current, cache'[ProbeOf(Current)])
<1>0. TypeOK /\ WorkersInv /\ ProbeOf(Current) = Catalog[Current].probe
  BY DEF IInv, ProbeOf
<1>1. RuleCancelled \/ DialectMismatch \/ CacheHit \/ LazyFetch \/ LazyReturns
  BY DEF Next, Caller, Goroutine, Cancel, Spawn, StopScheduling, PrefetchReturns,
         CallProbe, ProbeReturns, LockCache, StoreEntry, ReleaseToken, WorkerDone,
         RuleStarts, EvaluateReturns, Returned, vars
<1>2. Current \in Rules /\ ctx' = ctx
  BY <1>0, <1>1 DEF WorkersInv, RuleCancelled, DialectMismatch, CacheHit, LazyFetch,
                    LazyReturns, Unmoved
<1>3. ProbeOf(Current) \in Probes
  BY <1>2, ProbeOfType
<1>4. CASE RuleCancelled
  BY <1>2, <1>4 DEF RuleCancelled, Report, Statuses
<1>5. CASE DialectMismatch
  BY <1>2, <1>5 DEF DialectMismatch, Report, Statuses
<1>6. CASE CacheHit
  <2>1. cache[ProbeOf(Current)] \in Entries /\ cache' = cache
    BY <1>0, <1>3, <1>6 DEF CacheHit, TypeOK
  <2>2. Verdict(Current, cache[ProbeOf(Current)]).from \in {"probe", "condition"}
    BY DEF Verdict
  <2> QED
    BY <1>0, <1>2, <1>6, <2>1, <2>2, VerdictType DEF CacheHit, Report
<1>7. CASE LazyFetch \/ LazyReturns
  <2>1. PICK e \in Entries : KeepAndReport(ProbeOf(Current), e)
    BY <1>0, <1>7, AnswersAreEntries DEF LazyFetch, LazyReturns
  <2>2. cache'[ProbeOf(Current)] = e
    BY <1>0, <1>3, <2>1 DEF KeepAndReport, TypeOK
  <2>3. Verdict(Current, e).from \in {"probe", "condition"}
    BY DEF Verdict
  <2>4. pc \in {"rule", "lazy"}
    BY <1>7 DEF LazyFetch, LazyReturns
  <2> QED
    BY <1>2, <2>1, <2>2, <2>3, <2>4, VerdictType DEF KeepAndReport, Report
<1> QED
  BY <1>1, <1>4, <1>5, <1>6, <1>7

\* Entries only ever appear, so what was true of a reported rule stays true.
LEMMA EntriesKept ==
  ASSUME IInv, Next, NEW p \in Probes, cache[p] # Absent
  PROVE  cache'[p] = cache[p]
<1>1. [\A q \in Probes : cache[q] # Absent => cache'[q] = cache[q]]_vars
  BY EntriesFinalStep
<1> QED
  BY <1>1 DEF vars

LEMMA ResultsStep ==
  ASSUME RInv, [Next]_vars
  PROVE  ResultsInv' /\ CutInv'
<1>0. /\ IInv /\ TypeOK /\ ResultsInv /\ CutInv /\ Len(results) \in Nat
      /\ DOMAIN results = 1 .. Len(results)
  BY DEF RInv, IInv, TypeOK
<1>1. CASE UNCHANGED vars
  BY <1>0, <1>1 DEF vars, setup, ResultsInv, CutInv, CancellationCutsSuffix, Verdict
<1>2. CASE Next /\ results' = results
  <2>1. ResultsInv'
    <3>1. \A k \in DOMAIN results : cache[ProbeOf(k)] # Absent /\ k \in Rules =>
            cache'[ProbeOf(k)] = cache[ProbeOf(k)]
      BY <1>0, <1>2, EntriesKept, ProbeOfType
    <3> QED
      BY <1>0, <1>2, <3>1 DEF ResultsInv
  <2>2. ctx = "done" => ctx' = "done"
    BY <1>2 DEF Next, Caller, Goroutine, Cancel, Spawn, StopScheduling, PrefetchReturns,
         CallProbe, ProbeReturns, LockCache, StoreEntry, ReleaseToken, WorkerDone,
         RuleCancelled, DialectMismatch, CacheHit, LazyFetch, LazyReturns, Unmoved,
         RuleStarts, EvaluateReturns, Returned, vars
  <2>3. ctx = "done" /\ pc \in {"loop", "done"} => pc' \in {"loop", "done"}
    BY <1>2 DEF Next, Caller, Goroutine, Cancel, Spawn, StopScheduling, PrefetchReturns,
         CallProbe, ProbeReturns, LockCache, StoreEntry, ReleaseToken, WorkerDone,
         RuleCancelled, DialectMismatch, CacheHit, LazyFetch, LazyReturns, Report,
         RuleStarts, EvaluateReturns, Returned, vars
  <2> QED
    BY <1>0, <1>2, <2>1, <2>2, <2>3 DEF CutInv, CancellationCutsSuffix
<1>3. CASE Next /\ results' # results
  <2>1. PICK r \in [status : Statuses, from : {"ctx", "dialect", "probe", "condition"}] :
          /\ results' = Append(results, r)
          /\ r.from = "ctx" => ctx = "done" /\ pc' = "loop"
          /\ r.from # "ctx" => pc \in {"rule", "lazy"} /\ pc' = "loop"
          /\ r.from \in {"probe", "condition"} =>
               /\ cache'[ProbeOf(Current)] \in Entries
               /\ r = Verdict(Current, cache'[ProbeOf(Current)])
    BY <1>0, <1>3, ReportSteps
  <2>2. Current \in Rules /\ ctx' = ctx
    BY <1>0, <1>3, ReportSteps
  <2>3. /\ DOMAIN results' = 1 .. Current
        /\ results'[Current] = r
        /\ \A k \in DOMAIN results : k # Current /\ results'[k] = results[k]
    BY <1>0, <2>1 DEF Current, TypeOK
  <2>4. ResultsInv'
    <3>1. \A k \in DOMAIN results : cache[ProbeOf(k)] # Absent /\ k \in Rules =>
            cache'[ProbeOf(k)] = cache[ProbeOf(k)]
      BY <1>0, <1>3, EntriesKept, ProbeOfType
    <3> SUFFICES ASSUME NEW k \in DOMAIN results'
                 PROVE  /\ k \in Rules
                        /\ results'[k].from \in {"probe", "condition"} =>
                             /\ cache'[ProbeOf(k)] # Absent
                             /\ results'[k] = Verdict(k, cache'[ProbeOf(k)])
      BY DEF ResultsInv
    <3>2. CASE k = Current
      BY <2>1, <2>2, <2>3, <3>2, AnswersAreEntries
    <3>3. CASE k # Current
      <4>1. k \in DOMAIN results
        BY <1>0, <2>3, <3>3 DEF Current
      <4> QED
        BY <1>0, <2>3, <3>1, <4>1 DEF ResultsInv
    <3> QED
      BY <3>2, <3>3
  <2>5. CutInv'
    <3>1. \A k \in DOMAIN results' : k \in DOMAIN results \/ k = Current
      BY <1>0, <2>3 DEF Current
    <3>2. CASE r.from = "ctx"
      <4>1. \A k \in DOMAIN results' :
              results'[k].from = "ctx" => ctx' = "done" /\ pc' \in {"loop", "done"}
        BY <2>1, <2>2, <3>2
      <4>2. \A k, l \in DOMAIN results' :
              k < l /\ results'[k].from = "ctx" => results'[l].from = "ctx"
        <5> SUFFICES ASSUME NEW k \in DOMAIN results', NEW l \in DOMAIN results',
                            k < l, results'[k].from = "ctx"
                     PROVE  results'[l].from = "ctx"
          OBVIOUS
        <5>1. k \in DOMAIN results
          BY <1>0, <2>3, <3>1 DEF Current
        <5> QED
          BY <1>0, <2>3, <3>1, <3>2, <5>1 DEF CutInv, CancellationCutsSuffix
      <4> QED
        BY <4>1, <4>2 DEF CutInv, CancellationCutsSuffix
    <3>3. CASE r.from # "ctx"
      <4>1. \A k \in DOMAIN results : results[k].from # "ctx"
        BY <1>0, <2>1, <3>3 DEF CutInv
      <4>2. \A k \in DOMAIN results' : results'[k].from # "ctx"
        BY <2>3, <3>1, <3>3, <4>1
      <4> QED
        BY <4>2 DEF CutInv, CancellationCutsSuffix
    <3> QED
      BY <3>2, <3>3
  <2> QED
    BY <2>4, <2>5
<1> QED
  BY <1>1, <1>2, <1>3
----------------------------------------------------------------------------
LEMMA ResultsInductive == Spec => []RInv
<1>1. Init => ResultsInv /\ CutInv
  BY DEF Init, ResultsInv, CutInv, CancellationCutsSuffix
<1>2. RInv /\ [Next]_vars => (ResultsInv /\ CutInv)'
  BY ResultsStep
<1>3. IInv /\ ResultsInv /\ CutInv <=> RInv
  BY DEF RInv
<1> QED
  BY Inductive, <1>1, <1>2, <1>3, PTL DEF Spec

\* Rules that rest on one probe rest on one answer, however it was fetched.
THEOREM OneObservation == Spec => []SharedObservation
<1>1. ASSUME RInv PROVE SharedObservation
  <2> SUFFICES ASSUME NEW k \in DOMAIN results, NEW l \in DOMAIN results,
                      Catalog[k].probe = Catalog[l].probe,
                      results[k].from \in {"probe", "condition"},
                      results[l].from \in {"probe", "condition"}
               PROVE  /\ results[k].from = results[l].from
                      /\ results[k].from = "probe" => results[k].status = results[l].status
    BY DEF SharedObservation
  <2> DEFINE e == cache[ProbeOf(k)]
  <2>1. results[k] = Verdict(k, e) /\ results[l] = Verdict(l, e)
    BY <1>1 DEF RInv, ResultsInv, ProbeOf
  <2>2. k \in Rules /\ e # Absent
    BY <1>1 DEF RInv, ResultsInv
  <2>3. e \in Entries
    BY <1>1, <2>2, ProbeOfType DEF RInv, IInv, TypeOK
  <2>4. CASE e \in Data
    BY <2>1, <2>4 DEF Verdict
  <2>5. CASE e \notin Data
    BY <2>1, <2>3, <2>5 DEF Verdict, Entries
  <2> QED
    BY <2>4, <2>5
<1> QED
  BY ResultsInductive, <1>1, PTL

\* Cancellation splits the catalog once.
THEOREM SuffixCut == Spec => []CancellationCutsSuffix
<1>1. RInv => CancellationCutsSuffix
  BY DEF RInv, CutInv
<1> QED
  BY ResultsInductive, <1>1, PTL
----------------------------------------------------------------------------
(* The refinement.                                                         *)

LEMMA InitMaps == Init => Promise!Init
BY DEF Init, Promise!Init

\* A step of the engine is a step of the promise or leaves it unchanged.
LEMMA StepMaps ==
  ASSUME RInv, [Next]_vars
  PROVE  [Promise!Next]_(Promise!vars)
<1>0. /\ IInv /\ TypeOK /\ WorkersInv /\ FetchInv /\ CutInv
      /\ Absent \notin Entries /\ Promise!Rules = Rules /\ Promise!Current = Current
  BY AnswersAreEntries DEF RInv, IInv, Promise!Rules, Promise!Current, Rules, Current
<1>1. CASE UNCHANGED <<dialect, ctx, cache, results>>
  BY <1>1 DEF Promise!vars
<1>2. CASE Cancel
  BY <1>2 DEF Cancel, Promise!Next, Promise!Cancel, setup
<1>3. ASSUME NEW i \in Rules, StoreEntry(i) PROVE Promise!Next
  <2>1. worker[i] = "locked" /\ cache' = [cache EXCEPT ![Catalog[i].probe] = answer[i]]
        /\ UNCHANGED <<dialect, ctx, results>>
    BY <1>3 DEF StoreEntry, Move, setup
  <2>2. ~Evaluating /\ i \in UniqueProbes(dialect)
    BY <1>0, <2>1, MovingMeansPrefetching
  <2>3. /\ cache[Catalog[i].probe] = Absent /\ answer[i] \in Entries
        /\ Catalog[i].probe \in Probes
    BY <1>0, <2>1, <2>2, ProbeOfType DEF FetchInv, PendingInv, ProgressInv, ProbeOf
  <2>4. dialect \in Catalog[i].dialects
    BY <2>2 DEF UniqueProbes, RuleSupportsDialect
  <2>5. Promise!Observes(Catalog[i].probe, answer[i])
    BY <1>0, <2>1, <2>3, <2>4 DEF Promise!Observes, Promise!Applies
  <2> QED
    BY <2>1, <2>3, <2>5 DEF Promise!Next, Promise!Observe
<1>4. CASE Next /\ results' # results
  <2>1. RuleCancelled \/ DialectMismatch \/ CacheHit \/ LazyFetch \/ LazyReturns
    BY <1>4 DEF Next, Caller, Goroutine, Cancel, Spawn, StopScheduling, PrefetchReturns,
         CallProbe, ProbeReturns, LockCache, StoreEntry, ReleaseToken, WorkerDone,
         RuleStarts, EvaluateReturns, Returned, vars
  <2>2. Current \in Rules /\ UNCHANGED <<dialect, ctx>>
    BY <1>0, <1>4, <2>1, ReportSteps DEF RuleCancelled, DialectMismatch, CacheHit,
       LazyFetch, LazyReturns, Unmoved, setup
  <2>3. CASE RuleCancelled
    BY <1>0, <2>2, <2>3 DEF RuleCancelled, Report, Promise!Next, Promise!Report,
       Promise!CutShort
  <2>4. pc \in {"rule", "lazy"} => ~Promise!Severed
    BY <1>0 DEF CutInv, Promise!Severed, Promise!CutShort
  <2>5. CASE DialectMismatch
    BY <1>0, <2>2, <2>4, <2>5 DEF DialectMismatch, Report, RuleSupportsDialect,
       Promise!Next, Promise!Report, Promise!Applies, Promise!Mismatch
  <2>6. CASE CacheHit
    BY <1>0, <2>2, <2>4, <2>6 DEF CacheHit, Report, RuleSupportsDialect,
       Promise!Next, Promise!Report, Promise!Applies
  <2>7. CASE LazyFetch \/ LazyReturns
    <3>1. PICK e \in Entries : KeepAndReport(Catalog[Current].probe, e)
      BY <1>4, <2>7, AnswersAreEntries DEF LazyFetch, LazyReturns
    <3>2. cache[Catalog[Current].probe] = Absent
      BY <1>0, <2>7 DEF LazyFetch, LazyReturns, FetchInv, LazyInv, ProbeOf
    <3>3. dialect \in Catalog[Current].dialects /\ pc \in {"rule", "lazy"}
      BY <1>0, <2>7 DEF LazyFetch, LazyReturns, RuleSupportsDialect, WorkersInv
    <3>4. Promise!Observes(Catalog[Current].probe, e)
      BY <1>0, <2>2, <3>1, <3>2, <3>3 DEF KeepAndReport, Promise!Observes, Promise!Applies
    <3> QED
      BY <1>0, <2>2, <2>4, <3>1, <3>3, <3>4
         DEF KeepAndReport, Report, Promise!Next, Promise!Report, Promise!Applies
  <2> QED
    BY <2>1, <2>3, <2>5, <2>6, <2>7
<1> QED
  BY <1>1, <1>2, <1>3, <1>4
     DEF Next, Caller, Goroutine, Spawn, StopScheduling, PrefetchReturns, CallProbe,
         ProbeReturns, LockCache, ReleaseToken, WorkerDone, RuleCancelled, RuleStarts,
         DialectMismatch, CacheHit, LazyFetch, LazyReturns, KeepAndReport, Report,
         EvaluateReturns, Returned, Unmoved, setup, vars

\* The engine keeps the promise of RuleScan.
THEOREM Refinement == Spec => ImplementsRuleScan
<1>1. RInv /\ [Next]_vars => [Promise!Next]_(Promise!vars)
  BY StepMaps
<1> QED
  BY ResultsInductive, InitMaps, <1>1, PTL DEF Spec, ImplementsRuleScan, Promise!Spec
============================================================================
