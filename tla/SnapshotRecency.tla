-------------------------- MODULE SnapshotRecency --------------------------
(***************************************************************************)
(* The snapshot_recency probe (internal/probes/snapshot_recency.go) and    *)
(* the three rules over it (rules/lifecycle).  The probe makes two calls,  *)
(* the snapshots and then the repositories, and reads the clock once       *)
(* after both; the cluster takes, finishes and prunes snapshots meanwhile. *)
(***************************************************************************)
EXTENDS Integers, Sequences, FiniteSets, SequencesExt

CONSTANTS
  Repos,    \* repositories
  Ids,      \* snapshots
  MaxTime,  \* bound on the clock, in hours; 0 stands for a missing start time
  Slo,      \* snapshot_slo_age: hours a success may be old (48)
  GapLimit, \* retention_gap: hours between successes (168)
  Ends,     \* the states a snapshot may end in
  MaxChanges \* bound on what the cluster does during the probe

VARIABLES
  now,      \* the clock
  repos,    \* registered repositories
  snaps,    \* snaps[s]: Absent, or its repository, state and start time
  pc,       \* "idle", "snapshots" listed, "repositories" listed, "done", "failed"
  listed,   \* what the first call returned: as snaps, only what it could see
  known,    \* what the second call returned
  out,      \* the roll-up, a row per repository
  kept,     \* history: the snapshots listed that are still there
  changes    \* what the cluster has done since (counted only for the bound)

vars == <<now, repos, snaps, pc, listed, known, out, kept, changes>>

States == {"SUCCESS", "FAILED", "PARTIAL", "IN_PROGRESS", "other"}
Absent == [state |-> "absent"]
Times == 0 .. MaxTime
None == -1

Present(S) == {s \in Ids : S[s] # Absent}
In(S, r) == {s \in Present(S) : S[s].repo = r}
WithState(S, r, st) == {s \in In(S, r) : S[s].state = st}
Starts(S, r) == {S[s].start : s \in In(S, r)} \ {0}

\* Variant: snapshots in any state are in the timeline.
SuccessStarts_AnyState(S, r) == Starts(S, r)

\* The start times of the successes that have one.
SuccessStarts(S, r) == {S[s].start : s \in WithState(S, r, "SUCCESS")} \ {0}

InOrder(T) == CHOOSE s \in SetToSeqs(T) : \A i, j \in DOMAIN s : i < j => s[i] < s[j]
Largest(X) == CHOOSE x \in X : \A y \in X : y <= x
----------------------------------------------------------------------------
(* The cluster.                                                            *)

Cluster(action) ==
  /\ action
  /\ changes' = IF pc = "idle" THEN 0 ELSE changes + 1
  /\ UNCHANGED <<pc, listed, known, out>>

Tick ==
  /\ now < MaxTime
  /\ now' = now + 1
  /\ UNCHANGED <<repos, snaps, kept>>

\* A record may lack its start time.
TakeSnapshot(s, r) ==
  /\ snaps[s] = Absent /\ r \in repos
  /\ \E t \in {now, 0} :
       snaps' = [snaps EXCEPT ![s] = [repo |-> r, state |-> "IN_PROGRESS", start |-> t]]
  /\ UNCHANGED <<now, repos, kept>>

EndSnapshot(s) ==
  /\ snaps[s] # Absent /\ snaps[s].state = "IN_PROGRESS"
  /\ \E st \in Ends : snaps' = [snaps EXCEPT ![s].state = st]
  /\ UNCHANGED <<now, repos, kept>>

Prune(s) ==
  /\ snaps[s] # Absent
  /\ snaps' = [snaps EXCEPT ![s] = Absent] /\ kept' = kept \ {s}
  /\ UNCHANGED <<now, repos>>

\* Snapshots stay in a repository that is removed, and come back with it.
Register(r) ==
  /\ repos' = (repos \ {r}) \cup ({r} \ repos)
  /\ UNCHANGED <<now, snaps, kept>>
----------------------------------------------------------------------------
(* The probe.                                                              *)

\* si.Snapshots sees the registered repositories only.
ListSnapshots ==
  /\ pc = "idle"
  /\ listed' = [s \in Ids |-> IF snaps[s] # Absent /\ snaps[s].repo \in repos
                              THEN snaps[s] ELSE Absent]
  /\ kept' = Present(listed')
  /\ pc' = "snapshots"
  /\ UNCHANGED <<now, repos, snaps, known, out, changes>>

ListRepositories ==
  /\ pc = "snapshots"
  /\ known' = repos /\ pc' = "repositories"
  /\ UNCHANGED <<now, repos, snaps, listed, out, kept, changes>>

\* A call fails and with it the probe: what it had is dropped.
Fails ==
  /\ pc \in {"idle", "snapshots"} /\ pc' = "failed"
  /\ listed' = [s \in Ids |-> Absent] /\ kept' = {} /\ changes' = 0
  /\ UNCHANGED <<now, repos, snaps, known, out>>

\* A row for each repository of either call.
Rows == known \cup {listed[s].repo : s \in Present(listed)}

\* The state of the newest snapshot with a start time; the first of two that tie.
NewestStates(r) ==
  IF Starts(listed, r) = {} THEN {"none"}
  ELSE {listed[s].state : s \in {x \in In(listed, r) :
          listed[x].start = Largest(Starts(listed, r))}}

\* Variant: the time since the last success is not a gap.
MaxGap_BetweenOnly(T, t) ==
  LET s == InOrder(T)
  IN  Largest({0} \cup {s[i] - s[i - 1] : i \in 2 .. Len(s)})

\* The largest gap between successes in order, and from the last one to now.
MaxGap(T, t) ==
  LET s == InOrder(T)
  IN  Largest({t - s[Len(s)]} \cup {s[i] - s[i - 1] : i \in 2 .. Len(s)})

Row(r, newest) ==
  LET T == SuccessStarts(listed, r)
  IN  [count |-> Cardinality(In(listed, r)),
       success |-> Cardinality(WithState(listed, r, "SUCCESS")),
       failed |-> Cardinality(WithState(listed, r, "FAILED")),
       partial |-> Cardinality(WithState(listed, r, "PARTIAL")),
       inProgress |-> Cardinality(WithState(listed, r, "IN_PROGRESS")),
       newest |-> newest,
       age |-> IF T = {} THEN None ELSE now - Largest(T),
       gap |-> IF T = {} THEN None ELSE MaxGap(T, now)]

\* now := time.Now(), and everything after it.
Aggregate ==
  /\ pc = "repositories"
  /\ \E newest \in [Rows -> UNION {NewestStates(r) : r \in Rows}] :
       /\ \A r \in Rows : newest[r] \in NewestStates(r)
       /\ out' = [r \in Rows |-> Row(r, newest[r])]
  /\ pc' = "done"
  /\ UNCHANGED <<now, repos, snaps, listed, known, kept, changes>>
----------------------------------------------------------------------------
(* The repositories each rule flags.                                       *)

SnapshotSloAge == {r \in DOMAIN out : out[r].age # None /\ out[r].age > Slo}
RetentionGap == {r \in DOMAIN out : out[r].gap # None /\ out[r].gap > GapLimit}

\* Variant: a success has to have a start time.
UntestedRestore_Dated == {r \in DOMAIN out : out[r].count > 0 /\ out[r].age = None}

UntestedRestore == {r \in DOMAIN out : out[r].count > 0 /\ out[r].success = 0}
----------------------------------------------------------------------------
Init ==
  /\ now = 1 /\ repos \in SUBSET Repos /\ snaps = [s \in Ids |-> Absent]
  /\ pc = "idle" /\ listed = snaps /\ known = {} /\ out = <<>>
  /\ kept = {} /\ changes = 0

ClusterStep ==
  /\ pc \notin {"done", "failed"} /\ changes < MaxChanges
  /\ \/ Cluster(Tick)
     \/ \E s \in Ids : \/ \E r \in Repos : Cluster(TakeSnapshot(s, r))
                       \/ Cluster(EndSnapshot(s)) \/ Cluster(Prune(s))
     \/ \E r \in Repos : Cluster(Register(r))

Finished == pc \in {"done", "failed"} /\ UNCHANGED vars

Next == ClusterStep \/ ListSnapshots \/ ListRepositories \/ Fails \/ Aggregate \/ Finished

Spec == Init /\ [][Next]_vars
----------------------------------------------------------------------------
(* Properties.                                                             *)

Done == pc = "done"

\* The gap reported is the longest silence: no longer stretch since the first
\* success is without one, and one stretch as long is.
GapIsLongestSilence ==
  Done => \A r \in DOMAIN out :
    LET T == SuccessStarts(listed, r)
        silent(t, n) == ~\E x \in T : t < x /\ x < t + n
    IN  IF T = {} THEN out[r].gap = None
        ELSE /\ \E t \in T : t + out[r].gap <= now /\ silent(t, out[r].gap)
             /\ \A t \in T, n \in Times : t + n <= now /\ silent(t, n) => n <= out[r].gap

\* A success that was listed and is still there is never reported as older than it
\* is, nor is a repository with one flagged for want of a fresh snapshot; what the
\* cluster did between the two calls does not matter.
FreshSuccessIsNotFlagged ==
  \A s \in kept :
    LET r == listed[s].repo
    IN  listed[s].state = "SUCCESS" =>
          /\ r \notin UntestedRestore
          /\ listed[s].start > 0 =>
               /\ out[r].age \in 0 .. now - listed[s].start
               /\ now - listed[s].start <= Slo => r \notin SnapshotSloAge

\* A repository with snapshots when they were listed, of which none is a success
\* fresh enough at the time of the report, is flagged by one of the rules, as long as
\* its successes have start times, registered or not by the time of the second call
\* ("repositories with zero SUCCESS snapshots are skipped, that's the untested_restore
\* rule's job", snapshot_slo_age.yaml:12-14).
StaleRepositoryIsFlagged ==
  \A r \in Repos :
    /\ In(listed, r) # {}
    /\ \A s \in WithState(listed, r, "SUCCESS") :
         listed[s].start > 0 /\ now - listed[s].start > Slo
    => r \in UntestedRestore \cup SnapshotSloAge

\* The rules leave neither a false alarm nor a hole between them.
RecencyRulesAgree == Done => FreshSuccessIsNotFlagged /\ StaleRepositoryIsFlagged
=============================================================================
