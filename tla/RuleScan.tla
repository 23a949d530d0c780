------------------------------ MODULE RuleScan ------------------------------
(***************************************************************************)
(* What the engine promises the report and the exit code, without fetches, *)
(* goroutines or a cache: a probe is observed at most once, every rule is  *)
(* judged exactly once, in catalog order, from that one observation, and a *)
(* cancelled scan turns the rules it has not reached into errors.          *)
(***************************************************************************)
EXTENDS Integers, Sequences

CONSTANTS
  Catalog,   \* rules in catalog order: [probe, dialects] records
  Dialects,
  Probes,
  Entries,   \* what an observation can be: data or an error
  Unread,    \* no observation yet
  Judge(_, _)  \* Judge(i, e): the result of rule i given observation e

VARIABLES
  dialect,   \* the probed cluster's dialect
  obs,       \* obs[p]: the scan's one observation of probe p
  verdicts,  \* results so far
  cut        \* the context is done

vars == <<dialect, obs, verdicts, cut>>

Rules      == 1 .. Len(Catalog)
Applies(i) == dialect \in Catalog[i].dialects
Current    == Len(verdicts) + 1
CutShort   == [status |-> "error", from |-> "ctx"]
Mismatch   == [status |-> "skipped", from |-> "dialect"]

Init ==
  /\ dialect \in Dialects
  /\ obs = [p \in Probes |-> Unread]
  /\ verdicts = <<>>
  /\ cut \in BOOLEAN

Cancel == ~cut /\ cut' = TRUE /\ UNCHANGED <<dialect, obs, verdicts>>

\* The observation of a probe some applicable rule reads.
Observes(p, e) ==
  /\ obs[p] = Unread
  /\ \E i \in Rules : Applies(i) /\ Catalog[i].probe = p
  /\ obs' = [obs EXCEPT ![p] = e]

Observe ==
  /\ \E p \in Probes, e \in Entries : Observes(p, e)
  /\ UNCHANGED <<dialect, verdicts, cut>>

\* Once one rule was cut short, so are all the rules after it.
Severed == \E k \in DOMAIN verdicts : verdicts[k] = CutShort

Report ==
  /\ Current \in Rules
  /\ \/ cut /\ verdicts' = Append(verdicts, CutShort) /\ UNCHANGED obs
     \/ /\ ~Severed /\ ~Applies(Current)
        /\ verdicts' = Append(verdicts, Mismatch) /\ UNCHANGED obs
     \/ /\ ~Severed /\ Applies(Current)
        /\ obs[Catalog[Current].probe] # Unread
        /\ verdicts' = Append(verdicts, Judge(Current, obs[Catalog[Current].probe]))
        /\ UNCHANGED obs
     \/ /\ ~Severed /\ Applies(Current)
        /\ \E e \in Entries :
             /\ Observes(Catalog[Current].probe, e)
             /\ verdicts' = Append(verdicts, Judge(Current, e))
  /\ UNCHANGED <<dialect, cut>>

Next == Cancel \/ Observe \/ Report

Spec == Init /\ [][Next]_vars
============================================================================
