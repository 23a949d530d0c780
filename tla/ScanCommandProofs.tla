------------------------- MODULE ScanCommandProofs -------------------------
(***************************************************************************)
(* Proofs about ScanCommand for every catalog, --targets list and set of   *)
(* contexts: whatever the signals and deadlines, the exit code tells what  *)
(* happened and the report of a fleet is complete.                         *)
(***************************************************************************)
EXTENDS ScanCommand, SequenceTheorems, TLAPS

Results == {"pass", "fail", "error"} \cup ContextErrors
Errors == ConnectErrors \cup ContextErrors
Outcomes == [results : Seq(Results), err : Errors \cup {"nil"}]

TypeOK ==
  /\ flag \in TargetFlags /\ timeout \in BOOLEAN
  /\ sigCh \in Signals \cup {NoSignal} /\ held \in Signals \cup {NoSignal}
  /\ sig \in Signals \cup {NoSignal}
  /\ watcher \in {"select", "received", "stored", "gone"} /\ root \in {"live", "canceled"}
  /\ pc \in {"targets", "load", "visit", "connect", "engine", "gate", "returned", "exited"}
  /\ pos \in 0 .. Len(flag)
  /\ targets \in Seq(Contexts \cup {Default})
  /\ scan \in {"live"} \cup ContextErrors
  /\ results \in Seq(Results) /\ outcomes \in Seq(Outcomes)
  /\ rendered \in BOOLEAN
  /\ err \in Errors \cup {"nil", "usage", "catalog", "io", "findings"}
  /\ code \in Int

\* The goroutine in main has stored the signal it received before it cancels.
SignalInv ==
  /\ watcher = "select" <=> held = NoSignal
  /\ sig = IF watcher \in {"stored", "gone"} THEN held ELSE NoSignal
  /\ root = "canceled" <=> watcher = "gone"

Visiting == pc \in {"connect", "engine"}

\* Whether an outcome, or the results of the cluster being scanned, are cut by e.
Cut(o, e) == o.err = e \/ \E r \in DOMAIN o.results : o.results[r] = e

\* Every trace of a cancellation comes from the root context, by way of the cluster's.
CancelInv ==
  /\ scan = "canceled" => root = "canceled"
  /\ err = "canceled" => root = "canceled"
  /\ \A i \in DOMAIN outcomes : Cut(outcomes[i], "canceled") => root = "canceled"
  /\ Multi => \A i \in DOMAIN outcomes :
       i < Len(outcomes) \/ Visiting => ~Cut(outcomes[i], "canceled")

\* A context's error is final, and a deadline leaves its mark where it passed.
CutInv ==
  /\ pc # "engine" => results = << >>
  /\ \A r \in DOMAIN results : results[r] \in ContextErrors => scan = results[r]
  /\ Visiting /\ scan = "deadline" => Len(outcomes) + 1 \in lapsed
  /\ \A r, q \in DOMAIN results :
       r < q /\ results[r] \in ContextErrors => results[q] = results[r]
  /\ \A i \in DOMAIN outcomes :
       /\ Cut(outcomes[i], "deadline") => i \in lapsed
       /\ \A r, q \in DOMAIN outcomes[i].results :
            r < q /\ outcomes[i].results[r] \in ContextErrors
              => outcomes[i].results[q] = outcomes[i].results[r]

\* The elements of t are in the order in which the first n of f have them first.
Ordered(t, f, n) ==
  \A i, k \in DOMAIN t :
    i < k => \E j \in 1 .. n : f[j] = t[i] /\ \A h \in 1 .. j : f[h] # t[k]

Taken(t) == {t[i] : i \in DOMAIN t}
Given(f, n) == {f[j] : j \in 1 .. n} \ {Blank}

InOrder == Ordered(targets, flag, pos)
AllNamed == Taken(targets) = Given(flag, pos)

TargetsInv ==
  /\ pc = "targets" /\ ~Multi => targets = << >>
  /\ pc \notin {"targets", "returned", "exited"} \/ rendered => pos = Len(flag)
  /\ Multi => InOrder
  /\ Multi /\ (pc \notin {"returned", "exited"} \/ rendered) => AllNamed

\* The clusters visited so far, and the one that is being visited.
VisitInv ==
  /\ pc \in {"targets", "load"} => outcomes = << >>
  /\ pc = "load" /\ Multi => targets # << >>
  /\ pc \in {"visit", "connect", "engine", "gate"} \/ rendered => targets # << >>
  /\ pc = "visit" => Len(outcomes) <= Len(targets)
  /\ Visiting => ToVisit
  /\ Len(results) <= Len(Severity)
  /\ rendered => Len(outcomes) = Len(targets) /\ pc \in {"gate", "returned", "exited"}
  /\ pc = "gate" => rendered
  /\ \A i \in DOMAIN outcomes :
       Len(outcomes[i].results) = IF outcomes[i].err = "nil" THEN Len(Severity) ELSE 0

\* Of the clusters that could not be reached one was first.
FirstInv == Unreached # {} => \E i \in Unreached : \A j \in Unreached : i <= j

\* The error cli.Run returns, and the code the process exits with.
GateInv ==
  /\ pc \in {"returned", "exited"} =>
       IF rendered
       THEN err = IF Tripped THEN "findings"
                  ELSE IF Unreached # {} THEN FirstConnectErr ELSE "nil"
       ELSE err \notin {"nil", "findings"}
  /\ code = IF pc = "exited"
            THEN IF sig # NoSignal THEN SignalCode(sig) ELSE Code(err)
            ELSE -1

\* The step adds outcome o to those of the clusters visited.
Grown(o) ==
  /\ o \in Outcomes
  /\ Len(outcomes') = Len(outcomes) + 1 /\ DOMAIN outcomes' = 1 .. Len(outcomes) + 1
  /\ \A i \in 1 .. Len(outcomes) : outcomes'[i] = outcomes[i]
  /\ outcomes'[Len(outcomes) + 1] = o

IInv == TypeOK /\ SignalInv /\ CancelInv /\ CutInv /\ TargetsInv /\ VisitInv /\ FirstInv /\ GateInv
----------------------------------------------------------------------------
(* Facts about the constants and about sequences that grow by one.         *)

LEMMA FlagFacts ==
  ASSUME NEW f \in TargetFlags
  PROVE  Len(f) \in Nat /\ DOMAIN f = 1 .. Len(f)
<1>1. f \in Seq({f[j] : j \in DOMAIN f})
  BY ScanAssumption
<1> QED
  BY <1>1, LenProperties

LEMMA SeverityFacts ==
  /\ Severity \in Seq(1 .. 4) /\ Len(Severity) \in Nat /\ DOMAIN Severity = 1 .. Len(Severity)
  /\ \A r \in DOMAIN Severity : Severity[r] \in 1 .. 4
  /\ FailOn \in 1 .. 4
<1>1. Severity \in Seq(1 .. 4) /\ FailOn \in 1 .. 4
  BY ScanAssumption
<1> QED
  BY <1>1, LenProperties, ElementOfSeq

\* Appending leaves the old elements in place and adds one at the end.
LEMMA Grows ==
  ASSUME NEW S, NEW s \in Seq(S), NEW e \in S
  PROVE  /\ Append(s, e) \in Seq(S)
         /\ Len(s) \in Nat /\ Len(Append(s, e)) = Len(s) + 1
         /\ DOMAIN s = 1 .. Len(s) /\ DOMAIN Append(s, e) = 1 .. Len(s) + 1
         /\ \A i \in 1 .. Len(s) : Append(s, e)[i] = s[i]
         /\ Append(s, e)[Len(s) + 1] = e
<1>1. /\ Append(s, e) \in Seq(S)
      /\ Len(Append(s, e)) = Len(s) + 1
      /\ \A i \in 1 .. Len(s) : Append(s, e)[i] = s[i]
      /\ Append(s, e)[Len(s) + 1] = e
  BY AppendProperties
<1>2. Len(s) \in Nat /\ DOMAIN s = 1 .. Len(s)
  BY LenProperties
<1>3. DOMAIN Append(s, e) = 1 .. Len(Append(s, e))
  BY <1>1, LenProperties
<1> QED
  BY <1>1, <1>2, <1>3

\* firstConnectErr is the error of a cluster before which all were reached.
LEMMA FirstConnectErrIsFirst ==
  ASSUME TypeOK, FirstInv, Unreached # {}
  PROVE  /\ FirstConnectErr \in Errors
         /\ \E i \in Unreached : /\ FirstConnectErr = outcomes[i].err
                                /\ \A j \in 1 .. i - 1 : outcomes[j].err = "nil"
<1> DEFINE first == CHOOSE i \in Unreached : \A j \in Unreached : i <= j
<1>1. first \in Unreached /\ \A j \in Unreached : first <= j
  BY DEF FirstInv
<1>2. Len(outcomes) \in Nat /\ DOMAIN outcomes = 1 .. Len(outcomes)
  BY LenProperties DEF TypeOK
<1>3. first \in 1 .. Len(outcomes) /\ outcomes[first].err # "nil"
  BY <1>1, <1>2 DEF Unreached
<1>4. outcomes[first] \in Outcomes
  BY <1>2, <1>3, ElementOfSeq DEF TypeOK
<1>5. outcomes[first].err \in Errors
  BY <1>3, <1>4 DEF Outcomes
<1>6. \A j \in 1 .. first - 1 : outcomes[j].err = "nil"
  BY <1>1, <1>2, <1>3 DEF Unreached
<1>7. FirstConnectErr = outcomes[first].err
  BY DEF FirstConnectErr
<1> QED
  BY <1>1, <1>5, <1>6, <1>7
----------------------------------------------------------------------------
(* Type correctness.                                                       *)

LEMMA InitType == Init => TypeOK
<1> SUFFICES ASSUME Init PROVE TypeOK
  OBVIOUS
<1>1. 0 \in 0 .. Len(flag)
  BY FlagFacts DEF Init
<1>2. timeout \in BOOLEAN
  BY ScanAssumption DEF Init
<1>3. targets \in Seq(Contexts \cup {Default}) /\ results \in Seq(Results) /\ outcomes \in Seq(Outcomes)
  BY EmptySeq DEF Init
<1>4. code \in Int
  BY DEF Init
<1>5. pc \in {"targets", "load", "visit", "connect", "engine", "gate", "returned", "exited"}
  BY DEF Init
<1>6. err \in Errors \cup {"nil", "usage", "catalog", "io", "findings"}
  BY DEF Init
<1>7. rendered \in BOOLEAN /\ scan \in {"live"} \cup ContextErrors
  BY DEF Init
<1> QED
  BY <1>1, <1>2, <1>3, <1>4, <1>5, <1>6, <1>7 DEF Init, TypeOK

LEMMA NextType == TypeOK /\ FirstInv /\ [Next]_vars => TypeOK'
<1> SUFFICES ASSUME TypeOK, FirstInv, [Next]_vars PROVE TypeOK'
  OBVIOUS
<1> USE DEF TypeOK, cli, signal
<1>1. CASE Deliver
  BY <1>1 DEF Deliver
<1>2. CASE Watcher
  BY <1>2 DEF Watcher, Receive, StoreSignal, CancelRoot, Propagate, ContextErrors
<1>3. CASE Expire
  BY <1>3 DEF Expire, ContextErrors
<1>4. CASE ResolveTarget
  <2>1. pos' \in 0 .. Len(flag')
    BY <1>4, FlagFacts DEF ResolveTarget
  <2>2. targets' \in Seq(Contexts \cup {Default})
    <3>1. ASSUME NEW name \in Contexts PROVE Append(targets, name) \in Seq(Contexts \cup {Default})
      BY Grows
    <3> QED
      BY <1>4, <3>1 DEF ResolveTarget
  <2> QED
    BY <1>4, <2>1, <2>2 DEF ResolveTarget, Return
<1>5. CASE TargetsRefused \/ TargetsResolved
  BY <1>5 DEF TargetsRefused, TargetsResolved, Return
<1>6. CASE Load
  <2>1. <<Default>> \in Seq(Contexts \cup {Default})
    OBVIOUS
  <2>2. targets' \in Seq(Contexts \cup {Default})
    BY <1>6, <2>1 DEF Load
  <2>3. pc' \in {"returned", "visit"} /\ err' \in {"usage", "catalog", err}
    BY <1>6 DEF Load, Return
  <2> QED
    BY <1>6, <2>2, <2>3 DEF Load
<1>7. CASE FleetCanceled \/ Visit \/ Connect
  BY <1>7 DEF FleetCanceled, Visit, Connect, Return, ContextErrors, Errors
<1>8. CASE ConnectFails
  <2>1. PICK e \in ConnectErrors \cup ({scan} \cap ContextErrors) :
          /\ outcomes' = Append(outcomes, [results |-> << >>, err |-> e])
          /\ IF Multi THEN pc' = "visit" /\ UNCHANGED err ELSE Return(e)
    BY <1>8 DEF ConnectFails
  <2>2. [results |-> << >>, err |-> e] \in Outcomes
    BY DEF Outcomes, Errors
  <2>3. outcomes' \in Seq(Outcomes)
    BY <2>1, <2>2, Grows
  <2> QED
    BY <1>8, <2>1, <2>3 DEF ConnectFails, Return, Errors
<1>9. CASE Evaluate
  <2>1. PICK r \in Results : results' = Append(results, r)
    BY <1>9 DEF Evaluate, Results
  <2> QED
    BY <1>9, <2>1, Grows DEF Evaluate
<1>10. CASE ClusterDone
  <2>1. [results |-> results, err |-> "nil"] \in Outcomes
    BY DEF Outcomes
  <2> QED
    BY <1>10, <2>1, Grows DEF ClusterDone
<1>11. CASE Render
  BY <1>11 DEF Render, Return
<1>12. CASE Gate
  <2>1. Unreached # {} => FirstConnectErr \in Errors
    BY FirstConnectErrIsFirst
  <2> QED
    BY <1>12, <2>1 DEF Gate, Return
<1>13. CASE Exit
  BY <1>13 DEF Exit, SignalCode, Code
<1>14. CASE Exited \/ UNCHANGED vars
  BY <1>14 DEF Exited, vars
<1> QED
  BY <1>1, <1>2, <1>3, <1>4, <1>5, <1>6, <1>7, <1>8, <1>9, <1>10, <1>11, <1>12, <1>13, <1>14
     DEF Next, Main
----------------------------------------------------------------------------
(* Signals and cancellation.                                               *)

LEMMA InitInv == Init => IInv
<1> SUFFICES ASSUME Init PROVE IInv
  OBVIOUS
<1>1. TypeOK
  BY InitType
<1>2. DOMAIN outcomes = {} /\ DOMAIN results = {} /\ DOMAIN targets = {}
      /\ Len(outcomes) = 0 /\ Len(results) = 0
  BY DEF Init
<1>3. SignalInv /\ CancelInv /\ CutInv
  BY <1>2 DEF Init, SignalInv, CancelInv, CutInv, Visiting, NoSignal
<1>4. TargetsInv /\ VisitInv
  <2>1. Ordered(targets, flag, pos)
    BY <1>2 DEF Ordered
  <2>2. Taken(targets) = {} /\ Given(flag, pos) = {}
    BY <1>2 DEF Init, Taken, Given
  <2>3. TargetsInv
    BY <2>1, <2>2 DEF Init, TargetsInv, InOrder, AllNamed
  <2>4. VisitInv
    BY <1>2, SeverityFacts DEF Init, VisitInv, Visiting
  <2> QED
    BY <2>3, <2>4
<1>5. FirstInv /\ GateInv
  BY <1>2 DEF Init, FirstInv, GateInv, Unreached
<1> QED
  BY <1>1, <1>3, <1>4, <1>5 DEF IInv

LEMMA NextSignal ==
  ASSUME TypeOK, SignalInv, [Next]_vars
  PROVE  SignalInv'
<1> USE DEF SignalInv
<1>1. CASE Deliver
  BY <1>1 DEF Deliver
<1>2. CASE Receive
  BY <1>2 DEF Receive
<1>3. CASE StoreSignal
  BY <1>3 DEF StoreSignal
<1>4. CASE CancelRoot
  BY <1>4 DEF CancelRoot
<1>5. CASE Expire \/ Main \/ Exited \/ UNCHANGED vars
  BY <1>5 DEF Main, Expire, ResolveTarget, TargetsRefused, TargetsResolved, Load, FleetCanceled,
              Visit, Connect, ConnectFails, Evaluate, ClusterDone, Render, Gate, Exit, Exited,
              signal, vars
<1> QED
  BY <1>1, <1>2, <1>3, <1>4, <1>5 DEF Next, Watcher

\* A connect failure is an outcome without results, a finished cluster one without error.
LEMMA OutcomesGrow ==
  ASSUME TypeOK
  PROVE  /\ ConnectFails => \E e \in ConnectErrors \cup ({scan} \cap ContextErrors) :
              /\ Grown([results |-> << >>, err |-> e])
              /\ IF Multi THEN pc' = "visit" /\ UNCHANGED err ELSE Return(e)
         /\ ClusterDone => Grown([results |-> results, err |-> "nil"])
         /\ Len(outcomes) \in Nat /\ DOMAIN outcomes = 1 .. Len(outcomes)
<1>1. ASSUME NEW o \in Outcomes, outcomes' = Append(outcomes, o) PROVE Grown(o)
  BY <1>1, Grows DEF TypeOK, Grown
<1>2. \A e \in Errors : [results |-> << >>, err |-> e] \in Outcomes
  BY DEF Outcomes
<1>3. [results |-> results, err |-> "nil"] \in Outcomes
  BY DEF TypeOK, Outcomes
<1>4. Len(outcomes) \in Nat /\ DOMAIN outcomes = 1 .. Len(outcomes)
  BY LenProperties DEF TypeOK
<1> QED
  BY <1>1, <1>2, <1>3, <1>4 DEF ConnectFails, ClusterDone, Errors

LEMMA NextCancel ==
  ASSUME IInv, [Next]_vars
  PROVE  CancelInv'
<1> USE DEF IInv, CancelInv, Multi, cli, signal
<1>0. Len(outcomes) \in Nat /\ DOMAIN outcomes = 1 .. Len(outcomes)
  BY OutcomesGrow
<1>1. CASE Deliver \/ Receive \/ StoreSignal
  BY <1>1 DEF Deliver, Receive, StoreSignal, Visiting
<1>2. CASE CancelRoot
  BY <1>2 DEF CancelRoot, Visiting
<1>3. CASE Expire
  BY <1>3 DEF Expire, Visiting
<1>4. CASE ResolveTarget \/ TargetsRefused \/ TargetsResolved \/ Load \/ Render
  BY <1>4 DEF ResolveTarget, TargetsRefused, TargetsResolved, Load, Render, Return, Visiting
<1>5. CASE FleetCanceled
  BY <1>5 DEF FleetCanceled, Return, Visiting
<1>6. CASE Visit
  BY <1>6 DEF Visit, Visiting, TypeOK
<1>7. CASE Connect \/ Evaluate
  BY <1>7 DEF Connect, Evaluate, Visiting
<1>8. CASE ConnectFails
  <2>1. PICK e \in ConnectErrors \cup ({scan} \cap ContextErrors) :
          /\ Grown([results |-> << >>, err |-> e])
          /\ IF Multi THEN pc' = "visit" /\ UNCHANGED err ELSE Return(e)
    BY <1>8, OutcomesGrow
  <2>2. e = "canceled" => root = "canceled"
    BY DEF ConnectErrors
  <2>3. Cut([results |-> << >>, err |-> e], "canceled") => root = "canceled"
    BY <2>2 DEF Cut
  <2>4. UNCHANGED <<scan, root, flag>> /\ Visiting /\ ~Visiting'
        /\ (err' = "canceled" => err = "canceled" \/ e = "canceled")
    BY <1>8, <2>1 DEF ConnectFails, Return, Visiting
  <2> QED
    BY <1>0, <2>1, <2>2, <2>3, <2>4 DEF Grown
<1>9. CASE ClusterDone
  <2>1. Grown([results |-> results, err |-> "nil"])
    BY <1>9, OutcomesGrow
  <2>2. Cut([results |-> results, err |-> "nil"], "canceled") => root = "canceled"
    BY DEF Cut, CutInv, ContextErrors
  <2>3. UNCHANGED <<scan, root, flag, err>> /\ Visiting /\ ~Visiting'
    BY <1>9 DEF ClusterDone, Visiting
  <2> QED
    BY <1>0, <2>1, <2>2, <2>3 DEF Grown
<1>10. CASE Gate
  <2>1. Unreached # {} /\ FirstConnectErr = "canceled" => root = "canceled"
    BY FirstConnectErrIsFirst DEF Unreached, Cut
  <2> QED
    BY <1>10, <2>1 DEF Gate, Return, Visiting
<1>11. CASE Exit \/ Exited \/ UNCHANGED vars
  BY <1>11 DEF Exit, Exited, vars, Visiting
<1> QED
  BY <1>1, <1>2, <1>3, <1>4, <1>5, <1>6, <1>7, <1>8, <1>9, <1>10, <1>11 DEF Next, Main, Watcher
----------------------------------------------------------------------------
(* What an interruption cuts off.                                          *)

LEMMA NextCut ==
  ASSUME IInv, [Next]_vars
  PROVE  CutInv'
<1> USE DEF IInv, CutInv, cli, signal
<1>0. /\ Len(outcomes) \in Nat /\ DOMAIN outcomes = 1 .. Len(outcomes)
      /\ Len(results) \in Nat /\ DOMAIN results = 1 .. Len(results)
  BY OutcomesGrow, LenProperties DEF TypeOK
<1>1. CASE Deliver \/ Receive \/ StoreSignal
  BY <1>1 DEF Deliver, Receive, StoreSignal, Visiting
<1>2. CASE CancelRoot
  BY <1>2 DEF CancelRoot, Propagate, Visiting, ContextErrors
<1>3. CASE Expire
  BY <1>3 DEF Expire, Visiting, ContextErrors
<1>4. CASE ResolveTarget \/ TargetsRefused \/ TargetsResolved \/ Load
  BY <1>4 DEF ResolveTarget, TargetsRefused, TargetsResolved, Load, Return, Visiting
<1>5. CASE FleetCanceled \/ Render \/ Gate \/ Exit
  BY <1>5 DEF FleetCanceled, Render, Gate, Exit, Return, Visiting
<1>6. CASE Visit
  <2>1. DOMAIN results = {}
    BY <1>6 DEF Visit
  <2> QED
    BY <1>6, <2>1 DEF Visit, Visiting
<1>7. CASE Connect
  BY <1>7 DEF Connect, Visiting
<1>8. CASE ConnectFails
  <2>1. PICK e \in ConnectErrors \cup ({scan} \cap ContextErrors) :
          Grown([results |-> << >>, err |-> e])
    BY <1>8, OutcomesGrow
  <2>2. Cut([results |-> << >>, err |-> e], "deadline") => Len(outcomes) + 1 \in lapsed
    BY <1>8 DEF Cut, ConnectFails, Visiting, ConnectErrors
  <2>3. UNCHANGED <<scan, lapsed, results>> /\ results = << >> /\ ~Visiting'
    BY <1>8 DEF ConnectFails, Visiting, Return
  <2> QED
    BY <1>0, <2>1, <2>2, <2>3 DEF Grown
<1>9. CASE Evaluate
  <2>1. PICK x \in Results : results' = Append(results, x) /\ (x \in ContextErrors => scan = x)
                             /\ (scan # "live" => x = scan)
    <3>1. PICK x \in IF scan = "live" THEN {"pass", "fail", "error"} ELSE {scan} :
            results' = Append(results, x)
      BY <1>9 DEF Evaluate
    <3>2. scan \in {"live", "canceled", "deadline"}
      BY DEF TypeOK, ContextErrors
    <3> QED
      BY <3>1, <3>2 DEF Results, ContextErrors
  <2>2. /\ Len(results') = Len(results) + 1 /\ DOMAIN results' = 1 .. Len(results) + 1
        /\ \A r \in 1 .. Len(results) : results'[r] = results[r]
        /\ results'[Len(results) + 1] = x
    BY <2>1, Grows DEF TypeOK
  <2>3. UNCHANGED <<pc, scan, lapsed, outcomes>> /\ pc = "engine"
    BY <1>9 DEF Evaluate
  <2>4. \A r \in DOMAIN results : results[r] \in ContextErrors => x = results[r]
    BY <2>1 DEF ContextErrors
  <2> QED
    BY <1>0, <2>1, <2>2, <2>3, <2>4 DEF Visiting
<1>10. CASE ClusterDone
  <2>1. Grown([results |-> results, err |-> "nil"])
    BY <1>10, OutcomesGrow
  <2>2. Cut([results |-> results, err |-> "nil"], "deadline") => Len(outcomes) + 1 \in lapsed
    BY <1>10 DEF Cut, ClusterDone, Visiting, ContextErrors
  <2>3. UNCHANGED <<scan, lapsed>> /\ results' = << >> /\ DOMAIN results' = {} /\ ~Visiting'
    BY <1>10 DEF ClusterDone, Visiting
  <2>4. ASSUME NEW i \in DOMAIN outcomes'
        PROVE  /\ Cut(outcomes'[i], "deadline") => i \in lapsed
               /\ \A r, q \in DOMAIN outcomes'[i].results :
                    r < q /\ outcomes'[i].results[r] \in ContextErrors
                      => outcomes'[i].results[q] = outcomes'[i].results[r]
    <3>1. CASE i \in DOMAIN outcomes
      BY <1>0, <2>1, <3>1 DEF Grown
    <3>2. CASE i = Len(outcomes) + 1
      <4>1. outcomes'[i].results = results
        BY <2>1, <3>2 DEF Grown
      <4> QED
        BY <2>1, <2>2, <3>2, <4>1 DEF Grown
    <3> QED
      BY <1>0, <2>1, <3>1, <3>2 DEF Grown
  <2> QED
    BY <2>3, <2>4
<1>11. CASE Exited \/ UNCHANGED vars
  BY <1>11 DEF Exited, vars, Visiting
<1> QED
  BY <1>1, <1>2, <1>3, <1>4, <1>5, <1>6, <1>7, <1>8, <1>9, <1>10, <1>11 DEF Next, Main, Watcher
----------------------------------------------------------------------------
(* The targets and the walk over them.                                     *)

\* One more entry of --targets: a name already taken or a blank, or a new name.
LEMMA OneMoreEntry ==
  ASSUME TypeOK, InOrder, pos < Len(flag), UNCHANGED flag, pos' = pos + 1
  PROVE  /\ UNCHANGED targets => InOrder'
         /\ AllNamed /\ flag[pos + 1] \in Taken(targets) \cup {Blank}
              /\ UNCHANGED targets => AllNamed'
         /\ AllNamed /\ flag[pos + 1] \in Contexts \ Taken(targets)
              /\ targets' = Append(targets, flag[pos + 1]) => InOrder' /\ AllNamed'
<1> DEFINE name == flag[pos + 1]
           seen == Taken(targets)
<1>1. /\ Len(flag) \in Nat /\ pos \in Nat
      /\ Len(targets) \in Nat /\ DOMAIN targets = 1 .. Len(targets)
  BY FlagFacts, LenProperties DEF TypeOK
<1>2. Given(flag', pos') = Given(flag, pos) \cup ({name} \ {Blank})
  <2>1. 1 .. pos + 1 = (1 .. pos) \cup {pos + 1}
    BY <1>1
  <2> QED
    BY <2>1 DEF Given
<1>3. UNCHANGED targets => InOrder'
  <2>1. 1 .. pos \subseteq 1 .. pos'
    BY <1>1
  <2> QED
    BY <2>1 DEF InOrder, Ordered
<1>4. AllNamed /\ name \in seen \cup {Blank} /\ UNCHANGED targets => AllNamed'
  BY <1>2 DEF AllNamed
<1>5. ASSUME AllNamed, name \in Contexts \ seen, targets' = Append(targets, name)
      PROVE  InOrder' /\ AllNamed'
  <2>1. name # Blank
    BY <1>5, ScanAssumption
  <2>2. /\ Len(targets') = Len(targets) + 1 /\ DOMAIN targets' = 1 .. Len(targets) + 1
        /\ \A i \in 1 .. Len(targets) : targets'[i] = targets[i]
        /\ targets'[Len(targets) + 1] = name
    <3>1. name \in Contexts \cup {Default} /\ targets \in Seq(Contexts \cup {Default})
      BY <1>5 DEF TypeOK
    <3> QED
      BY <1>5, <3>1, Grows
  <2>3. seen = Given(flag, pos)
    BY <1>5 DEF AllNamed
  <2>4. Taken(targets') = seen \cup {name}
    BY <1>1, <2>2 DEF Taken
  <2>5. AllNamed'
    BY <1>2, <2>1, <2>3, <2>4 DEF AllNamed
  <2>6. \A h \in 1 .. pos : flag[h] # name
    BY <1>5, <2>1, <2>3 DEF Given
  <2>7. ASSUME NEW i \in 1 .. Len(targets)
        PROVE  \E j \in 1 .. pos : flag[j] = targets[i]
    <3>1. targets[i] \in Given(flag, pos)
      BY <1>1, <2>3 DEF Taken
    <3> QED
      BY <3>1 DEF Given
  <2>8. ASSUME NEW i \in DOMAIN targets', NEW k \in DOMAIN targets', i < k
        PROVE  \E j \in 1 .. pos' :
                 flag'[j] = targets'[i] /\ \A h \in 1 .. j : flag'[h] # targets'[k]
    <3>1. CASE k \in 1 .. Len(targets)
      <4>1. i \in DOMAIN targets /\ k \in DOMAIN targets
        BY <1>1, <2>2, <2>8, <3>1
      <4>2. PICK j \in 1 .. pos : flag[j] = targets[i] /\ \A h \in 1 .. j : flag[h] # targets[k]
        BY <2>8, <4>1 DEF InOrder, Ordered
      <4> QED
        BY <1>1, <2>2, <4>1, <4>2
    <3>2. CASE k = Len(targets) + 1
      <4>1. i \in 1 .. Len(targets)
        BY <1>1, <2>2, <2>8, <3>2
      <4>2. PICK j \in 1 .. pos : flag[j] = targets[i]
        BY <2>7, <4>1
      <4> QED
        BY <1>1, <2>2, <2>6, <3>2, <4>1, <4>2
    <3> QED
      BY <1>1, <2>2, <3>1, <3>2
  <2>9. InOrder'
    BY <2>8 DEF InOrder, Ordered
  <2> QED
    BY <2>5, <2>9
<1> QED
  BY <1>3, <1>4, <1>5

LEMMA NextTargets ==
  ASSUME IInv, [Next]_vars
  PROVE  TargetsInv'
<1> USE DEF IInv, TargetsInv, Multi, cli, signal
<1>0. /\ Len(flag) \in Nat /\ pos \in 0 .. Len(flag)
      /\ UNCHANGED <<flag, pos, targets>> => InOrder' = InOrder /\ AllNamed' = AllNamed
  BY FlagFacts DEF TypeOK, InOrder, AllNamed
<1>1. CASE Deliver \/ Watcher \/ Expire
  BY <1>0, <1>1 DEF Deliver, Watcher, Receive, StoreSignal, CancelRoot, Expire
<1>2. CASE ResolveTarget
  <2>1. Multi /\ ~rendered /\ pc = "targets" /\ pos < Len(flag) /\ pos' = pos + 1
        /\ UNCHANGED <<flag, rendered>>
    BY <1>0, <1>2 DEF ResolveTarget, VisitInv
  <2>2. InOrder /\ AllNamed
    BY <2>1
  <2>3. InOrder' /\ (pc' = "returned" \/ (pc' = "targets" /\ AllNamed'))
    <3>1. CASE flag[pos + 1] \in Taken(targets) \cup {Blank} /\ UNCHANGED <<targets, pc>>
      BY <2>1, <2>2, <3>1, OneMoreEntry
    <3>2. CASE /\ flag[pos + 1] \in Contexts \ Taken(targets)
               /\ targets' = Append(targets, flag[pos + 1]) /\ UNCHANGED pc
      BY <2>1, <2>2, <3>2, OneMoreEntry
    <3>3. CASE pc' = "returned" /\ UNCHANGED targets
      <4>1. InOrder'
        BY <2>1, <2>2, <3>3, OneMoreEntry
      <4> QED
        BY <3>3, <4>1
    <3> QED
      BY <1>2, <3>1, <3>2, <3>3 DEF ResolveTarget, Return, Taken
  <2> QED
    BY <2>1, <2>3
<1>3. CASE TargetsRefused \/ TargetsResolved
  BY <1>0, <1>3 DEF TargetsRefused, TargetsResolved, Return
<1>4. CASE Load
  BY <1>0, <1>4 DEF Load, Return
<1>5. CASE FleetCanceled \/ Visit \/ Connect \/ ConnectFails \/ Evaluate \/ ClusterDone \/ Render
  <2>1. /\ pc \in {"visit", "connect", "engine"} /\ pc' # "targets"
        /\ UNCHANGED <<flag, pos, targets>>
    BY <1>5 DEF FleetCanceled, Visit, Connect, ConnectFails, Evaluate, ClusterDone, Render, Return
  <2> QED
    BY <1>0, <2>1
<1>6. CASE Gate
  BY <1>0, <1>6 DEF Gate, Return, VisitInv
<1>7. CASE Exit \/ Exited \/ UNCHANGED vars
  BY <1>0, <1>7 DEF Exit, Exited, vars
<1> QED
  BY <1>1, <1>2, <1>3, <1>4, <1>5, <1>6, <1>7 DEF Next, Main

LEMMA NextVisit ==
  ASSUME IInv, [Next]_vars
  PROVE  VisitInv'
<1> USE DEF IInv, VisitInv, Visiting, ToVisit, Multi, cli, signal
<1>0. /\ Len(outcomes) \in Nat /\ DOMAIN outcomes = 1 .. Len(outcomes)
      /\ Len(targets) \in Nat /\ Len(results) \in Nat /\ Len(Severity) \in Nat
  BY OutcomesGrow, LenProperties, SeverityFacts DEF TypeOK
<1>1. CASE Deliver \/ Watcher \/ Expire
  BY <1>1 DEF Deliver, Watcher, Receive, StoreSignal, CancelRoot, Expire
<1>2. CASE ResolveTarget \/ TargetsRefused \/ TargetsResolved
  BY <1>2 DEF ResolveTarget, TargetsRefused, TargetsResolved, Return
<1>3. CASE Load
  <2>1. <<Default>> # << >>
    OBVIOUS
  <2>2. Len(outcomes) = 0
    BY <1>3 DEF Load
  <2>3. Len(targets') \in Nat
    BY <1>0, <1>3 DEF Load
  <2> QED
    BY <1>0, <1>3, <2>1, <2>2, <2>3 DEF Load, Return
<1>4. CASE FleetCanceled \/ Visit \/ Connect \/ Render \/ Gate
  BY <1>0, <1>4 DEF FleetCanceled, Visit, Connect, Render, Gate, Return
<1>5. CASE ConnectFails
  <2>1. PICK e \in ConnectErrors \cup ({scan} \cap ContextErrors) :
          Grown([results |-> << >>, err |-> e])
    BY <1>5, OutcomesGrow
  <2>2. e # "nil"
    BY DEF ConnectErrors, ContextErrors
  <2>3. pc = "connect" /\ pc' \in {"visit", "returned"} /\ UNCHANGED <<targets, results, rendered, flag>>
    BY <1>5 DEF ConnectFails, Return
  <2> QED
    BY <1>0, <2>1, <2>2, <2>3 DEF Grown
<1>6. CASE Evaluate
  <2>1. PICK x : x \in Results /\ results' = Append(results, x)
    BY <1>6 DEF Evaluate, Results, TypeOK, ContextErrors
  <2>2. Len(results') = Len(results) + 1
    BY <2>1, Grows DEF TypeOK
  <2> QED
    BY <1>0, <1>6, <2>2 DEF Evaluate
<1>7. CASE ClusterDone
  <2>1. Grown([results |-> results, err |-> "nil"])
    BY <1>7, OutcomesGrow
  <2>2. /\ pc = "engine" /\ pc' = "visit" /\ results' = << >> /\ Len(results) = Len(Severity)
        /\ UNCHANGED <<targets, rendered, flag>>
    BY <1>7 DEF ClusterDone
  <2> QED
    BY <1>0, <2>1, <2>2 DEF Grown
<1>8. CASE Exit \/ Exited \/ UNCHANGED vars
  BY <1>8 DEF Exit, Exited, vars
<1> QED
  BY <1>1, <1>2, <1>3, <1>4, <1>5, <1>6, <1>7, <1>8 DEF Next, Main
----------------------------------------------------------------------------
(* The error and the exit code.                                            *)

LEMMA NextFirst ==
  ASSUME IInv, [Next]_vars
  PROVE  FirstInv'
<1> USE DEF IInv, FirstInv, cli, signal
<1>0. Len(outcomes) \in Nat /\ DOMAIN outcomes = 1 .. Len(outcomes)
  BY OutcomesGrow
<1>1. CASE ConnectFails
  <2>1. PICK e \in ConnectErrors \cup ({scan} \cap ContextErrors) :
          Grown([results |-> << >>, err |-> e])
    BY <1>1, OutcomesGrow
  <2>2. e # "nil"
    BY DEF ConnectErrors, ContextErrors
  <2>3. Unreached' = Unreached \cup {Len(outcomes) + 1} /\ Unreached \subseteq 1 .. Len(outcomes)
    BY <1>0, <2>1, <2>2 DEF Grown, Unreached
  <2>4. CASE Unreached = {}
    BY <1>0, <2>3, <2>4
  <2>5. CASE Unreached # {}
    <3>1. PICK i \in Unreached : \A j \in Unreached : i <= j
      BY <2>5
    <3> QED
      BY <1>0, <2>3, <3>1
  <2> QED
    BY <2>4, <2>5
<1>2. CASE ClusterDone
  <2>1. Grown([results |-> results, err |-> "nil"])
    BY <1>2, OutcomesGrow
  <2>2. Unreached' = Unreached
    BY <1>0, <2>1 DEF Grown, Unreached
  <2> QED
    BY <2>2
<1>3. CASE UNCHANGED outcomes
  BY <1>3 DEF Unreached
<1>4. Next => ConnectFails \/ ClusterDone \/ UNCHANGED outcomes
  BY DEF Next, Main, Deliver, Watcher, Receive, StoreSignal, CancelRoot, Expire, ResolveTarget,
         TargetsRefused, TargetsResolved, Load, FleetCanceled, Visit, Connect, Evaluate, Render,
         Gate, Exit, Exited, vars
<1> QED
  BY <1>1, <1>2, <1>3, <1>4 DEF vars

LEMMA NextGate ==
  ASSUME IInv, [Next]_vars
  PROVE  GateInv'
<1> USE DEF IInv, GateInv, cli, signal
<1>0. ASSUME UNCHANGED outcomes
      PROVE  Tripped' = Tripped /\ Unreached' = Unreached /\ FirstConnectErr' = FirstConnectErr
  <2>1. Tripped' = Tripped
    BY <1>0 DEF Tripped
  <2>2. Unreached' = Unreached
    BY <1>0 DEF Unreached
  <2> QED
    BY <1>0, <2>1, <2>2, Zenon DEF FirstConnectErr
<1>1. CASE Deliver \/ Watcher \/ Expire
  BY <1>0, <1>1 DEF Deliver, Watcher, Receive, StoreSignal, CancelRoot, Expire
<1>2. CASE ResolveTarget \/ TargetsRefused \/ TargetsResolved \/ Load \/ FleetCanceled
  BY <1>2 DEF ResolveTarget, TargetsRefused, TargetsResolved, Load, FleetCanceled, Return, VisitInv
<1>3. CASE Visit \/ Connect \/ Evaluate \/ ClusterDone
  BY <1>3 DEF Visit, Connect, Evaluate, ClusterDone
<1>4. CASE ConnectFails
  BY <1>4 DEF ConnectFails, Return, VisitInv, ConnectErrors, ContextErrors
<1>5. CASE Render
  BY <1>5 DEF Render, Return, VisitInv
<1>6. CASE Gate
  BY <1>0, <1>6 DEF Gate, Return, VisitInv
<1>7. CASE Exit
  BY <1>0, <1>7 DEF Exit
<1>8. CASE Exited \/ UNCHANGED vars
  BY <1>0, <1>8 DEF Exited, vars
<1> QED
  BY <1>1, <1>2, <1>3, <1>4, <1>5, <1>6, <1>7, <1>8 DEF Next, Main
----------------------------------------------------------------------------
(* The theorems.                                                           *)

LEMMA Inductive == Spec => []IInv
<1>1. Init => IInv
  BY InitInv
<1>2. IInv /\ [Next]_vars => IInv'
  <2> SUFFICES ASSUME IInv, [Next]_vars PROVE IInv'
    OBVIOUS
  <2>1. TypeOK'
    BY NextType DEF IInv
  <2>2. SignalInv'
    BY NextSignal DEF IInv
  <2> QED
    BY <2>1, <2>2, NextCancel, NextCut, NextTargets, NextVisit, NextFirst, NextGate DEF IInv
<1> QED
  BY <1>1, <1>2, PTL DEF Spec

\* Whatever was cut short by a signal exits with the code of that signal: a trace of the
\* cancellation means the root context is cancelled, and it is cancelled after the
\* signal was stored.
THEOREM ExitCodes == Spec => []ExitCodeNamesSignal
<1>1. IInv => ExitCodeNamesSignal
  <2> SUFFICES ASSUME IInv PROVE ExitCodeNamesSignal
    OBVIOUS
  <2>1. sig \in {NoSignal, held}
    BY DEF IInv, SignalInv
  <2>2. SawCancellation => root = "canceled"
    BY DEF IInv, CancelInv, SawCancellation, Cut
  <2>3. root = "canceled" => held # NoSignal /\ sig = held
    BY DEF IInv, SignalInv
  <2> QED
    BY <2>1, <2>2, <2>3 DEF IInv, GateInv, ExitCodeNamesSignal
<1> QED
  BY <1>1, Inductive, PTL

\* What a deadline or a signal cuts off stays where it struck: in a cluster whose own
\* deadline passed, in the last cluster of a fleet, in a suffix of the catalog.
THEOREM Confinement == Spec => []InterruptionsStayLocal
<1>1. IInv => InterruptionsStayLocal
  <2> SUFFICES ASSUME IInv PROVE InterruptionsStayLocal
    OBVIOUS
  <2>1. DeadlineIsPerCluster
    BY DEF IInv, CutInv, DeadlineIsPerCluster, Cut
  <2>2. Len(outcomes) \in Nat /\ DOMAIN outcomes = 1 .. Len(outcomes)
    BY OutcomesGrow DEF IInv
  <2>3. CutOnlyAtTheEnd
    BY <2>2 DEF IInv, CutInv, CancelInv, CutOnlyAtTheEnd, Cut
  <2> QED
    BY <2>1, <2>3 DEF InterruptionsStayLocal
<1> QED
  BY <1>1, Inductive, PTL

\* A fleet's report has one block for each distinct name of --targets, in the order of
\* the first mention, with a result for every rule or an error and none.
THEOREM FleetReport == Spec => []EveryTargetOnce
<1>1. IInv => EveryTargetOnce
  <2> SUFFICES ASSUME IInv, Multi, rendered PROVE EveryTargetOnce
    BY DEF EveryTargetOnce
  <2>1. pos = Len(flag) /\ DOMAIN flag = 1 .. Len(flag)
    BY FlagFacts DEF IInv, TypeOK, TargetsInv
  <2>2. InOrder /\ AllNamed
    BY DEF IInv, TargetsInv
  <2>3. {targets[i] : i \in DOMAIN targets} = {flag[j] : j \in DOMAIN flag} \ {Blank}
    BY <2>1, <2>2 DEF AllNamed, Taken, Given
  <2>4. \A i, k \in DOMAIN targets :
          i < k => \E j \in DOMAIN flag : flag[j] = targets[i] /\ \A h \in 1 .. j : flag[h] # targets[k]
    BY <2>1, <2>2 DEF InOrder, Ordered
  <2>5. /\ Len(outcomes) = Len(targets)
        /\ \A i \in DOMAIN outcomes :
             Len(outcomes[i].results) = IF outcomes[i].err = "nil" THEN Len(Severity) ELSE 0
    BY DEF IInv, VisitInv
  <2> QED
    BY <2>3, <2>4, <2>5 DEF EveryTargetOnce
<1> QED
  BY <1>1, Inductive, PTL

\* The codes of the errors a scan can end with are told apart where it matters.
LEMMA CodeFacts ==
  /\ \A e \in Errors : Code(e) # 20 /\ Code(e) # 0
  /\ Code("findings") = 20 /\ Code("nil") = 0
  /\ \A e \in {"usage", "catalog", "io"} : Code(e) # 0
  /\ \A s : SignalCode(s) # 0
BY DEF Code, Errors, ConnectErrors, ContextErrors, SignalCode

\* The exit code says what the report says: 20 for a failing rule at the threshold, even
\* if clusters were not reached; else the error of the first that was not; 0 only if all
\* were reached and nothing is at the threshold.
THEOREM ExitCodeIsTheVerdict == Spec => []ExitCodeTellsTheReport
<1>1. IInv => FindingsBeatConnectErrors
  <2> DEFINE failing == {i \in DOMAIN outcomes :
                          \E r \in DOMAIN outcomes[i].results :
                            outcomes[i].results[r] = "fail" /\ Severity[r] >= FailOn}
  <2> SUFFICES ASSUME IInv, pc = "exited", rendered, sig = NoSignal
               PROVE  /\ code = 20 <=> failing # {}
                      /\ code \in {0, 20} \/
                           \E i \in Unreached : /\ Code(outcomes[i].err) = code
                                               /\ \A j \in 1 .. i - 1 : outcomes[j].err = "nil"
                      /\ code = 0 => Unreached = {}
    BY DEF FindingsBeatConnectErrors
  <2>1. code = Code(err)
        /\ err = IF Tripped THEN "findings" ELSE IF Unreached # {} THEN FirstConnectErr ELSE "nil"
    BY DEF IInv, GateInv
  <2>2. Tripped <=> failing # {}
    BY DEF Tripped
  <2> HIDE DEF failing
  <2>3. CASE Tripped
    BY <2>1, <2>2, <2>3, CodeFacts
  <2>4. CASE ~Tripped /\ Unreached # {}
    <3>1. FirstConnectErr \in Errors
          /\ \E i \in Unreached : /\ FirstConnectErr = outcomes[i].err
                                 /\ \A j \in 1 .. i - 1 : outcomes[j].err = "nil"
      BY <2>4, FirstConnectErrIsFirst DEF IInv
    <3> QED
      BY <2>1, <2>2, <2>4, <3>1, CodeFacts
  <2>5. CASE ~Tripped /\ Unreached = {}
    BY <2>1, <2>2, <2>5, CodeFacts
  <2> QED
    BY <2>3, <2>4, <2>5
<1>2. IInv => ZeroMeansEveryClusterReached
  <2> SUFFICES ASSUME IInv, code = 0 PROVE ZeroMeansEveryClusterReached
    BY DEF ZeroMeansEveryClusterReached
  <2>1. pc = "exited" /\ sig = NoSignal /\ Code(err) = 0
    BY CodeFacts DEF IInv, GateInv
  <2>2. err = "nil"
    BY <2>1, CodeFacts DEF IInv, TypeOK
  <2>3. rendered /\ ~Tripped /\ Unreached = {}
    BY <2>1, <2>2, FirstConnectErrIsFirst DEF IInv, GateInv, Errors, ConnectErrors, ContextErrors
  <2>4. Len(outcomes) = Len(targets) /\ targets # << >>
    BY <2>3 DEF IInv, VisitInv
  <2>5. ASSUME NEW i \in DOMAIN outcomes
        PROVE  outcomes[i].err = "nil" /\ \A r \in DOMAIN Severity :
                 outcomes[i].results[r] = "fail" => Severity[r] < FailOn
    <3>1. outcomes[i].err = "nil" /\ outcomes[i] \in Outcomes
      BY <2>3, ElementOfSeq, OutcomesGrow DEF IInv, TypeOK, Unreached
    <3>2. Len(outcomes[i].results) = Len(Severity) /\ outcomes[i].results \in Seq(Results)
      BY <3>1 DEF IInv, VisitInv, Outcomes
    <3>3. DOMAIN outcomes[i].results = DOMAIN Severity
      BY <3>2, SeverityFacts, LenProperties
    <3> QED
      BY <2>3, <3>1, <3>3, SeverityFacts DEF Tripped
  <2> QED
    BY <2>1, <2>3, <2>4, <2>5 DEF ZeroMeansEveryClusterReached
<1> QED
  BY <1>1, <1>2, Inductive, PTL DEF ExitCodeTellsTheReport
============================================================================
