------------------------- MODULE ProbeRegistryProofs -------------------------
(***************************************************************************)
(* Proofs about ProbeRegistry for every cluster, every number of changes   *)
(* and every set of capabilities: no call goes out without its capability, *)
(* and what the joining probes flag was so, although the cluster moves.    *)
(***************************************************************************)
EXTENDS ProbeRegistry, FiniteSetTheorems, TLAPS

Missing == Called(name) \ configured

\* Past its first call a probe has all it calls; refused as not found it has not, and
\* makes no call.
DispatchInv ==
  /\ name \in DOMAIN Calls
  /\ pc \notin {"idle", "failed"} => Missing = {}
  /\ answer \in {"asked", "data"} => Missing = {}
  /\ answer = "not found" => Missing # {} /\ pc = "failed"

\* What the arms of dispatch check is what the adapters call.
LEMMA NeedsAreCalls == \A p \in DOMAIN Calls : Needs(p) = Called(p)
<1>1. /\ Called("snapshot_recency") = {"Snapshot"}
      /\ Called("mapping_drift") = {"Mappings", "IndexTemplateGet"}
      /\ Called("tier_layout") = {"Nodes", "IndexSettings"}
  BY DEF Called, Calls
<1> QED
  BY <1>1 DEF Needs, Calls

\* A probe that has failed has made its last step.
LEMMA FailedIsFinal ==
  ASSUME pc = "failed", Recency!Next \/ Drift!Next \/ Tiers!Next
  PROVE  pc' = "failed"
<1>1. CASE Recency!Next
  BY <1>1 DEF Recency!Next, Recency!ClusterStep, Recency!ListSnapshots,
     Recency!ListRepositories, Recency!Fails, Recency!Aggregate, Recency!Finished, Recency!vars
<1>2. CASE Drift!Next
  BY <1>2 DEF Drift!Next, Drift!ClusterStep, Drift!PutTemplate, Drift!CreateIndex,
     Drift!EditIndex, Drift!Change, Drift!GetTemplates, Drift!GetMappings, Drift!Fails,
     Drift!ScanAgain, Drift!Finished, Drift!vars
<1>3. CASE Tiers!Next
  BY <1>3 DEF Tiers!Next, Tiers!MoveNode, Tiers!EditPreference, Tiers!Change,
     Tiers!ListNodes, Tiers!GetSettings, Tiers!Fails, Tiers!Finished, Tiers!vars
<1> QED
  BY <1>1, <1>2, <1>3

LEMMA DispatchStep ==
  ASSUME DispatchInv, [Next]_vars
  PROVE  DispatchInv'
<1>1. CASE NotFound
  <2>1. Needs(name) = Called(name)
    BY NeedsAreCalls DEF DispatchInv
  <2> QED
    BY <1>1, <2>1 DEF NotFound, DispatchInv, Missing, Called
<1>2. ASSUME NEW p \in DOMAIN Calls, name = p, Dispatch(p), Probe, UNCHANGED name,
             pc = "failed" => pc' = "failed"
      PROVE  DispatchInv'
  <2>1. Needs(p) = Called(p) /\ Called(p)' = Called(p)
    BY NeedsAreCalls DEF Called
  <2>2. CASE pc = "idle" /\ pc' # "idle"
    <3>1. Missing' = {}
      BY <1>2, <2>1, <2>2 DEF Dispatch, Missing, Called
    <3> QED
      BY <1>2, <2>2, <3>1 DEF Probe, DispatchInv
  <2>3. CASE ~(pc = "idle" /\ pc' # "idle")
    <3>1. Missing' = Missing
      BY <1>2, <2>1, <2>3 DEF Dispatch, Missing, Called
    <3> QED
      BY <1>2, <2>3, <3>1 DEF Probe, DispatchInv
  <2> QED
    BY <2>2, <2>3
<1>3. CASE StepRecency
  BY <1>2, <1>3, FailedIsFinal DEF StepRecency, Step, Calls
<1>4. CASE StepDrift
  BY <1>2, <1>4, FailedIsFinal DEF StepDrift, Step, Calls
<1>5. CASE StepTiers
  BY <1>2, <1>5, FailedIsFinal DEF StepTiers, Step, Calls
<1>6. CASE UNCHANGED vars
  BY <1>6 DEF vars, adapter, DispatchInv, Missing, Called
<1> QED
  BY <1>1, <1>3, <1>4, <1>5, <1>6 DEF Next
----------------------------------------------------------------------------
(* tier_layout.                                                            *)

TiersTypeOK ==
  /\ roles \in [Nodes -> RoleSets] /\ prefs \in [Indices -> Preferences]
  /\ listed \in [Nodes -> RoleSets] /\ moved \in BOOLEAN

\* The indices no node of the list can hold.
HomelessInList == {i \in Indices : prefs[i] # {} /\ \A n \in Nodes : prefs[i] \cap listed[n] = {}}

\* What the list and the settings say of an index is so now, if the nodes have not
\* changed, or was so when the nodes were listed, if its preference has not.
PairedInv ==
  pc = "nodes" =>
    /\ Tiers!Homeless \subseteq stranded /\ Indices \ Tiers!Homeless \subseteq placed
    /\ ~moved => listed = roles
    /\ \A i \in Indices \ edited : IF i \in HomelessInList THEN i \in stranded ELSE i \in placed

TiersInv == name = "tier_layout" => TiersTypeOK /\ PairedInv /\ Tiers!VerdictHeldOnce

\* A change of the cluster is observed, whichever it was.
LEMMA ObservedStep ==
  ASSUME TiersTypeOK, PairedInv, pc = "nodes", UNCHANGED <<pc, listed>>, Tiers!Observe,
         moved' \in BOOLEAN, ~moved' => ~moved /\ roles' = roles,
         edited \subseteq edited', \A i \in Indices \ edited' : prefs'[i] = prefs[i]
  PROVE  PairedInv'
<1>1. \A i \in Indices \ edited' : i \in HomelessInList' <=> i \in HomelessInList
  BY DEF HomelessInList
<1>2. Tiers!Homeless' \subseteq stranded' /\ Indices \ Tiers!Homeless' \subseteq placed'
  BY DEF Tiers!Observe
<1>3. stranded \subseteq stranded' /\ placed \subseteq placed'
  BY DEF Tiers!Observe
<1> QED
  BY <1>1, <1>2, <1>3 DEF PairedInv

LEMMA TiersStep ==
  ASSUME TiersInv, DispatchInv, [Next]_vars
  PROVE  TiersInv'
<1> SUFFICES ASSUME name' = "tier_layout"
             PROVE  (TiersTypeOK /\ PairedInv /\ Tiers!VerdictHeldOnce)'
  BY DEF TiersInv
<1>1. name = "tier_layout"
  BY DEF Next, NotFound, StepRecency, StepDrift, StepTiers, Step, vars
<1>2. TiersTypeOK /\ PairedInv /\ Tiers!VerdictHeldOnce
  BY <1>1 DEF TiersInv
<1>3. CASE NotFound
  BY <1>2, <1>3 DEF NotFound, ofTiers, TiersTypeOK, PairedInv, Tiers!VerdictHeldOnce
<1>4. ASSUME NEW n \in Nodes, Tiers!MoveNode(n)
      PROVE  (TiersTypeOK /\ PairedInv /\ Tiers!VerdictHeldOnce)'
  <2>1. TiersTypeOK' /\ pc = "nodes" /\ UNCHANGED <<pc, listed, edited, prefs>> /\ moved' = TRUE
    BY <1>2, <1>4 DEF Tiers!MoveNode, Tiers!Change, TiersTypeOK
  <2>2. PairedInv'
    BY <1>2, <1>4, <2>1, ObservedStep DEF Tiers!MoveNode
  <2> QED
    BY <2>1, <2>2 DEF Tiers!VerdictHeldOnce
<1>5. ASSUME NEW j \in Indices, Tiers!EditPreference(j)
      PROVE  (TiersTypeOK /\ PairedInv /\ Tiers!VerdictHeldOnce)'
  <2>1. /\ TiersTypeOK' /\ pc = "nodes" /\ UNCHANGED <<pc, listed, moved, roles>>
        /\ edited' = edited \cup {j} /\ \A i \in Indices \ edited' : prefs'[i] = prefs[i]
    BY <1>2, <1>5 DEF Tiers!EditPreference, Tiers!Change, TiersTypeOK
  <2>2. PairedInv'
    BY <1>2, <1>5, <2>1, ObservedStep DEF Tiers!EditPreference, TiersTypeOK
  <2> QED
    BY <2>1, <2>2 DEF Tiers!VerdictHeldOnce
<1>6. CASE Tiers!ListNodes
  <2>1. /\ TiersTypeOK' /\ pc' = "nodes" /\ listed' = roles' /\ UNCHANGED <<roles, prefs>>
        /\ stranded' = Tiers!Homeless /\ placed' = Indices \ Tiers!Homeless
    BY <1>2, <1>6 DEF Tiers!ListNodes, TiersTypeOK
  <2>2. Tiers!Homeless' = Tiers!Homeless /\ HomelessInList' = Tiers!Homeless
    BY <2>1 DEF Tiers!Homeless, HomelessInList
  <2> QED
    BY <2>1, <2>2 DEF PairedInv, Tiers!VerdictHeldOnce
<1>7. CASE Tiers!GetSettings
  <2>1. /\ pc = "nodes" /\ pc' = "done" /\ UNCHANGED <<roles, prefs, listed, moved, edited, stranded, placed>>
        /\ out' = [tiers |-> [n \in Nodes |-> Tiers!ExtractTierRoles(listed[n])], preferred |-> prefs]
    BY <1>7 DEF Tiers!GetSettings
  <2>2. ASSUME NEW i \in Indices \ System
        PROVE  i \in Tiers!NoEligibleNode' <=> i \in HomelessInList
    <3>1. out'.preferred[i] = prefs[i] /\ \A n \in Nodes : out'.tiers[n] = listed[n] \cap DataTiers
      BY <2>1 DEF Tiers!ExtractTierRoles
    <3>2. prefs[i] \subseteq DataTiers
      BY <1>2, TiersAssumption DEF TiersTypeOK
    <3> QED
      BY <3>1, <3>2 DEF Tiers!NoEligibleNode, HomelessInList
  <2>3. ASSUME NEW i \in Indices \ System, ~moved \/ i \notin edited
        PROVE  IF i \in HomelessInList THEN i \in stranded ELSE i \in placed
    <3>1. CASE ~moved
      <4>1. HomelessInList = Tiers!Homeless
        BY <1>2, <2>1, <3>1 DEF PairedInv, HomelessInList, Tiers!Homeless
      <4> QED
        BY <1>2, <2>1, <4>1 DEF PairedInv
    <3>2. CASE i \notin edited
      BY <1>2, <2>1, <3>2 DEF PairedInv
    <3> QED
      BY <2>3, <3>1, <3>2
  <2>4. Tiers!VerdictHeldOnce'
    BY <2>1, <2>2, <2>3 DEF Tiers!VerdictHeldOnce
  <2> QED
    BY <1>2, <2>1, <2>4 DEF TiersTypeOK, PairedInv
<1>8. CASE Tiers!Fails
  BY <1>2, <1>8 DEF Tiers!Fails, TiersTypeOK, PairedInv, Tiers!VerdictHeldOnce
<1>9. CASE UNCHANGED <<roles, prefs, listed, moved, edited, pc, stranded, placed, out>>
  BY <1>2, <1>9 DEF TiersTypeOK, PairedInv, HomelessInList, Tiers!Homeless,
                    Tiers!VerdictHeldOnce, Tiers!NoEligibleNode
<1>10. CASE StepTiers
  BY <1>4, <1>5, <1>6, <1>7, <1>8, <1>9, <1>10
     DEF StepTiers, Step, Tiers!Next, Tiers!Finished, Tiers!vars
<1> QED
  BY <1>1, <1>3, <1>9, <1>10 DEF Next, StepRecency, StepDrift, Step, vars, adapter, ofTiers
----------------------------------------------------------------------------
(* Finite sets in an order.                                                *)

\* What SetToSeqs has of a finite set are its enumerations.
LEMMA Enumerates ==
  ASSUME NEW S, IsFiniteSet(S), NEW s \in [1 .. Cardinality(S) -> S],
         \A i, j \in 1 .. Cardinality(S) : i # j => s[i] # s[j]
  PROVE  /\ Cardinality(S) \in Nat /\ DOMAIN s = 1 .. Cardinality(S)
         /\ \A x \in S : \E k \in DOMAIN s : s[k] = x
<1> DEFINE n == Cardinality(S)
<1>1. n \in Nat
  BY FS_CardinalityType
<1>2. s \in Injection(1 .. n, S)
  BY DEF Injection, IsInjective
<1>3. IsFiniteSet(1 .. n) /\ Cardinality(1 .. n) = n
  BY <1>1, FS_Interval
<1>4. s \in Surjection(1 .. n, S)
  BY <1>1, <1>2, <1>3, FS_Injection
<1> QED
  BY <1>1, <1>4 DEF Surjection

\* A finite set whose members have different numbers has an enumeration in the order of
\* the numbers: each comes at the place that tells how many have no greater number.
LEMMA Ordered ==
  ASSUME NEW S, IsFiniteSet(S), NEW key \in [S -> Nat],
         \A x, y \in S : key[x] = key[y] => x = y
  PROVE  \E s \in [1 .. Cardinality(S) -> S] :
           /\ \A i, j \in 1 .. Cardinality(S) : i # j => s[i] # s[j]
           /\ \A i, j \in 1 .. Cardinality(S) : i < j => key[s[i]] < key[s[j]]
<1> DEFINE n == Cardinality(S)
           UpTo(x) == {y \in S : key[y] <= key[x]}
           rank == [x \in S |-> Cardinality(UpTo(x))]
<1>1. n \in Nat /\ \A x \in S : key[x] \in Nat
  BY FS_CardinalityType
<1>2. ASSUME NEW x \in S PROVE IsFiniteSet(UpTo(x)) /\ rank[x] \in 1 .. n
  <2>1. UpTo(x) \in SUBSET S /\ x \in UpTo(x)
    BY <1>1
  <2>2. IsFiniteSet(UpTo(x)) /\ Cardinality(UpTo(x)) <= n
    BY <1>1, <2>1, FS_Subset
  <2>3. Cardinality(UpTo(x)) \in Nat /\ Cardinality(UpTo(x)) # 0
    BY <2>1, <2>2, FS_CardinalityType, FS_EmptySet
  <2> QED
    BY <1>1, <2>2, <2>3
<1>3. ASSUME NEW x \in S, NEW y \in S, key[x] < key[y] PROVE rank[x] < rank[y]
  <2>1. \A z \in S : key[z] <= key[x] => key[z] <= key[y]
    BY <1>1, <1>3
  <2>2. UpTo(x) \in SUBSET UpTo(y)
    BY <2>1
  <2>3. y \in UpTo(y) /\ y \notin UpTo(x)
    BY <1>1, <1>3
  <2>4. /\ Cardinality(UpTo(x)) <= Cardinality(UpTo(y))
        /\ Cardinality(UpTo(x)) = Cardinality(UpTo(y)) => UpTo(x) = UpTo(y)
    BY <1>2, <2>2, FS_Subset
  <2>5. rank[x] = Cardinality(UpTo(x)) /\ rank[y] = Cardinality(UpTo(y))
    OBVIOUS
  <2> HIDE DEF rank, UpTo
  <2>6. rank[x] \in 1 .. n /\ rank[y] \in 1 .. n
    BY <1>2
  <2> QED
    BY <1>1, <2>3, <2>4, <2>5, <2>6
<1>4. rank \in [S -> 1 .. n]
  BY <1>2
<1> HIDE DEF rank
<1>5. \A x, y \in S : rank[x] = rank[y] => x = y
  BY <1>1, <1>3, <1>4
<1>6. \A k \in 1 .. n : \E x \in S : rank[x] = k
  <2>1. rank \in Injection(S, 1 .. n)
    BY <1>4, <1>5 DEF Injection, IsInjective
  <2>2. IsFiniteSet(1 .. n) /\ Cardinality(1 .. n) = n
    BY <1>1, FS_Interval
  <2>3. rank \in Surjection(S, 1 .. n)
    BY <2>1, <2>2, FS_Injection
  <2> QED
    BY <2>3 DEF Surjection
<1> DEFINE s == [k \in 1 .. n |-> CHOOSE x \in S : rank[x] = k]
<1>7. \A k \in 1 .. n : s[k] \in S /\ rank[s[k]] = k
  BY <1>6
<1>8. s \in [1 .. n -> S]
  BY <1>7
<1> HIDE DEF s
<1>9. \A i, j \in 1 .. n : i # j => s[i] # s[j]
  BY <1>7
<1>10. ASSUME NEW i \in 1 .. n, NEW j \in 1 .. n, i < j PROVE key[s[i]] < key[s[j]]
  <2>1. s[i] \in S /\ s[j] \in S /\ rank[s[i]] = i /\ rank[s[j]] = j
    BY <1>7
  <2>2. key[s[i]] \in Nat /\ key[s[j]] \in Nat /\ i \in Int /\ j \in Int
    BY <1>1, <2>1
  <2>3. ~(key[s[j]] < key[s[i]]) /\ key[s[i]] # key[s[j]]
    BY <1>3, <1>10, <2>1, <2>2
  <2> QED
    BY <2>2, <2>3
<1> QED
  BY <1>8, <1>9, <1>10
----------------------------------------------------------------------------
(* mapping_drift.                                                          *)

\* The templates there are, as the cluster lists them.
Entry(t) == [name |-> t, patterns |-> tpl[t].patterns, dynamic |-> tpl[t].dynamic]
Entries == {Entry(t) : t \in Drift!Defined}
Listed == {listed[n] : n \in DOMAIN listed}

\* The rows of a scan whose templates are T, in order.
RowsBy(T) ==
  UNION {{[index |-> i, template |-> t.name, promised |-> t.dynamic, live |-> Drift!LiveDynamic(dyn[i])] :
            t \in {u \in Drift!MatchTemplate(i, T) :
                     u.dynamic # "" /\ u.dynamic # Drift!LiveDynamic(dyn[i])}} :
         i \in Drift!Live \ System}

DriftTypeOK ==
  /\ tpl \in [Templates -> Drift!Info \cup {Drift!Absent}]
  /\ dyn = [i \in Indices |-> dyn[i]]
  /\ quiet \in BOOLEAN /\ edited \subseteq Templates /\ fresh \subseteq Indices \X Templates

\* A fresh index has the setting of its template, which matches it.
FreshInv ==
  \A i \in Indices, t \in Templates : <<i, t>> \in fresh =>
    t \in Drift!Defined /\ Drift!Specificity(tpl[t], i) > 0 /\ dyn[i] = tpl[t].dynamic

\* Finitely many templates, each with a name of its own.
Named(S) ==
  IsFiniteSet(S) /\ \A x, y \in S : x.name \in Nat /\ (x.name = y.name => x = y)

\* The templates listed are those there are, but for the ones edited since.
ListedInv ==
  pc \in {"templates", "done"} =>
    /\ quiet => edited = {}
    /\ Named(Listed)
    /\ \A e \in Listed : e \in Entries \/ e.name \in edited
    /\ \A e \in Entries : e \in Listed \/ e.name \in edited

\* While nothing changes, every report is the one of the templates and indices there are.
QuietInv ==
  quiet => /\ pc = "done" => out = RowsBy(Drift!ByName(Entries))
           /\ before # Drift!None => before = <<RowsBy(Drift!ByName(Entries))>>

DriftInv == name = "mapping_drift" => DriftTypeOK /\ FreshInv /\ ListedInv /\ QuietInv

\* The adapter counts as we do.
LEMMA SameCount == \A S : Drift!Cardinality(S) = Cardinality(S)
BY Zenon DEF Drift!Cardinality, Cardinality

LEMMA DefinedFinite == Drift!Defined \subseteq Templates /\ IsFiniteSet(Drift!Defined)
<1>1. Drift!Defined \subseteq Templates
  BY DEF Drift!Defined
<1> QED
  BY <1>1, NamesAssumption, FS_Subset

\* How specific a template is only depends on its patterns.
LEMMA SameSpecificity ==
  ASSUME NEW x, NEW y, NEW i, x.patterns = y.patterns
  PROVE  Drift!Specificity(x, i) = Drift!Specificity(y, i)
BY DEF Drift!Specificity

\* The templates there are have a name each.
LEMMA EntriesNamed == Named(Entries)
<1>1. IsFiniteSet(Entries)
  <2> DEFINE f == [t \in Drift!Defined |-> Entry(t)]
  <2>1. f \in Surjection(Drift!Defined, Entries)
    BY DEF Surjection, Entries
  <2> HIDE DEF f
  <2> QED
    BY <2>1, DefinedFinite, FS_Surjection
<1> QED
  BY <1>1, DefinedFinite, NamesAssumption DEF Named, Entries, Entry

\* Sorted by name, templates are still those they were, each at one place.
LEMMA Sorted ==
  ASSUME NEW S, Named(S)
  PROVE  LET T == Drift!ByName(S)
         IN  /\ \A n \in DOMAIN T : T[n] \in S
             /\ \A e \in S : \E n \in DOMAIN T : T[n] = e
<1> DEFINE T == Drift!ByName(S)
           key == [e \in S |-> e.name]
<1>1. IsFiniteSet(S)
  BY DEF Named
<1>2. key \in [S -> Nat] /\ \A x, y \in S : key[x] = key[y] => x = y
  BY DEF Named
<1>3. \A e \in S : key[e] = e.name
  OBVIOUS
<1> HIDE DEF key
<1>4. PICK s \in [1 .. Cardinality(S) -> S] :
        /\ \A i, j \in 1 .. Cardinality(S) : i # j => s[i] # s[j]
        /\ \A i, j \in 1 .. Cardinality(S) : i < j => key[s[i]] < key[s[j]]
  BY <1>1, <1>2, Ordered
<1>5. s \in Drift!SetToSeqs(S) /\ \A j, k \in DOMAIN s : j < k => s[j].name < s[k].name
  BY SameCount, <1>3, <1>4 DEF Drift!SetToSeqs
<1>6. T \in Drift!SetToSeqs(S)
  BY <1>5 DEF Drift!ByName
<1> HIDE DEF T
<1>7. /\ T \in [1 .. Cardinality(S) -> S]
      /\ \A i, j \in 1 .. Cardinality(S) : i # j => T[i] # T[j]
  BY SameCount, <1>6 DEF Drift!SetToSeqs
<1>8. \A x \in S : \E k \in DOMAIN T : T[k] = x
  BY <1>1, <1>7, Enumerates
<1> QED
  BY <1>7, <1>8 DEF T

\* Whatever order the cluster answers in, what is listed are the templates there are.
LEMMA ListsAll ==
  ASSUME NEW o \in Drift!SetToSeqs(Drift!Defined)
  PROVE  {Entry(o[n]) : n \in DOMAIN o} = Entries
<1>1. /\ o \in [1 .. Cardinality(Drift!Defined) -> Drift!Defined]
      /\ \A i, j \in 1 .. Cardinality(Drift!Defined) : i # j => o[i] # o[j]
  BY SameCount DEF Drift!SetToSeqs
<1>2. \A x \in Drift!Defined : \E k \in DOMAIN o : o[k] = x
  BY <1>1, DefinedFinite, Enumerates
<1> QED
  BY <1>1, <1>2 DEF Entries

\* The template an index is matched with is one of those listed, and no other of them has
\* a longer pattern for it.
LEMMA MatchIsLongest ==
  ASSUME NEW S, Named(S), NEW i, NEW u \in Drift!MatchTemplate(i, Drift!ByName(S))
  PROVE  u \in S /\ \A e \in S : Drift!Specificity(e, i) <= Drift!Specificity(u, i)
<1> DEFINE T == Drift!ByName(S)
<1>1. /\ \A n \in DOMAIN T : T[n] \in S
      /\ \A e \in S : \E n \in DOMAIN T : T[n] = e
  BY Sorted
<1>2. PICK n \in DOMAIN T : /\ u = T[n]
                            /\ \A k \in DOMAIN T : Drift!Specificity(T[k], i) <= Drift!Specificity(T[n], i)
  BY DEF Drift!MatchTemplate
<1> HIDE DEF T
<1> QED
  BY <1>1, <1>2

LEMMA DriftInit == Drift!Init => DriftTypeOK /\ FreshInv /\ ListedInv /\ QuietInv
BY DEF Drift!Init, Drift!None, DriftTypeOK, FreshInv, ListedInv, QuietInv

\* A change of the cluster: no report rests on it yet.
LEMMA ChangedStep ==
  ASSUME pc \in {"idle", "templates"}, UNCHANGED <<pc, listed, out, before>>, quiet' = FALSE,
         ListedInv, edited \subseteq edited',
         \A t \in Templates \ edited' : tpl'[t] = tpl[t]
  PROVE  ListedInv' /\ QuietInv'
<1>1. \A e : e.name \notin edited' => (e \in Entries' <=> e \in Entries)
  BY DEF Entries, Entry, Drift!Defined
<1>2. Listed' = Listed
  BY DEF Listed
<1>3. Named(Listed)' <=> Named(Listed)
  BY <1>2 DEF Named
<1> QED
  BY <1>1, <1>2, <1>3 DEF ListedInv, QuietInv

LEMMA PutTemplatePreserves ==
  ASSUME DriftTypeOK, FreshInv, ListedInv, NEW t \in Templates, Drift!PutTemplate(t)
  PROVE  (DriftTypeOK /\ FreshInv /\ ListedInv /\ QuietInv)'
<1>1. /\ quiet' = FALSE /\ edited' = edited \cup {t} /\ fresh' = {p \in fresh : p[2] # t}
      /\ pc \in {"idle", "templates"} /\ UNCHANGED <<dyn, pc, listed, out, before>>
      /\ \E x \in Drift!Info \cup {Drift!Absent} : tpl' = [tpl EXCEPT ![t] = x]
  BY DEF Drift!PutTemplate, Drift!Change, Drift!probe
<1>2. DriftTypeOK'
  BY <1>1 DEF DriftTypeOK
<1>3. \A u \in Templates \ {t} : tpl'[u] = tpl[u]
  BY <1>1 DEF DriftTypeOK
<1>4. ListedInv' /\ QuietInv'
  BY <1>1, <1>3, ChangedStep
<1>5. FreshInv'
  <2> SUFFICES ASSUME NEW i \in Indices, NEW u \in Templates, <<i, u>> \in fresh'
               PROVE  u \in Drift!Defined' /\ Drift!Specificity(tpl[u], i)' > 0
                      /\ dyn'[i] = tpl'[u].dynamic
    BY DEF FreshInv
  <2>1. u # t /\ <<i, u>> \in fresh /\ tpl'[u] = tpl[u]
    BY <1>1, <1>3
  <2>2. Drift!Specificity(tpl[u], i)' = Drift!Specificity(tpl[u], i)
    BY <2>1 DEF Drift!Specificity
  <2> QED
    BY <1>1, <2>1, <2>2 DEF FreshInv, Drift!Defined
<1> QED
  BY <1>2, <1>4, <1>5

\* With the templates as they are, an index nobody touched is as fresh as before.
LEMMA OthersFresh ==
  ASSUME FreshInv, tpl' = tpl, NEW k \in Indices, NEW t \in Templates,
         <<k, t>> \in fresh, dyn'[k] = dyn[k]
  PROVE  t \in Drift!Defined' /\ Drift!Specificity(tpl[t], k)' > 0 /\ dyn'[k] = tpl'[t].dynamic
<1>1. Drift!Specificity(tpl[t], k)' = Drift!Specificity(tpl[t], k)
  BY DEF Drift!Specificity
<1> QED
  BY <1>1 DEF FreshInv, Drift!Defined

\* An index that is not there is fresh from nothing.
LEMMA AbsentIsNotFresh ==
  ASSUME DriftTypeOK, FreshInv, NEW i \in Indices, dyn[i] = "absent"
  PROVE  \A t \in Templates : <<i, t>> \notin fresh
<1> SUFFICES ASSUME NEW t \in Templates, <<i, t>> \in fresh
             PROVE  FALSE
  OBVIOUS
<1>1. t \in Drift!Defined /\ dyn[i] = tpl[t].dynamic
  BY DEF FreshInv
<1>2. tpl[t] \in Drift!Info
  BY <1>1 DEF DriftTypeOK, Drift!Defined
<1>3. tpl[t].dynamic \in Dynamics
  BY <1>2 DEF Drift!Info
<1> QED
  BY <1>1, <1>3, PatternsAssumption

\* The index takes its setting from one that matches, and no other index is touched.
LEMMA CreateIndexPreserves ==
  ASSUME DriftTypeOK, FreshInv, ListedInv, NEW i \in Indices, Drift!CreateIndex(i)
  PROVE  (DriftTypeOK /\ FreshInv /\ ListedInv /\ QuietInv)'
<1>1. /\ pc \in {"idle", "templates"} /\ quiet' = FALSE /\ dyn[i] = "absent"
      /\ UNCHANGED <<tpl, pc, listed, out, before, edited>>
  BY DEF Drift!CreateIndex, Drift!Change, Drift!probe
<1>2. \A t \in Templates : <<i, t>> \notin fresh
  BY <1>1, AbsentIsNotFresh
<1>3. ListedInv' /\ QuietInv'
  BY <1>1, ChangedStep
<1>4. CASE UNCHANGED fresh /\ dyn' = [dyn EXCEPT ![i] = ""]
  <2>1. DriftTypeOK' /\ \A k \in Indices \ {i} : dyn'[k] = dyn[k]
    BY <1>1, <1>4 DEF DriftTypeOK
  <2>2. FreshInv'
    BY <1>1, <1>2, <1>4, <2>1, OthersFresh DEF FreshInv
  <2> QED
    BY <1>3, <2>1, <2>2
<1>5. ASSUME NEW t \in Drift!Defined, Drift!Specificity(tpl[t], i) > 0,
             dyn' = [dyn EXCEPT ![i] = tpl[t].dynamic], fresh' = fresh \cup {<<i, t>>}
      PROVE  (DriftTypeOK /\ FreshInv /\ ListedInv /\ QuietInv)'
  <2>1. t \in Templates
    BY DEF Drift!Defined
  <2>2. DriftTypeOK' /\ \A k \in Indices \ {i} : dyn'[k] = dyn[k]
    <3>1. fresh' \subseteq Indices \X Templates
      BY <1>5, <2>1 DEF DriftTypeOK
    <3>2. dyn' = [k \in Indices |-> dyn'[k]] /\ \A k \in Indices \ {i} : dyn'[k] = dyn[k]
      <4>1. \E d : dyn' = [dyn EXCEPT ![i] = d]
        BY <1>5
      <4> QED
        BY <4>1 DEF DriftTypeOK
    <3> QED
      BY <1>1, <3>1, <3>2 DEF DriftTypeOK
  <2>3. dyn'[i] = tpl[t].dynamic
    BY <1>5 DEF DriftTypeOK
  <2>4. t \in Drift!Defined' /\ Drift!Specificity(tpl[t], i)' > 0
    BY <1>1, <1>5 DEF Drift!Defined, Drift!Specificity
  <2>5. ASSUME NEW k \in Indices, NEW u \in Templates, <<k, u>> \in fresh'
        PROVE  u \in Drift!Defined' /\ Drift!Specificity(tpl[u], k)' > 0
               /\ dyn'[k] = tpl'[u].dynamic
    <3>1. CASE k = i
      <4>1. u = t
        BY <1>2, <1>5, <2>5, <3>1
      <4> QED
        BY <1>1, <2>3, <2>4, <3>1, <4>1
    <3>2. CASE k # i
      <4>1. <<k, u>> \in fresh
        BY <1>5, <2>5, <3>2
      <4>2. dyn'[k] = dyn[k]
        BY <2>2, <3>2
      <4> QED
        BY <1>1, <4>1, <4>2, OthersFresh
    <3> QED
      BY <3>1, <3>2
  <2>6. FreshInv'
    BY <2>5 DEF FreshInv
  <2> QED
    BY <1>3, <2>2, <2>6
<1> QED
  BY <1>1, <1>4, <1>5 DEF Drift!CreateIndex

LEMMA EditIndexPreserves ==
  ASSUME DriftTypeOK, FreshInv, ListedInv, NEW i \in Indices, Drift!EditIndex(i)
  PROVE  (DriftTypeOK /\ FreshInv /\ ListedInv /\ QuietInv)'
<1>1. /\ pc \in {"idle", "templates"} /\ quiet' = FALSE
      /\ UNCHANGED <<tpl, pc, listed, out, before, edited>>
      /\ DriftTypeOK' /\ fresh' = {p \in fresh : p[1] # i}
      /\ \A k \in Indices \ {i} : dyn'[k] = dyn[k]
  BY DEF Drift!EditIndex, Drift!Change, Drift!probe, DriftTypeOK
<1>2. FreshInv'
  <2> SUFFICES ASSUME NEW k \in Indices, NEW t \in Templates, <<k, t>> \in fresh'
               PROVE  t \in Drift!Defined' /\ Drift!Specificity(tpl[t], k)' > 0
                      /\ dyn'[k] = tpl'[t].dynamic
    BY DEF FreshInv
  <2>1. k # i /\ <<k, t>> \in fresh
    BY <1>1
  <2> QED
    BY <1>1, <2>1, OthersFresh
<1>3. ListedInv' /\ QuietInv'
  BY <1>1, ChangedStep
<1> QED
  BY <1>1, <1>2, <1>3

\* Steps that leave the templates and indices alone.
LEMMA ClusterAtRest ==
  ASSUME UNCHANGED <<tpl, dyn>>
  PROVE  /\ Entries' = Entries /\ RowsBy(Drift!ByName(Entries))' = RowsBy(Drift!ByName(Entries))
         /\ FreshInv /\ fresh' \subseteq fresh => FreshInv'
<1>1. Entries' = Entries /\ Drift!Defined' = Drift!Defined
      /\ \A i, t : Drift!Specificity(tpl[t], i)' = Drift!Specificity(tpl[t], i)
  BY DEF Entries, Entry, Drift!Defined, Drift!Specificity
<1>2. RowsBy(Drift!ByName(Entries))' = RowsBy(Drift!ByName(Entries))
  BY <1>1 DEF RowsBy, Drift!Live
<1> QED
  BY <1>1, <1>2 DEF FreshInv

LEMMA GetTemplatesPreserves ==
  ASSUME DriftTypeOK, FreshInv, QuietInv, Drift!GetTemplates
  PROVE  (DriftTypeOK /\ FreshInv /\ ListedInv /\ QuietInv)'
<1>1. /\ pc' = "templates" /\ edited' = {} /\ quiet' = (quiet \/ before = Drift!None)
      /\ UNCHANGED <<tpl, dyn, out, before, fresh>>
  BY DEF Drift!GetTemplates
<1>2. Entries' = Entries /\ FreshInv'
        /\ RowsBy(Drift!ByName(Entries))' = RowsBy(Drift!ByName(Entries))
  BY <1>1, ClusterAtRest
<1>3. Listed' = Entries
  <2>1. PICK o \in Drift!SetToSeqs(Drift!Defined) : listed' = [n \in DOMAIN o |-> Entry(o[n])]
    BY DEF Drift!GetTemplates, Entry
  <2>2. Listed' = {Entry(o[n]) : n \in DOMAIN o}
    BY <2>1 DEF Listed
  <2> QED
    BY <2>2, ListsAll
<1>4. QuietInv'
  BY <1>1, <1>2 DEF QuietInv
<1>5. Named(Listed)'
  BY <1>3, EntriesNamed DEF Named
<1>6. ListedInv'
  BY <1>1, <1>2, <1>3, <1>5 DEF ListedInv
<1> QED
  BY <1>1, <1>2, <1>4, <1>6 DEF DriftTypeOK

\* What the second call reports, if the templates are those that were listed.
LEMMA ReportIsCurrent ==
  ASSUME Listed = Entries
  PROVE  Drift!Drift = RowsBy(Drift!ByName(Entries))
<1>1. Drift!TemplatesByName = Drift!ByName(Entries)
  BY DEF Drift!TemplatesByName, Listed
<1> QED
  BY <1>1 DEF Drift!Drift, Drift!DriftOf, RowsBy

LEMMA GetMappingsPreserves ==
  ASSUME DriftTypeOK, FreshInv, ListedInv, QuietInv, Drift!GetMappings
  PROVE  (DriftTypeOK /\ FreshInv /\ ListedInv /\ QuietInv)'
<1>1. /\ pc = "templates" /\ pc' = "done" /\ out' = Drift!Drift
      /\ UNCHANGED <<tpl, dyn, listed, before, quiet, fresh, edited>>
  BY DEF Drift!GetMappings
<1>2. Entries' = Entries /\ FreshInv'
        /\ RowsBy(Drift!ByName(Entries))' = RowsBy(Drift!ByName(Entries))
  BY <1>1, ClusterAtRest
<1>3. ListedInv'
  <2>1. Listed' = Listed
    BY <1>1 DEF Listed
  <2>2. Named(Listed)' <=> Named(Listed)
    BY <2>1 DEF Named
  <2> QED
    BY <1>1, <1>2, <2>1, <2>2 DEF ListedInv
<1>4. quiet => Drift!Drift = RowsBy(Drift!ByName(Entries))
  <2>1. quiet => Listed = Entries
    BY <1>1 DEF ListedInv
  <2> QED
    BY <2>1, ReportIsCurrent
<1>5. QuietInv'
  BY <1>1, <1>2, <1>4 DEF QuietInv
<1> QED
  BY <1>1, <1>2, <1>3, <1>5 DEF DriftTypeOK

LEMMA ProbeEndsPreserves ==
  ASSUME DriftTypeOK, FreshInv, ListedInv, QuietInv, Drift!Fails \/ Drift!ScanAgain
  PROVE  (DriftTypeOK /\ FreshInv /\ ListedInv /\ QuietInv)'
<1>1. /\ pc' \in {"failed", "idle"} /\ UNCHANGED <<tpl, dyn, quiet>>
      /\ fresh' \subseteq fresh /\ edited' \in {edited, {}}
      /\ before' = before \/ (pc = "done" /\ before' = <<out>>)
  BY DEF Drift!Fails, Drift!ScanAgain
<1>2. FreshInv' /\ RowsBy(Drift!ByName(Entries))' = RowsBy(Drift!ByName(Entries))
  BY <1>1, ClusterAtRest
<1>3. ListedInv' /\ QuietInv'
  BY <1>1, <1>2 DEF ListedInv, QuietInv
<1> QED
  BY <1>1, <1>2, <1>3 DEF DriftTypeOK

LEMMA DriftStep ==
  ASSUME DriftInv, [Next]_vars
  PROVE  DriftInv'
<1> DEFINE J == DriftTypeOK /\ FreshInv /\ ListedInv /\ QuietInv
<1> SUFFICES ASSUME name' = "mapping_drift"
             PROVE  J'
  BY DEF DriftInv
<1>1. name = "mapping_drift"
  BY DEF Next, NotFound, StepRecency, StepDrift, StepTiers, Step, vars
<1>2. DriftTypeOK /\ FreshInv /\ ListedInv /\ QuietInv
  BY <1>1 DEF DriftInv
<1>3. CASE NotFound \/ UNCHANGED vars \/ (StepDrift /\ Drift!Finished)
  <2>1. /\ UNCHANGED <<tpl, dyn, quiet, edited, fresh, listed, out, before>>
        /\ pc' = pc \/ pc' = "failed"
    BY <1>3 DEF NotFound, ofDrift, vars, adapter, StepDrift, Drift!Finished, Drift!vars
  <2>2. Entries' = Entries /\ FreshInv'
        /\ RowsBy(Drift!ByName(Entries))' = RowsBy(Drift!ByName(Entries))
    BY <1>2, <2>1, ClusterAtRest
  <2>3. Listed' = Listed /\ (Named(Listed)' <=> Named(Listed))
    BY <2>1 DEF Listed, Named
  <2>4. ListedInv' /\ QuietInv'
    BY <1>2, <2>1, <2>2, <2>3 DEF ListedInv, QuietInv
  <2> QED
    BY <1>2, <2>1, <2>2, <2>4 DEF DriftTypeOK
<1>4. CASE StepDrift /\ ~Drift!Finished
  BY <1>2, <1>4, PutTemplatePreserves, CreateIndexPreserves, EditIndexPreserves,
     GetTemplatesPreserves, GetMappingsPreserves, ProbeEndsPreserves
     DEF StepDrift, Step, Drift!Next, Drift!ClusterStep
<1> QED
  BY <1>1, <1>3, <1>4 DEF Next, StepRecency, StepTiers, Step
----------------------------------------------------------------------------
(* snapshot_recency.                                                       *)

Snapshot == [repo : Repos, state : Recency!States, start : Nat]

RecencyTypeOK ==
  /\ now \in Nat
  /\ snaps \in [Ids -> Snapshot \cup {Recency!Absent}]
  /\ listed \in [Ids -> Snapshot \cup {Recency!Absent}]
  /\ kept \subseteq Recency!Present(listed)

\* The start times of S are not in the future: the clock is read after both calls.
Past(S) == \A s \in Recency!Present(S) : S[s].start <= now

\* The report is the one of what was listed, at the time it was made.
ReportInv ==
  pc = "done" =>
    /\ DOMAIN out = Recency!Rows
    /\ \A r \in Recency!Rows : \E newest : out[r] = Recency!Row(r, newest)

RecencyInv ==
  name = "snapshot_recency" => RecencyTypeOK /\ Past(snaps) /\ Past(listed) /\ ReportInv

LEMMA RecencyCount == \A S : Recency!Cardinality(S) = Cardinality(S)
BY Zenon DEF Recency!Cardinality, Cardinality

\* A finite set of numbers has a largest one.
LEMMA LargestOf ==
  ASSUME NEW X \in SUBSET Nat, IsFiniteSet(X), X # {}
  PROVE  Recency!Largest(X) \in X /\ \A y \in X : y <= Recency!Largest(X)
<1> DEFINE key == [x \in X |-> x]
           n == Cardinality(X)
<1>1. key \in [X -> Nat] /\ \A x, y \in X : key[x] = key[y] => x = y
  OBVIOUS
<1>2. \A x \in X : key[x] = x
  OBVIOUS
<1>3. n \in Nat /\ n # 0
  BY FS_CardinalityType, FS_EmptySet
<1> HIDE DEF key
<1>4. PICK s \in [1 .. n -> X] :
        /\ \A i, j \in 1 .. n : i # j => s[i] # s[j]
        /\ \A i, j \in 1 .. n : i < j => key[s[i]] < key[s[j]]
  BY <1>1, Ordered
<1>5. \A x \in X : \E k \in 1 .. n : s[k] = x
  BY <1>4, Enumerates
<1> HIDE DEF n
<1>6. n \in 1 .. n /\ s[n] \in X
  BY <1>3, <1>4
<1>7. ASSUME NEW y \in X PROVE y <= s[n]
  <2>1. PICK k \in 1 .. n : s[k] = y
    BY <1>5
  <2>2. k < n => s[k] < s[n]
    BY <1>2, <1>4, <1>6
  <2>3. k < n \/ k = n
    BY <1>3
  <2>4. y \in Nat /\ s[n] \in Nat
    BY <1>6
  <2> QED
    BY <2>1, <2>2, <2>3, <2>4
<1> QED
  BY <1>6, <1>7 DEF Recency!Largest

\* What InOrder does with a finite set of numbers.
LEMMA InOrderOf ==
  ASSUME NEW X \in SUBSET Nat, IsFiniteSet(X)
  PROVE  LET s == Recency!InOrder(X)
             n == Cardinality(X)
         IN  /\ n \in Nat /\ s \in [1 .. n -> X]
             /\ \A x \in X : \E k \in 1 .. n : s[k] = x
             /\ \A i, j \in 1 .. n : i < j => s[i] < s[j]
<1> DEFINE key == [x \in X |-> x]
           n == Cardinality(X)
           s == Recency!InOrder(X)
<1>1. key \in [X -> Nat] /\ \A x, y \in X : key[x] = key[y] => x = y
  OBVIOUS
<1>2. \A x \in X : key[x] = x
  OBVIOUS
<1> HIDE DEF key
<1>3. PICK q \in [1 .. n -> X] :
        /\ \A i, j \in 1 .. n : i # j => q[i] # q[j]
        /\ \A i, j \in 1 .. n : i < j => key[q[i]] < key[q[j]]
  BY <1>1, Ordered
<1>4. q \in Recency!SetToSeqs(X) /\ \A i, j \in DOMAIN q : i < j => q[i] < q[j]
  BY RecencyCount, <1>2, <1>3 DEF Recency!SetToSeqs
<1>5. s \in Recency!SetToSeqs(X) /\ \A i, j \in DOMAIN s : i < j => s[i] < s[j]
  BY <1>4 DEF Recency!InOrder
<1> HIDE DEF s
<1>6. s \in [1 .. n -> X] /\ \A i, j \in 1 .. n : i # j => s[i] # s[j]
  BY RecencyCount, <1>5 DEF Recency!SetToSeqs
<1>7. n \in Nat /\ DOMAIN s = 1 .. n /\ \A x \in X : \E k \in DOMAIN s : s[k] = x
  BY <1>6, Enumerates
<1> QED
  BY <1>5, <1>6, <1>7 DEF s

\* The gap of the successes at the times X, at t: no stretch since one of them that is
\* without another is longer, and one is as long.
LEMMA MaxGapIsLongest ==
  ASSUME NEW X \in SUBSET Nat, IsFiniteSet(X), X # {}, NEW t \in Nat, \A x \in X : x <= t
  PROVE  LET g == Recency!MaxGap(X, t)
         IN  /\ g \in Nat
             /\ \E x \in X : x + g <= t /\ ~\E y \in X : x < y /\ y < x + g
             /\ \A x \in X, n \in Nat :
                  x + n <= t /\ (~\E y \in X : x < y /\ y < x + n) => n <= g
<1> DEFINE c == Cardinality(X)
           s == Recency!InOrder(X)
           G == {t - s[c]} \cup {s[i] - s[i - 1] : i \in 2 .. c}
           g == Recency!MaxGap(X, t)
<1>1. /\ c \in Nat /\ s \in [1 .. c -> X] /\ Len(s) = c
      /\ \A x \in X : \E k \in 1 .. c : s[k] = x
      /\ \A i, j \in 1 .. c : i < j => s[i] < s[j]
  BY InOrderOf
<1>2. g = Recency!Largest(G)
  BY <1>1 DEF Recency!MaxGap
<1> HIDE DEF s, c, g
<1>3. c # 0 /\ c \in 1 .. c
  <2>1. PICK x \in X : TRUE
    OBVIOUS
  <2>2. PICK k \in 1 .. c : s[k] = x
    BY <1>1
  <2> QED
    BY <1>1, <2>2
<1>4. \A i \in 1 .. c : s[i] \in X /\ s[i] \in Nat /\ s[i] <= t
  BY <1>1
<1>5. ASSUME NEW i \in 2 .. c
      PROVE  i \in 1 .. c /\ i - 1 \in 1 .. c /\ s[i - 1] < s[i] /\ s[i] - s[i - 1] \in Nat
  <2>1. i \in 1 .. c /\ i - 1 \in 1 .. c /\ i - 1 < i
    BY <1>1
  <2>2. s[i - 1] < s[i] /\ s[i] \in Nat /\ s[i - 1] \in Nat
    BY <1>1, <1>4, <2>1
  <2> QED
    BY <2>1, <2>2
<1>6. G \in SUBSET Nat /\ IsFiniteSet(G) /\ G # {}
  <2>1. t - s[c] \in Nat
    BY <1>3, <1>4
  <2>2. G \in SUBSET Nat
    BY <1>5, <2>1
  <2>3. IsFiniteSet({s[i] - s[i - 1] : i \in 2 .. c})
    <3> DEFINE f == [i \in 2 .. c |-> s[i] - s[i - 1]]
               D == {s[i] - s[i - 1] : i \in 2 .. c}
    <3>1. f \in Surjection(2 .. c, D)
      BY DEF Surjection
    <3>2. IsFiniteSet(2 .. c)
      BY <1>1, FS_Interval
    <3> HIDE DEF f
    <3>3. IsFiniteSet(D)
      BY <3>1, <3>2, FS_Surjection
    <3> QED
      BY <3>3
  <2>4. IsFiniteSet({t - s[c]})
    BY FS_Singleton
  <2> QED
    BY <2>2, <2>3, <2>4, FS_Union
<1>7. g \in G /\ \A d \in G : d <= g
  BY <1>2, <1>6, LargestOf
<1>8. g \in Nat
  BY <1>6, <1>7
<1>9. \E x \in X : x + g <= t /\ ~\E y \in X : x < y /\ y < x + g
  <2>1. CASE g = t - s[c]
    <3>1. s[c] + g <= t
      BY <1>3, <1>4, <2>1
    <3>2. ASSUME NEW y \in X PROVE ~(s[c] < y)
      <4>1. PICK k \in 1 .. c : s[k] = y
        BY <1>1
      <4>2. k < c \/ k = c
        BY <1>1
      <4>3. s[k] \in Nat /\ s[c] \in Nat /\ (k < c => s[k] < s[c])
        BY <1>1, <1>3, <1>4
      <4> QED
        BY <4>1, <4>2, <4>3
    <3> QED
      BY <1>3, <1>4, <3>1, <3>2
  <2>2. ASSUME NEW i \in 2 .. c, g = s[i] - s[i - 1]
        PROVE  \E x \in X : x + g <= t /\ ~\E y \in X : x < y /\ y < x + g
    <3>1. s[i - 1] + g = s[i] /\ s[i] <= t /\ s[i - 1] \in X
      BY <1>4, <1>5, <2>2
    <3>2. ASSUME NEW y \in X PROVE ~(s[i - 1] < y /\ y < s[i])
      <4>1. PICK k \in 1 .. c : s[k] = y
        BY <1>1
      <4>2. k < i - 1 \/ k = i - 1 \/ k = i \/ k > i
        BY <1>1
      <4>3. k < i - 1 => s[k] < s[i - 1]
        BY <1>1, <1>5
      <4>4. k > i => s[i] < s[k]
        BY <1>1, <1>5
      <4>5. s[k] \in Nat /\ s[i] \in Nat /\ s[i - 1] \in Nat
        BY <1>4, <1>5
      <4> QED
        BY <4>1, <4>2, <4>3, <4>4, <4>5
    <3> QED
      BY <3>1, <3>2
  <2> QED
    BY <1>7, <2>1, <2>2
<1>10. ASSUME NEW x \in X, NEW n \in Nat, x + n <= t, ~\E y \in X : x < y /\ y < x + n
       PROVE  n <= g
  <2>1. PICK k \in 1 .. c : s[k] = x
    BY <1>1
  <2>2. CASE k = c
    <3>1. t - x \in G
      BY <2>1, <2>2
    <3>2. t - x <= g
      BY <1>7, <3>1
    <3> QED
      BY <1>8, <1>10, <3>2
  <2>3. CASE k # c
    <3>1. k + 1 \in 2 .. c /\ (k + 1) - 1 = k
      BY <1>1, <2>3
    <3>2. s[k + 1] - s[k] \in G
      BY <3>1
    <3>3. s[k + 1] \in X /\ s[k + 1] \in Nat /\ s[k] < s[k + 1]
      BY <1>4, <1>5, <3>1
    <3>4. ~(s[k + 1] < x + n)
      BY <1>10, <2>1, <3>3
    <3>5. s[k + 1] - s[k] <= g
      BY <1>7, <3>2
    <3> QED
      BY <1>8, <2>1, <3>3, <3>4, <3>5
  <2> QED
    BY <2>2, <2>3
<1> QED
  BY <1>8, <1>9, <1>10 DEF g

LEMMA RecencyInit == Recency!Init => RecencyTypeOK /\ Past(snaps) /\ Past(listed) /\ ReportInv
BY DEF Recency!Init, RecencyTypeOK, Past, ReportInv, Recency!Present

\* The cluster does not touch what was listed, and what it takes starts now at the latest.
LEMMA ClusterPreserves ==
  ASSUME RecencyTypeOK, Past(snaps), Past(listed), Recency!ClusterStep
  PROVE  (RecencyTypeOK /\ Past(snaps) /\ Past(listed) /\ ReportInv)'
<1>1. pc' = pc /\ pc # "done" /\ listed' = listed
  BY DEF Recency!ClusterStep, Recency!Cluster
<1>2. CASE Recency!Tick
  <2>1. now' = now + 1 /\ snaps' = snaps /\ kept' = kept
    BY <1>2 DEF Recency!Tick
  <2>2. RecencyTypeOK'
    BY <1>1, <2>1 DEF RecencyTypeOK, Recency!Present
  <2>3. \A t \in Nat : t <= now => t <= now'
    BY <2>1 DEF RecencyTypeOK
  <2>4. \A s \in Ids : /\ snaps[s] # Recency!Absent => snaps[s].start \in Nat
                       /\ listed[s] # Recency!Absent => listed[s].start \in Nat
    BY DEF RecencyTypeOK, Snapshot
  <2>5. Past(snaps)' /\ Past(listed)'
    BY <1>1, <2>1, <2>3, <2>4 DEF Past, Recency!Present
  <2> QED
    BY <1>1, <2>2, <2>5 DEF ReportInv
<1>3. ASSUME NEW s \in Ids, now' = now, kept' \subseteq kept,
             \E x \in Snapshot \cup {Recency!Absent} :
               snaps' = [snaps EXCEPT ![s] = x] /\ (x # Recency!Absent => x.start <= now)
      PROVE  (RecencyTypeOK /\ Past(snaps) /\ Past(listed) /\ ReportInv)'
  <2>1. RecencyTypeOK'
    BY <1>1, <1>3 DEF RecencyTypeOK, Recency!Present
  <2>2. Past(snaps)' /\ Past(listed)'
    BY <1>1, <1>3 DEF RecencyTypeOK, Past, Recency!Present
  <2> QED
    BY <1>1, <2>1, <2>2 DEF ReportInv
<1>4. ASSUME NEW s \in Ids, NEW r \in Repos, Recency!TakeSnapshot(s, r)
      PROVE  (RecencyTypeOK /\ Past(snaps) /\ Past(listed) /\ ReportInv)'
  <2>1. PICK t \in {now, 0} :
          snaps' = [snaps EXCEPT ![s] = [repo |-> r, state |-> "IN_PROGRESS", start |-> t]]
    BY <1>4 DEF Recency!TakeSnapshot
  <2>2. [repo |-> r, state |-> "IN_PROGRESS", start |-> t] \in Snapshot /\ t <= now
    BY DEF Snapshot, Recency!States, RecencyTypeOK
  <2> QED
    BY <1>3, <1>4, <2>1, <2>2 DEF Recency!TakeSnapshot
<1>5. ASSUME NEW s \in Ids, Recency!EndSnapshot(s)
      PROVE  (RecencyTypeOK /\ Past(snaps) /\ Past(listed) /\ ReportInv)'
  <2>1. PICK st \in Ends : snaps' = [snaps EXCEPT ![s].state = st]
    BY <1>5 DEF Recency!EndSnapshot
  <2> DEFINE x == [snaps[s] EXCEPT !.state = st]
  <2>2. snaps[s] \in Snapshot /\ snaps[s].start <= now
    BY <1>5 DEF Recency!EndSnapshot, RecencyTypeOK, Past, Recency!Present
  <2>3. x \in Snapshot /\ x.start <= now
    BY <2>2, EndsAssumption DEF Snapshot, Recency!States
  <2>4. snaps' = [snaps EXCEPT ![s] = x]
    BY <2>1
  <2> HIDE DEF x
  <2>5. now' = now /\ kept' = kept
    BY <1>5 DEF Recency!EndSnapshot
  <2> QED
    BY <1>3, <2>3, <2>4, <2>5
<1>6. ASSUME NEW s \in Ids, Recency!Prune(s)
      PROVE  (RecencyTypeOK /\ Past(snaps) /\ Past(listed) /\ ReportInv)'
  BY <1>3, <1>6 DEF Recency!Prune
<1>7. ASSUME NEW r \in Repos, Recency!Register(r)
      PROVE  (RecencyTypeOK /\ Past(snaps) /\ Past(listed) /\ ReportInv)'
  <2>1. now' = now /\ snaps' = snaps /\ kept' = kept
    BY <1>7 DEF Recency!Register
  <2> QED
    BY <1>1, <2>1 DEF RecencyTypeOK, Past, ReportInv, Recency!Present
<1> QED
  BY <1>2, <1>4, <1>5, <1>6, <1>7 DEF Recency!ClusterStep, Recency!Cluster

LEMMA RecencyStep ==
  ASSUME RecencyInv, [Next]_vars
  PROVE  RecencyInv'
<1> SUFFICES ASSUME name' = "snapshot_recency"
             PROVE  (RecencyTypeOK /\ Past(snaps) /\ Past(listed) /\ ReportInv)'
  BY DEF RecencyInv
<1>1. name = "snapshot_recency"
  BY DEF Next, NotFound, StepRecency, StepDrift, StepTiers, Step, vars
<1>2. RecencyTypeOK /\ Past(snaps) /\ Past(listed) /\ ReportInv
  BY <1>1 DEF RecencyInv
<1>3. CASE Recency!ClusterStep
  BY <1>2, <1>3, ClusterPreserves
<1>4. CASE Recency!ListSnapshots
  <2>1. /\ listed' = [s \in Ids |-> IF snaps[s] # Recency!Absent /\ snaps[s].repo \in repos
                                    THEN snaps[s] ELSE Recency!Absent]
        /\ kept' = Recency!Present(listed)' /\ pc' = "snapshots" /\ UNCHANGED <<now, snaps>>
    BY <1>4 DEF Recency!ListSnapshots, Recency!Present
  <2>2. RecencyTypeOK'
    BY <1>2, <2>1 DEF RecencyTypeOK
  <2>3. Past(snaps)' /\ Past(listed)'
    BY <1>2, <2>1 DEF Past, Recency!Present
  <2> QED
    BY <2>1, <2>2, <2>3 DEF ReportInv
<1>5. CASE UNCHANGED <<now, snaps, listed, kept>> /\ pc' # "done"
  BY <1>2, <1>5 DEF RecencyTypeOK, Past, ReportInv, Recency!Present
<1>6. CASE Recency!Fails
  BY <1>2, <1>6 DEF Recency!Fails, RecencyTypeOK, Past, ReportInv, Recency!Present
<1>7. CASE Recency!Aggregate
  <2>1. /\ UNCHANGED <<now, snaps, listed, kept, known>>
        /\ \E newest : out' = [r \in Recency!Rows |-> Recency!Row(r, newest[r])]
    BY <1>7 DEF Recency!Aggregate
  <2>2. Recency!Rows' = Recency!Rows
    BY <2>1 DEF Recency!Rows, Recency!Present
  <2>3. ASSUME NEW r, NEW n PROVE Recency!Row(r, n)' = Recency!Row(r, n)
    BY <2>1 DEF Recency!Row, Recency!SuccessStarts, Recency!WithState, Recency!In, Recency!Present
  <2>4. ReportInv'
    BY <2>1, <2>2, <2>3 DEF ReportInv
  <2> QED
    BY <1>2, <2>1, <2>4 DEF RecencyTypeOK, Past, Recency!Present
<1>8. CASE UNCHANGED <<now, snaps, listed, kept, known, out, pc>>
  <2>1. Recency!Rows' = Recency!Rows
    BY <1>8 DEF Recency!Rows, Recency!Present
  <2>2. ASSUME NEW r, NEW n PROVE Recency!Row(r, n)' = Recency!Row(r, n)
    BY <1>8 DEF Recency!Row, Recency!SuccessStarts, Recency!WithState, Recency!In, Recency!Present
  <2>3. ReportInv'
    BY <1>2, <1>8, <2>1, <2>2 DEF ReportInv
  <2> QED
    BY <1>2, <1>8, <2>3 DEF RecencyTypeOK, Past, Recency!Present
<1>9. CASE StepRecency
  <2>1. Recency!ListRepositories => UNCHANGED <<now, snaps, listed, kept>> /\ pc' # "done"
    BY DEF Recency!ListRepositories
  <2>2. Recency!Finished => UNCHANGED <<now, snaps, listed, kept, known, out, pc>>
    BY DEF Recency!Finished, Recency!vars
  <2> QED
    BY <1>3, <1>4, <1>5, <1>6, <1>7, <1>8, <1>9, <2>1, <2>2 DEF StepRecency, Step, Recency!Next
<1>10. CASE NotFound
  BY <1>5, <1>10 DEF NotFound, ofSnapshots
<1>11. CASE UNCHANGED vars
  BY <1>8, <1>11 DEF vars, adapter, ofSnapshots
<1> QED
  BY <1>1, <1>9, <1>10, <1>11 DEF Next, StepDrift, StepTiers, Step

\* The dated successes of a repository are finitely many numbers, none in the future.
LEMMA SuccessTimes ==
  ASSUME RecencyTypeOK, Past(listed), NEW r
  PROVE  LET X == Recency!SuccessStarts(listed, r)
         IN  X \in SUBSET Nat /\ IsFiniteSet(X) /\ \A x \in X : x <= now
<1> DEFINE W == Recency!WithState(listed, r, "SUCCESS")
           D == {listed[s].start : s \in W}
<1>1. /\ W \subseteq Recency!Present(listed) /\ W \subseteq Ids
      /\ Recency!SuccessStarts(listed, r) = D \ {0}
  BY DEF Recency!WithState, Recency!In, Recency!Present, Recency!SuccessStarts
<1>2. \A s \in W : listed[s].start \in Nat /\ listed[s].start <= now
  BY <1>1 DEF RecencyTypeOK, Past, Snapshot, Recency!Present
<1>3. IsFiniteSet(W)
  BY <1>1, NamesAssumption, FS_Subset
<1> HIDE DEF W
<1>4. IsFiniteSet(D)
  <2> DEFINE f == [s \in W |-> listed[s].start]
  <2>1. f \in Surjection(W, D)
    BY DEF Surjection
  <2> HIDE DEF f, D
  <2> QED
    BY <1>3, <2>1, FS_Surjection
<1>5. D \ {0} \in SUBSET D /\ D \in SUBSET Nat /\ \A x \in D : x <= now
  BY <1>2
<1> HIDE DEF D
<1>6. IsFiniteSet(D \ {0})
  BY <1>4, <1>5, FS_Subset
<1> QED
  BY <1>1, <1>5, <1>6

\* A row counts what was listed of its repository.
LEMMA RowCounts ==
  ASSUME NEW r, NEW n
  PROVE  LET row == Recency!Row(r, n)
         IN  /\ row.count \in Nat /\ (row.count = 0 <=> Recency!In(listed, r) = {})
             /\ row.success \in Nat
             /\ row.success = 0 <=> Recency!WithState(listed, r, "SUCCESS") = {}
<1> DEFINE I == Recency!In(listed, r)
           W == Recency!WithState(listed, r, "SUCCESS")
<1>1. I \in SUBSET Ids /\ W \in SUBSET Ids
  BY DEF Recency!In, Recency!WithState, Recency!Present
<1>2. IsFiniteSet(I) /\ IsFiniteSet(W)
  BY <1>1, NamesAssumption, FS_Subset
<1>3. /\ Cardinality(I) \in Nat /\ (Cardinality(I) = 0 <=> I = {})
      /\ Cardinality(W) \in Nat /\ (Cardinality(W) = 0 <=> W = {})
  BY <1>2, FS_CardinalityType, FS_EmptySet
<1>4. Recency!Row(r, n).count = Cardinality(I) /\ Recency!Row(r, n).success = Cardinality(W)
  BY RecencyCount DEF Recency!Row
<1> QED
  BY <1>3, <1>4

\* The age and the gap of a row.
LEMMA RowTimes ==
  ASSUME RecencyTypeOK, Past(listed), NEW r, NEW n
  PROVE  LET X == Recency!SuccessStarts(listed, r)
             row == Recency!Row(r, n)
         IN  /\ X = {} => row.age = -1 /\ row.gap = -1
             /\ X # {} => /\ \E x \in X : row.age = now - x /\ \A y \in X : y <= x
                          /\ row.gap = Recency!MaxGap(X, now)
<1> DEFINE X == Recency!SuccessStarts(listed, r)
<1>1. X \in SUBSET Nat /\ IsFiniteSet(X)
  BY SuccessTimes
<1>2. /\ Recency!Row(r, n).age = IF X = {} THEN -1 ELSE now - Recency!Largest(X)
      /\ Recency!Row(r, n).gap = IF X = {} THEN -1 ELSE Recency!MaxGap(X, now)
  BY DEF Recency!Row, Recency!None
<1> HIDE DEF X
<1>3. X # {} => Recency!Largest(X) \in X /\ \A y \in X : y <= Recency!Largest(X)
  BY <1>1, LargestOf
<1> QED
  BY <1>2, <1>3 DEF X

LEMMA GapLemma ==
  ASSUME RecencyTypeOK, Past(listed), ReportInv
  PROVE  Recency!GapIsLongestSilence
<1> SUFFICES ASSUME pc = "done", NEW r \in DOMAIN out
             PROVE  LET T == Recency!SuccessStarts(listed, r)
                        silent(t, n) == ~\E x \in T : t < x /\ x < t + n
                    IN  IF T = {} THEN out[r].gap = -1
                        ELSE /\ \E t \in T : t + out[r].gap <= now /\ silent(t, out[r].gap)
                             /\ \A t \in T, n \in 0 .. MaxTime :
                                  t + n <= now /\ silent(t, n) => n <= out[r].gap
  BY DEF Recency!GapIsLongestSilence, Recency!Done, Recency!None, Recency!Times
<1> DEFINE T == Recency!SuccessStarts(listed, r)
<1>1. PICK newest : out[r] = Recency!Row(r, newest)
  BY DEF ReportInv
<1>2. T = {} => out[r].gap = -1
  BY <1>1, RowTimes
<1>3. T # {} => out[r].gap = Recency!MaxGap(T, now)
  BY <1>1, RowTimes
<1>4. T \in SUBSET Nat /\ IsFiniteSet(T) /\ now \in Nat /\ \A x \in T : x <= now
  BY SuccessTimes DEF RecencyTypeOK
<1> HIDE DEF T
<1>5. T # {} =>
        /\ \E x \in T : x + out[r].gap <= now /\ ~\E y \in T : x < y /\ y < x + out[r].gap
        /\ \A x \in T, n \in Nat :
             x + n <= now /\ (~\E y \in T : x < y /\ y < x + n) => n <= out[r].gap
  BY <1>3, <1>4, MaxGapIsLongest
<1>6. 0 .. MaxTime \subseteq Nat
  BY TimesAssumption
<1> QED
  BY <1>2, <1>5, <1>6 DEF T

\* A success that was listed makes its repository neither untested nor, if it is dated,
\* older than that success is.
LEMMA NoFalseAlarm ==
  ASSUME RecencyTypeOK, Past(listed), ReportInv, pc = "done"
  PROVE  Recency!FreshSuccessIsNotFlagged
<1> SUFFICES ASSUME NEW s \in kept, listed[s].state = "SUCCESS"
             PROVE  LET r == listed[s].repo
                    IN  /\ r \notin Recency!UntestedRestore
                        /\ listed[s].start > 0 =>
                             /\ out[r].age \in 0 .. now - listed[s].start
                             /\ now - listed[s].start <= Slo => r \notin Recency!SnapshotSloAge
  BY DEF Recency!FreshSuccessIsNotFlagged
<1> DEFINE r == listed[s].repo
           X == Recency!SuccessStarts(listed, r)
<1>1. s \in Recency!Present(listed) /\ listed[s].start \in Nat /\ now \in Nat /\ Slo \in Nat
  BY TimesAssumption DEF RecencyTypeOK, Snapshot, Recency!Present
<1>2. PICK newest : out[r] = Recency!Row(r, newest)
  BY <1>1 DEF ReportInv, Recency!Rows
<1>3. s \in Recency!WithState(listed, r, "SUCCESS")
  BY <1>1 DEF Recency!WithState, Recency!In
<1>4. r \notin Recency!UntestedRestore
  BY <1>2, <1>3, RowCounts DEF Recency!UntestedRestore
<1>5. ASSUME listed[s].start > 0
      PROVE  /\ out[r].age \in 0 .. now - listed[s].start
             /\ now - listed[s].start <= Slo => r \notin Recency!SnapshotSloAge
  <2>1. listed[s].start \in X
    BY <1>1, <1>3, <1>5 DEF Recency!SuccessStarts
  <2>2. PICK x \in X : out[r].age = now - x /\ \A y \in X : y <= x
    BY <1>2, <2>1, RowTimes
  <2>3. x \in Nat /\ x <= now /\ listed[s].start <= x
    BY <2>1, <2>2, SuccessTimes
  <2>4. out[r].age \in 0 .. now - listed[s].start
    BY <1>1, <2>2, <2>3
  <2> QED
    BY <1>1, <2>4 DEF Recency!SnapshotSloAge
<1> QED
  BY <1>4, <1>5

\* A repository with snapshots and no fresh success has a row that one of the rules flags.
LEMMA NoHole ==
  ASSUME RecencyTypeOK, Past(listed), ReportInv, pc = "done"
  PROVE  Recency!StaleRepositoryIsFlagged
<1> SUFFICES ASSUME NEW r \in Repos, Recency!In(listed, r) # {},
                    \A s \in Recency!WithState(listed, r, "SUCCESS") :
                      listed[s].start > 0 /\ now - listed[s].start > Slo
             PROVE  r \in Recency!UntestedRestore \cup Recency!SnapshotSloAge
  BY DEF Recency!StaleRepositoryIsFlagged
<1> DEFINE X == Recency!SuccessStarts(listed, r)
           W == Recency!WithState(listed, r, "SUCCESS")
<1>1. r \in DOMAIN out
  BY DEF ReportInv, Recency!Rows, Recency!In
<1>2. PICK newest : out[r] = Recency!Row(r, newest)
  BY <1>1 DEF ReportInv
<1>3. CASE W = {}
  BY <1>1, <1>2, <1>3, RowCounts DEF Recency!UntestedRestore
<1>4. CASE W # {}
  <2>1. X # {} /\ \A x \in X : \E s \in W : x = listed[s].start
    <3>1. PICK s \in W : TRUE
      BY <1>4
    <3>2. listed[s].start \in X
      BY <3>1 DEF Recency!SuccessStarts
    <3>3. \A x \in X : \E u \in W : x = listed[u].start
      BY DEF Recency!SuccessStarts
    <3> QED
      BY <3>2, <3>3
  <2>2. PICK x \in X : out[r].age = now - x
    BY <1>2, <2>1, RowTimes
  <2>3. x \in Nat /\ now \in Nat /\ x <= now /\ now - x > Slo
    BY <2>1, <2>2, SuccessTimes DEF RecencyTypeOK
  <2>4. out[r].age # -1 /\ out[r].age > Slo
    BY <2>2, <2>3
  <2> QED
    BY <1>1, <2>4 DEF Recency!SnapshotSloAge, Recency!None
<1> QED
  BY <1>3, <1>4
----------------------------------------------------------------------------
(* The registry.                                                           *)

IInv == DispatchInv /\ TiersInv /\ DriftInv /\ RecencyInv

LEMMA InitIInv == Init => IInv
<1> SUFFICES ASSUME Init PROVE IInv
  OBVIOUS
<1>1. pc = "idle" /\ answer = "none" /\ name \in DOMAIN Calls
  BY DEF Init, Recency!Init, Drift!Init, Tiers!Init
<1>2. DispatchInv
  BY <1>1 DEF DispatchInv
<1>3. name \in {"snapshot_recency", "mapping_drift", "tier_layout"}
  BY DEF Init
<1>4. name = "tier_layout" => Tiers!Init
  BY DEF Init
<1>5. TiersInv
  BY <1>4 DEF TiersInv, Tiers!Init, TiersTypeOK, PairedInv, Tiers!VerdictHeldOnce
<1>6. DriftInv
  BY DriftInit DEF Init, DriftInv
<1>7. RecencyInv
  BY RecencyInit DEF Init, RecencyInv
<1> QED
  BY <1>2, <1>5, <1>6, <1>7 DEF IInv

LEMMA Invariance == Spec => []IInv
<1>1. Init => IInv
  BY InitIInv
<1>2. IInv /\ [Next]_vars => IInv'
  BY DispatchStep, TiersStep, DriftStep, RecencyStep DEF IInv
<1> QED
  BY <1>1, <1>2, PTL DEF Spec

\* probes.go: a probe whose arm of dispatch lets it through has every capability it will
\* call, and one that is refused lacks some, for every client.
THEOREM DispatchExact == Spec => []DispatchIsExact
<1>1. IInv => DispatchIsExact
  BY DEF IInv, DispatchInv, DispatchIsExact, Missing
<1> QED
  BY <1>1, Invariance, PTL

\* tier_layout.go: however often nodes come and go and preferences change between the
\* two calls, what is said of an index was so at a moment of the probe.
THEOREM VerdictsHeldOnce == Spec => []VerdictHeldOnce
<1>1. IInv => VerdictHeldOnce
  BY DEF IInv, TiersInv, VerdictHeldOnce
<1> QED
  BY <1>1, Invariance, PTL

\* mapping_drift.go: two scans of a cluster at rest agree, for any templates and however
\* the cluster orders them in its answers.
THEOREM ScansRepeat == Spec => []RepeatScanAgrees
<1>1. IInv => RepeatScanAgrees
  BY DEF IInv, DriftInv, QuietInv, RepeatScanAgrees, Drift!RepeatScanAgrees
<1> QED
  BY <1>1, Invariance, PTL

\* mapping_drift.go: of an index made from a template, with neither edited since, only a
\* template changed between the calls makes a report, or one that matches by a pattern as
\* long or longer, whichever of them the cluster takes it from.
THEOREM FreshIsClean == Spec => FreshIndexIsClean
<1> DEFINE Excused(r, t) ==
      \/ {t, r.template} \cap edited # {}
      \/ /\ r.template # t
         /\ Drift!Specificity(tpl[t], r.index) <= Drift!Specificity(tpl[r.template], r.index)
<1>1. ASSUME IInv, name = "mapping_drift", Drift!GetMappings, NEW r \in out', NEW t \in Templates,
             <<r.index, t>> \in fresh, t \notin edited, r.template \notin edited
      PROVE  Excused(r, t)
  <2>1. FreshInv /\ ListedInv /\ DriftTypeOK
    BY <1>1 DEF IInv, DriftInv
  <2>2. pc = "templates" /\ out' = Drift!DriftOf(Drift!Live \ System) /\ Named(Listed)
    BY <1>1, <2>1 DEF Drift!GetMappings, Drift!Drift, ListedInv
  <2>3. Drift!TemplatesByName = Drift!ByName(Listed)
    BY DEF Drift!TemplatesByName, Listed
  <2> DEFINE i == r.index
  <2>4. PICK u \in Drift!MatchTemplate(i, Drift!ByName(Listed)) :
          r.template = u.name /\ u.dynamic # "" /\ u.dynamic # Drift!LiveDynamic(dyn[i])
    <3> DEFINE T == Drift!TemplatesByName
               Diff(k) == {u \in Drift!MatchTemplate(k, T) :
                             u.dynamic # "" /\ u.dynamic # Drift!LiveDynamic(dyn[k])}
               Rows(k) == {[index |-> k, template |-> u.name, promised |-> u.dynamic,
                            live |-> Drift!LiveDynamic(dyn[k])] : u \in Diff(k)}
    <3>1. r \in UNION {Rows(k) : k \in Drift!Live \ System}
      BY <1>1, <2>2 DEF Drift!DriftOf
    <3> HIDE DEF Rows
    <3>2. PICK k : r \in Rows(k)
      BY <3>1
    <3> HIDE DEF Diff
    <3>3. PICK u \in Diff(k) : r.index = k /\ r.template = u.name
      BY <3>2 DEF Rows
    <3> HIDE DEF T
    <3> QED
      BY <2>3, <3>3 DEF Diff, T
  <2>5. u \in Listed /\ \A e \in Listed : Drift!Specificity(e, i) <= Drift!Specificity(u, i)
    BY <2>2, <2>4, MatchIsLongest
  <2>6. i \in Indices /\ t \in Drift!Defined /\ dyn[i] = tpl[t].dynamic
    BY <1>1, <2>1, <2>4 DEF FreshInv, DriftTypeOK
  <2>7. Entry(t) \in Listed
    <3>1. Entry(t) \in Entries /\ Entry(t).name = t
      BY <2>6 DEF Entries, Entry
    <3> QED
      BY <1>1, <2>1, <2>2, <3>1 DEF ListedInv
  <2>8. PICK d \in Drift!Defined : u = Entry(d)
    <3>1. u \in Entries
      BY <1>1, <2>1, <2>2, <2>4, <2>5 DEF ListedInv
    <3> QED
      BY <3>1 DEF Entries
  <2>9. r.template = d /\ u.dynamic = tpl[d].dynamic
    BY <2>4, <2>8 DEF Entry
  <2>10. d # t
    BY <2>4, <2>6, <2>9 DEF Drift!LiveDynamic
  <2>11. /\ Drift!Specificity(Entry(t), i) = Drift!Specificity(tpl[t], i)
         /\ Drift!Specificity(Entry(d), i) = Drift!Specificity(tpl[d], i)
    BY SameSpecificity DEF Entry
  <2> QED
    BY <2>4, <2>5, <2>7, <2>8, <2>9, <2>10, <2>11
<1>2. ASSUME IInv, name = "mapping_drift", Drift!GetMappings, NEW r \in out', NEW t \in Templates,
             <<r.index, t>> \in fresh
      PROVE  Excused(r, t)
  BY <1>1, <1>2
<1>3. IInv => (name = "mapping_drift" /\ Drift!GetMappings =>
        \A r \in out', t \in Templates : <<r.index, t>> \in fresh => Excused(r, t))
  BY <1>2
<1> QED
  BY <1>3, Invariance, PTL DEF FreshIndexIsClean

\* snapshot_recency.go: the gap reported of a repository is its longest silence, for any
\* number of snapshots and whatever becomes of them meanwhile.
THEOREM GapIsSilence == Spec => []GapIsLongestSilence
<1>1. IInv => GapIsLongestSilence
  BY GapLemma DEF IInv, RecencyInv, GapIsLongestSilence
<1> QED
  BY <1>1, Invariance, PTL

\* rules/lifecycle: between them the rules over snapshots raise no false alarm and leave
\* no repository with nothing but stale snapshots out, for every limit.
THEOREM RecencyRules == Spec => []RecencyRulesAgree
<1>1. IInv => RecencyRulesAgree
  BY NoFalseAlarm, NoHole DEF IInv, RecencyInv, RecencyRulesAgree, Recency!RecencyRulesAgree, Recency!Done
<1> QED
  BY <1>1, Invariance, PTL
=============================================================================
