----------------------------- MODULE TierLayout -----------------------------
(***************************************************************************)
(* The tier_layout probe (internal/probes/tier_layout.go) and the rule     *)
(* over it (rules/resource-sanity/index_tier_no_eligible_node.yaml).  The  *)
(* probe lists the nodes and then the index settings; nodes come and go    *)
(* and preferences are edited between the two calls.                       *)
(***************************************************************************)
EXTENDS Naturals

CONSTANTS
  Nodes,
  RoleSets,    \* the sets of roles a node may have; {} also for a node that is away
  DataTiers,   \* the roles that start with data_
  Indices,
  System,      \* the indices whose name starts with a dot
  Preferences, \* sets of tiers an index may prefer; {} also for one that is not there
  MaxChanges   \* bound on what the cluster does during the probe

VARIABLES
  roles,    \* roles[n]
  prefs,    \* prefs[i]: its _tier_preference, split at the commas
  pc,       \* "idle", "nodes" listed, "done", "failed"
  listed,   \* the roles of the first call
  out,      \* the tiers of each node and the preference of each index
  stranded, \* history: indices that asked, at a moment of the probe, for tiers of no node
  placed,   \* history: indices that, at a moment of the probe, did not
  moved,    \* history: nodes have changed since they were listed
  edited,   \* history: indices whose preference has
  changes   \* changes during the probe (counted only for the bound)

vars == <<roles, prefs, pc, listed, out, stranded, placed, moved, edited, changes>>

\* The indices no node can hold, whatever the probe says.
Homeless == {i \in Indices : prefs[i] # {} /\ \A n \in Nodes : prefs[i] \cap roles[n] = {}}

Observe ==
  /\ stranded' = stranded \cup Homeless'
  /\ placed' = placed \cup (Indices \ Homeless')
----------------------------------------------------------------------------
(* The cluster.                                                            *)

Change == pc = "nodes" /\ changes < MaxChanges /\ changes' = changes + 1

\* A node restarts, leaves, joins or comes back with other roles.
MoveNode(n) ==
  /\ Change
  /\ \E R \in RoleSets : R # roles[n] /\ roles' = [roles EXCEPT ![n] = R]
  /\ moved' = TRUE
  /\ UNCHANGED <<prefs, pc, listed, out, edited>>
  /\ Observe

EditPreference(i) ==
  /\ Change
  /\ \E P \in Preferences : P # prefs[i] /\ prefs' = [prefs EXCEPT ![i] = P]
  /\ edited' = edited \cup {i}
  /\ UNCHANGED <<roles, pc, listed, out, moved>>
  /\ Observe
----------------------------------------------------------------------------
(* The probe.                                                              *)

ListNodes ==
  /\ pc = "idle"
  /\ listed' = roles /\ pc' = "nodes"
  /\ stranded' = Homeless /\ placed' = Indices \ Homeless
  /\ moved' = FALSE /\ edited' = {} /\ changes' = 0
  /\ UNCHANGED <<roles, prefs, out>>

\* The generic `data` role is of no tier.
ExtractTierRoles(R) == R \cap DataTiers

GetSettings ==
  /\ pc = "nodes"
  /\ out' = [tiers |-> [n \in Nodes |-> ExtractTierRoles(listed[n])], preferred |-> prefs]
  /\ pc' = "done"
  /\ UNCHANGED <<roles, prefs, listed, stranded, placed, moved, edited, changes>>

Fails ==
  /\ pc \in {"idle", "nodes"} /\ pc' = "failed"
  /\ UNCHANGED <<roles, prefs, listed, out, stranded, placed, moved, edited, changes>>

\* Variant: every tier an index prefers has to be there.
NoEligibleNode_AnyMissing ==
  {i \in Indices \ System : ~(out.preferred[i] \subseteq UNION {out.tiers[n] : n \in Nodes})}

\* The indices the rule flags.
NoEligibleNode ==
  {i \in Indices \ System :
     /\ out.preferred[i] # {}
     /\ \A t \in out.preferred[i] : \A n \in Nodes : t \notin out.tiers[n]}
----------------------------------------------------------------------------
Nothing == [tiers |-> [n \in Nodes |-> {}], preferred |-> [i \in Indices |-> {}]]

Init ==
  /\ roles \in [Nodes -> RoleSets] /\ prefs \in [Indices -> Preferences]
  /\ pc = "idle" /\ listed = roles /\ out = Nothing
  /\ stranded = {} /\ placed = {} /\ moved = FALSE /\ edited = {} /\ changes = 0

Finished == pc \in {"done", "failed"} /\ UNCHANGED vars

Next ==
  \/ \E n \in Nodes : MoveNode(n)
  \/ \E i \in Indices : EditPreference(i)
  \/ ListNodes \/ GetSettings \/ Fails \/ Finished

Spec == Init /\ [][Next]_vars
----------------------------------------------------------------------------
\* The probe never pairs the nodes of one moment with the settings of another to say
\* what was true at neither: its verdict on an index is one that held at some moment
\* between its calls, unless both the nodes and that very preference changed.
VerdictHeldOnce ==
  pc = "done" => \A i \in Indices \ System :
    ~moved \/ i \notin edited => IF i \in NoEligibleNode THEN i \in stranded ELSE i \in placed
=============================================================================
