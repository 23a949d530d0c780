--------------------------- MODULE ValidateRules ---------------------------
(***************************************************************************)
(* validate-rules (internal/cli/validate.go) as the gate it is used as: it *)
(* judges the layered catalog, and then a scan loads the same directories  *)
(* (module Catalog), with any profile and flags.  The two share what       *)
(* assembles the layers and go on with code of their own.                  *)
(***************************************************************************)
EXTENDS Catalog

CONSTANT UnderRules  \* the rules of Custom that are in a subdirectory called rules

VARIABLE verdict  \* "none" yet, "ok", "rejected", or "fixtures", rejected by --strict alone

\* Variant: the rules that a later layer shadows are looked at too.
RuleIssues_Shadowed(C) ==
  {r \in UNION {read[k] : k \in DOMAIN read} : ~r.valid}
    \cup IF Invalid(C) # {} THEN Invalid(C) ELSE {r \in C : ~r.compiles}

\* Variant: only the schema.
RuleIssues_Schema(C) == Invalid(C)

\* The rules reported.  Conditions are compiled only when nothing else is wrong.
RuleIssues(C) == IF Invalid(C) # {} THEN Invalid(C) ELSE {r \in C : ~r.compiles}

\* isEmbeddedRule: the path, relative to the directory it was loaded from, starts
\* with "rules/".
IsEmbeddedRule(r) == r \in read[1] \ UNION {read[k] : k \in 2 .. Len(Layers)} \/ r \in UnderRules

\* validateFixtures: complete are the rules with a fixture that can be read, names no
\* other rule and has a case that passes and one that fails.
FixtureIssues(C, complete) == {r \in C : IsEmbeddedRule(r) /\ r.id \notin complete}

\* Fixtures are asked for with --strict; their issues come on top of the others.
RunValidateRules ==
  /\ pc = "validate" /\ verdict = "none"
  /\ \E strict \in BOOLEAN, complete \in SUBSET Ids(cat) :
       verdict' = IF RuleIssues(cat) # {} THEN "rejected"
                  ELSE IF strict /\ FixtureIssues(cat, complete) # {} THEN "fixtures" ELSE "ok"
  /\ UNCHANGED vars
----------------------------------------------------------------------------
InitGate == Init /\ verdict = "none"

\* The scan, over the layers as they were, with or without the gate before it.
Scan == Next /\ UNCHANGED verdict

NextGate == RunValidateRules \/ Scan

SpecGate == InitGate /\ [][NextGate]_<<vars, verdict>>
----------------------------------------------------------------------------
(* Properties.                                                             *)

\* A catalog the gate accepted is one a scan can use: neither its validation nor its
\* compilation stops the scan, whatever the profile and the flags.
AcceptedCatalogRuns ==
  [][verdict = "ok" /\ (Validate \/ Compile) => pc' # "failed"]_<<vars, verdict>>

\* And one it rejected for the rules themselves stops every scan that selects all of
\* them: "an operator validating a rule sees exactly what the rest of the tool would
\* run against" (validate.go:66-69).
RejectedCatalogStops ==
  pc = "ready" /\ profile = NoProfile /\ filter = NoFilter => verdict # "rejected"
=============================================================================
