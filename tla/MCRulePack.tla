----------------------------- MODULE MCRulePack -----------------------------
(* Three files, the last with its suffix in upper case, so that a manifest can *)
(* break off after none, one or two entries; for the others two versions and   *)
(* one that does not parse.  The manifest may have checks, and so may one in a *)
(* subdirectory, the last of the paths.  Two edits at any moments.             *)
EXTENDS RulePack, TLC

CONSTANTS v1, v2, broken, extra

MCContents == {v1, v2, broken, extra}
MCUnparsable == {broken}
MCHolds == [f \in Paths |-> IF f \in Lower THEN {v1, v2, broken} ELSE {extra}]
MCSymmetry == Permutations({v1, v2})
=============================================================================
