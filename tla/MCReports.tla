----------------------------- MODULE MCReports -----------------------------
(* A fleet of two clusters of different dialects, or the first alone, and a   *)
(* catalog of two rules, one of warnings and one critical, with a gate on     *)
(* errors.                                                                    *)
EXTENDS Reports, TLC

CONSTANTS es, os, r1, r2, elasticsearch, opensearch, none

MCFleets == {<<es>>, <<es, os>>}
MCDialectOf == (es :> elasticsearch) @@ (os :> opensearch)
MCCatalog == <<r1, r2>>
MCSeverityOf == (r1 :> 2) @@ (r2 :> 4)
=============================================================================
