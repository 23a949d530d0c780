--------------------------- MODULE MCProbeEngine ---------------------------
(* A catalog in which two rules share a probe, one probe is wanted on one   *)
(* dialect only, one has no adapter, and the two payloads lead every        *)
(* condition to a different outcome.                                        *)
EXTENDS ProbeEngine, TLC

CONSTANTS es, os, nodes, health, ilm, audit, empty, good, bad

MCDialects == {es, os}
MCProbes   == {nodes, health, ilm, audit, empty}
MCWired    == {nodes, health, ilm}
MCData     == {good, bad}

MCCatalog ==
  << [probe |-> nodes,  dialects |-> {es, os}],
     [probe |-> ilm,    dialects |-> {es}],
     [probe |-> nodes,  dialects |-> {es, os}],
     [probe |-> health, dialects |-> {es, os}],
     [probe |-> audit,  dialects |-> {os}] >>

MCOutcome ==
  << (good :> "pass") @@ (bad :> "fail"),
     (good :> "pass") @@ (bad :> "error"),
     (good :> "fail") @@ (bad :> "pass"),
     (good :> "pass") @@ (bad :> "fail"),
     (good :> "pass") @@ (bad :> "fail") >>
============================================================================
