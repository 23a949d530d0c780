--------------------------- MODULE MCScanCommand ---------------------------
(* Two contexts and the name of none; a --targets list that repeats a name,  *)
(* has a blank entry or an unknown one, or is blank; and a scan without it.  *)
EXTENDS ScanCommand

CONSTANTS prod, staging, unknown, blank, url

MCContexts == {prod, staging}

MCTargetFlags ==
  { << >>,
    <<prod, blank, prod, staging>>,
    <<staging, unknown>>,
    <<blank>> }

\* A rule below the threshold and one at it.
MCSeverity == <<2, 3>>
============================================================================
