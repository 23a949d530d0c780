---------------------------- MODULE MCWaiverFile ----------------------------
(* Two default paths; rule a with two deprecated aliases, rule b with none;  *)
(* files with entries for a rule and for its aliases, in both orders, with   *)
(* a duplicate, without a justification and with a bad date.                 *)
EXTENDS WaiverFile, TLC

Entry(i) == [id |-> i, justified |-> TRUE, expiry |-> "none"]

MCAliases == ("old1" :> "a") @@ ("old2" :> "a")
MCContents ==
  { <<>>, <<Entry("old1"), Entry("a")>>, <<Entry("a"), Entry("old2"), Entry("b")>>,
    <<Entry("old1"), Entry("old2")>>, <<Entry("b"), Entry("b")>>,
    <<Entry(""), Entry("a")>>, <<[Entry("a") EXCEPT !.justified = FALSE], Entry("b")>>,
    <<[Entry("b") EXCEPT !.expiry = "bad"]>>, <<[Entry("b") EXCEPT !.expiry = "day"]>> }
=============================================================================
