-------------------------- MODULE MCClaimEvidence --------------------------
(* Instances of ClaimEvidence for TLC. *)
EXTENDS ClaimEvidence

Declares(receipts, scoped, strict) ==
    [receipts |-> {"recursion"} \cup receipts, scoped |-> scoped, strict |-> strict]

\* A run under a governing system skill, one that authors the outputs it declares, and a
\* bounded Researcher.
MCRuns == {Declares({"system"}, FALSE, FALSE),
           Declares({"activation"}, TRUE, FALSE),
           Declares({"activation", "snapshot"}, TRUE, TRUE)}
=============================================================================
