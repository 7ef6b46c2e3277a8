----------------------------- MODULE MCEdgeAgent -----------------------------
(* Instances of EdgeAgent for TLC: one device, one or two commands on it. *)
EXTENDS EdgeAgent, TLC

CONSTANTS c1, c2, d1, t1, t2

MCReq(c, policy) ==
    [id |-> c, device |-> d1, correlation |-> IF c = c1 THEN "n1" ELSE "n2",
     key |-> IF c = c1 THEN "k1" ELSE "k2", policy |-> policy, body |-> "b"]

MCAllPolicies == {MCReq(c1, p) : p \in RecoveryPolicy}
MCPair == {MCReq(c1, "probe_then_retry"), MCReq(c2, "manual_review")}

\* An adapter with durable duplicate protection, one with a recovery probe.
MCAdapters == {{"dedupe"}, {"probe"}}
MCProbeAdapter == {{"probe"}}

MCTokenSymmetry == Permutations({t1, t2})
=============================================================================
