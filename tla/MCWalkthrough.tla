----------------------------- MODULE MCWalkthrough -----------------------------
(***************************************************************************)
(* Walkthrough for TLC: every way of leaving flow limits out.              *)
(***************************************************************************)
EXTENDS Walkthrough, TLC

CONSTANTS p001, p002, p003, p004, p005, p010, ref1, ref2, ref3, ref4

References == <<ref1, ref2, ref3, ref4>>

EveryFlowLimit ==
    {p \in AnyPolicy({"any"}) :
        ~p.per_source_rate_limit /\ p.verification_gate_steps = {}}
==============================================================================
