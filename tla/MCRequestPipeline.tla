--------------------------- MODULE MCRequestPipeline ---------------------------
(***************************************************************************)
(* RequestPipeline for TLC.  create_app takes any Policy; the cfgs give it *)
(* every control at once, so that each can turn a request away before the  *)
(* next one sees it.                                                       *)
(***************************************************************************)
EXTENDS RequestPipeline, TLC

EveryControl ==
    {[SECURE EXCEPT !.name = "every-control", !.per_source_rate_limit = TRUE,
                    !.verification_gate_steps = {"register"}]}
==============================================================================
