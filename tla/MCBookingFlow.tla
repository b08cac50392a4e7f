---------------------------- MODULE MCBookingFlow ----------------------------
(***************************************************************************)
(* BookingFlow for TLC.  The policies of policy.py have three booking      *)
(* flows between them: the rate limit and the front-door gate act before   *)
(* the transaction, so theirs is the one of no policy at all.              *)
(***************************************************************************)
EXTENDS BookingFlowAllocation, TLC

EveryFlow == {SECURE, VULNERABLE_NONE, VULNERABLE_PER_ACCOUNT_QUOTA}
SecureFlow == {SECURE}
QuotaFlow == {VULNERABLE_PER_ACCOUNT_QUOTA}

\* The venue's references are interchangeable.
RefSymmetry == Permutations(EligibilityRefs)
==============================================================================
