---------------------------- MODULE MCEventIngest ----------------------------
(* A lead and a KYC result of one applicant, the latter without a match    *)
(* score, in either order; few clients, a short history and clock.         *)
EXTENDS EventIngest, TLC

CONSTANTS lead, kyc

Applicant == (lead :> "lead") @@ (kyc :> "kyc")

Contents == (lead :> Fields["lead"]) @@ (kyc :> {"kyc", "seen"})
=============================================================================
