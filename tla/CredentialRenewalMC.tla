------------------------- MODULE CredentialRenewalMC -------------------------
(* Small instances of CredentialRenewal for TLC. *)
EXTENDS CredentialRenewal, TLC

(* Callers are interchangeable where no caller is punctual. *)
CallerSymmetry == Permutations(Caller)
=============================================================================
