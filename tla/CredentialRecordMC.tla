-------------------------- MODULE CredentialRecordMC --------------------------
(* A small instance of CredentialRecord for TLC: integers of three bits, a  *)
(* window of two seconds, and three accounts of which one fits no header.   *)
EXTENDS CredentialRecord

(* expires_in is signed, one bit narrower than the clock for positive ones. *)
MCLifetime == {-1, 1, 3}
=============================================================================
