----------------------------- MODULE MCRetryClient -----------------------------
(* Values of RetryClient's constants for TLC. *)
EXTENDS RetryClient

CONSTANTS r1, r2
MCCalls == {r1, r2}
=============================================================================
