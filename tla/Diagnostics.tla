---------------------------- MODULE Diagnostics ----------------------------
(***************************************************************************)
(* The registry of diagnostics, as far as the exit status of a command     *)
(* goes, and the report with a single entry that every refusal of the      *)
(* source step, the selection, the signer and the verifier writes.         *)
(***************************************************************************)
EXTENDS Integers

Warnings ==
  {"custom-registry-preflight-inconclusive", "native-provenance-locator-missing",
   "npm-version-mismatch", "project-corepack-env-ignored", "publish-committed-after-rejection",
   "stale-non-selected-lockfile", "timestamp-clock-skew"}

InvocationFailures ==
  {"verification-mode-invalid", "input-unavailable", "verifier-execution-failure"}

ExitCode(id) == IF id \in Warnings THEN 0 ELSE IF id \in InvocationFailures THEN 2 ELSE 1

\* Build, of no entry ("accepted") or of one.
Report(id) ==
  IF id = "accepted" \/ id \in Warnings THEN [result |-> "pass", primary |-> "none", exit |-> 0]
  ELSE [result |-> "fail", primary |-> id, exit |-> ExitCode(id)]
=============================================================================
