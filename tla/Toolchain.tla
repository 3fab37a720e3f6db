------------------------------ MODULE Toolchain -----------------------------
(***************************************************************************)
(* The toolchain of one release job: the build job provisions Node.js and  *)
(* then captures the evidence of its package manager, the publish job      *)
(* provisions Node.js and npm.  Both download with the same client.        *)
(***************************************************************************)
EXTENDS Provisioning, DistributionEvidence

vars == <<fetchVars, provisionVars, evidenceVars>>

Init == FetchInit /\ ProvisionInit /\ EvidenceInit

\* The build command runs in the job that has its toolchain.
Building == job = "build" /\ step = "ready" /\ phase = "idle"

Download == FetchStep /\ UNCHANGED <<provisionVars, evidenceVars>>
Provisions == ProvisionStep /\ UNCHANGED evidenceVars
Evidence == Building /\ EvidenceStep /\ UNCHANGED provisionVars
Killed == Kill /\ UNCHANGED evidenceVars

Next == Download \/ Provisions \/ Evidence \/ Killed

Spec == Init /\ [][Next]_vars

\* The deadline passes, requests end with it, pauses end by their timer, and the
\* local steps, bounded commands among them, come to their end.
FairSpec ==
  /\ Spec
  /\ WF_vars(DeadlineBinds /\ UNCHANGED <<provisionVars, evidenceVars>>)
  /\ WF_vars(Provisions) /\ WF_vars(Evidence)

\* No server can hold a job: with the two-minute deadline the toolchain is ready and
\* recorded, or the job has failed (fetchHTTPS).
ToolchainSettles ==
  <>[](\/ phase = "failed"
       \/ step = "ready" /\ (job = "build" => stage \in {"recorded", "refused"}))
=============================================================================
