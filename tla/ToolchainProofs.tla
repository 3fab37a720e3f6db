--------------------------- MODULE ToolchainProofs --------------------------
(* Proofs about Toolchain: the invariants of the provisioning steps and of *)
(* the distribution evidence, for every set of bodies, pins and versions.  *)
EXTENDS Toolchain, TLAPS

Inv == FetchTypeOK /\ ProvisionInv /\ EvidenceInv

LEMMA InitEstablishes == Init => Inv
<1> SUFFICES ASSUME Init PROVE Inv
  OBVIOUS
<1> USE DEF Init
<1>1. FetchTypeOK
  BY DEF FetchInit, FetchTypeOK, Attempts
<1>2. ProvisionTypeOK
  BY DEF ProvisionInit, ProvisionTypeOK, Tools
<1>3. DiskInv /\ PhaseInv /\ StepInv /\ NothingLeftBehind
  BY DEF ProvisionInit, DiskInv, PhaseInv, StepInv, NothingLeftBehind, Tools
<1>4. EvidenceInv
  BY DEF EvidenceInit, EvidenceInv, EvidenceTypeOK, EvidenceBindsExecution
<1> QED
  BY <1>1, <1>2, <1>3, <1>4 DEF Inv, ProvisionInv

-----------------------------------------------------------------------------
LEMMA FetchSteps ==
  ASSUME FetchTypeOK, FetchStep \/ StartFetch \/ TakeFetch \/ UNCHANGED fetchVars
  PROVE  FetchTypeOK'
<1> USE DEF FetchTypeOK, Attempts
<1>1. CASE Respond
  BY <1>1 DEF Respond
<1>2. CASE RequestFails \/ ProxyRefused \/ BackoffCut \/ Expire
  BY <1>2 DEF RequestFails, ProxyRefused, BackoffCut, Expire
<1>3. CASE BackoffEnds
  BY <1>3 DEF BackoffEnds
<1>4. CASE StartFetch \/ TakeFetch \/ UNCHANGED fetchVars
  BY <1>4 DEF StartFetch, TakeFetch, fetchVars
<1> QED
  BY <1>1, <1>2, <1>3, <1>4 DEF FetchStep

\* No download is in progress while a body waits for MakePrivate, so a download
\* changes nothing the provisioning invariant speaks of.
LEMMA DownloadKeeps ==
  ASSUME ProvisionInv, FetchStep, UNCHANGED provisionVars
  PROVE  ProvisionInv'
<1>1. phase # "make"
  BY DEF ProvisionInv, PhaseInv, FetchStep, Respond, RequestFails, ProxyRefused,
         BackoffEnds, BackoffCut, Expire
<1> QED
  BY <1>1 DEF ProvisionInv, provisionVars, setting, ProvisionTypeOK, DiskInv, PhaseInv,
              StepInv, NothingLeftBehind, Provisioned

\* The variables of the setting never change, and a tool other than the one at work
\* keeps its tree.
LEMMA TypeSteps ==
  ASSUME ProvisionTypeOK, FetchTypeOK, PhaseInv, ProvisionStep \/ Kill
  PROVE  ProvisionTypeOK'
<1> USE DEF ProvisionTypeOK, setting, Tools
<1>1. CASE Provision \/ CheckDigest \/ ExtractFails \/ ExtractEnds \/ Verify \/ Kill
  BY <1>1 DEF Provision, CheckDigest, ExtractFails, ExtractEnds, Verify, Kill, Fail, FailInside
<1>2. CASE MakePrivate
  <2>1. body \in Bodies
    BY <1>2, PinAssumption DEF MakePrivate, PhaseInv
  <2>2. [archive |-> body, entries |-> 0] \in Trees
    BY <2>1, EntriesAssumption DEF Trees
  <2> QED
    BY <1>2, <2>2 DEF MakePrivate, Fail
<1>3. CASE ExtractEntry
  <2>1. step \in Tools /\ tree[step] \in Trees
    BY <1>3 DEF ExtractEntry, PhaseInv
  <2>2. [tree[step] EXCEPT !.entries = @ + 1] \in Trees
    BY <1>3, <2>1, EntriesAssumption DEF ExtractEntry, Trees
  <2> QED
    BY <1>3, <2>1, <2>2 DEF ExtractEntry
<1>4. CASE WriteLauncher \/ RemovePrivate
  BY <1>4 DEF WriteLauncher, RemovePrivate, Fail, FailInside, PhaseInv
<1>5. CASE WriteOutput
  BY <1>5 DEF WriteOutput, Fail, PhaseInv, After
<1>6. CASE Bind \/ Assert \/ UseLauncher
  BY <1>6 DEF Bind, Assert, UseLauncher, Fail, After
<1> QED
  BY <1>1, <1>2, <1>3, <1>4, <1>5, <1>6 DEF ProvisionStep

-----------------------------------------------------------------------------
\* Steps at a tool that neither write to its directory nor leave the step.
LEMMA QuietSteps ==
  ASSUME ProvisionInv, Provision \/ CheckDigest \/ ExtractFails \/ ExtractEnds \/ Kill
  PROVE  DiskInv' /\ PhaseInv' /\ StepInv' /\ NothingLeftBehind'
<1> USE DEF ProvisionInv, setting
<1>1. UNCHANGED <<setting, step, tree, onPath, launcher, outputs, stuck>>
  BY DEF Provision, CheckDigest, ExtractFails, ExtractEnds, Kill
<1>2. DiskInv' /\ StepInv'
  BY <1>1 DEF DiskInv, StepInv, Provisioned
<1>4. CASE Provision
  <2>1. step \in Tools /\ phase = "idle" /\ phase' = "fetch"
    BY <1>4 DEF Provision
  <2> QED
    BY <1>1, <1>2, <2>1 DEF PhaseInv, NothingLeftBehind
<1>5. CASE CheckDigest
  <2>1. step \in Tools /\ phase = "fetch" /\ phase' \in {"failed", "make"}
    BY <1>5 DEF CheckDigest, PhaseInv, Fail
  <2>2. phase' = "make" => fetching' = "done" /\ body' = pins[step].archive
    BY <1>5 DEF CheckDigest, Fail, fetchVars
  <2> QED
    BY <1>1, <1>2, <2>1, <2>2 DEF PhaseInv, NothingLeftBehind
<1>6. CASE ExtractFails \/ ExtractEnds
  <2>1. step \in Tools /\ phase = "extract" /\ phase' \in {"remove", "verify"}
    BY <1>6 DEF ExtractFails, ExtractEnds, PhaseInv, FailInside
  <2>2. phase' = "verify" => tree[step].entries = Entries
    BY <1>6 DEF ExtractFails, ExtractEnds, FailInside
  <2> QED
    BY <1>1, <1>2, <2>1, <2>2 DEF PhaseInv, NothingLeftBehind
<1>7. CASE Kill
  <2>1. phase' = "failed" /\ verdict' = "killed"
    BY <1>7 DEF Kill, Fail
  <2> QED
    BY <1>1, <1>2, <2>1 DEF PhaseInv, NothingLeftBehind
<1> QED
  BY <1>4, <1>5, <1>6, <1>7

\* Steps that write to or remove the directory of the tool at work: the other tool's
\* directory, and with it what was handed on, is not touched.
LEMMA DiskSteps ==
  ASSUME ProvisionInv, FetchTypeOK, MakePrivate \/ ExtractEntry \/ RemovePrivate
  PROVE  DiskInv' /\ PhaseInv' /\ StepInv' /\ NothingLeftBehind'
<1> USE DEF ProvisionInv, setting
<1>1. step \in Tools /\ UNCHANGED <<setting, step, onPath, launcher, outputs>>
  BY DEF MakePrivate, ExtractEntry, RemovePrivate, PhaseInv
<1>2. \A t \in Tools \ {step} : tree'[t] = tree[t]
  BY <1>1 DEF MakePrivate, ExtractEntry, RemovePrivate, ProvisionTypeOK, Fail
<1>3. StepInv'
  BY <1>1, <1>2 DEF StepInv, Provisioned, Tools
<1>4. CASE MakePrivate
  <2>1. tree'[step] = tree[step] \/ tree'[step] = [archive |-> body, entries |-> 0]
    BY <1>1, <1>4 DEF MakePrivate, ProvisionTypeOK
  <2>2. body \in Bodies /\ body = pins[step].archive /\ tree[step] = Nothing
    BY <1>1, <1>4, PinAssumption DEF MakePrivate, PhaseInv, ProvisionTypeOK
  <2>3. [archive |-> body, entries |-> 0] \in Trees
    BY <2>2, EntriesAssumption DEF Trees
  <2>4. DiskInv'
    BY <1>1, <1>2, <2>1, <2>2, EntriesAssumption DEF DiskInv
  <2>5. PhaseInv' /\ NothingLeftBehind'
    BY <1>1, <1>4, <2>2, <2>3, NoTreeAssumption
       DEF MakePrivate, PhaseInv, NothingLeftBehind, Fail, ProvisionTypeOK
  <2> QED
    BY <1>3, <2>4, <2>5
<1>5. CASE ExtractEntry
  <2>1. tree[step] \in Trees /\ tree[step].archive = pins[step].archive
    BY <1>1, <1>5 DEF ExtractEntry, PhaseInv, DiskInv, ProvisionTypeOK
  <2>2. tree'[step] = [tree[step] EXCEPT !.entries = @ + 1]
    BY <1>1, <1>5 DEF ExtractEntry, ProvisionTypeOK
  <2>3. tree'[step] \in Trees /\ tree'[step].archive = pins[step].archive
        /\ (tree'[step].entries = Entries => pins[step].archive \in Safe)
    BY <1>5, <2>1, <2>2, EntriesAssumption DEF ExtractEntry, Trees
  <2>4. DiskInv'
    BY <1>1, <1>2, <2>3 DEF DiskInv
  <2>5. PhaseInv' /\ NothingLeftBehind'
    BY <1>1, <1>5, <2>3, NoTreeAssumption DEF ExtractEntry, PhaseInv, NothingLeftBehind
  <2> QED
    BY <1>3, <2>4, <2>5
<1>6. CASE RemovePrivate
  <2>1. tree' = tree \/ tree'[step] = Nothing
    BY <1>1, <1>6 DEF RemovePrivate, ProvisionTypeOK
  <2>2. DiskInv'
    BY <1>1, <1>2, <2>1 DEF DiskInv
  <2>3. tree'[step] = Nothing \/ step \in stuck'
    BY <1>1, <1>6 DEF RemovePrivate, ProvisionTypeOK
  <2>4. PhaseInv' /\ NothingLeftBehind'
    BY <1>1, <1>6, <2>3 DEF RemovePrivate, PhaseInv, NothingLeftBehind
  <2> QED
    BY <1>3, <2>2, <2>4
<1> QED
  BY <1>4, <1>5, <1>6

\* Steps that inspect or hand on what is on disk.
LEMMA HandOnSteps ==
  ASSUME ProvisionInv,
         Verify \/ WriteLauncher \/ WriteOutput \/ Bind \/ Assert \/ UseLauncher
  PROVE  DiskInv' /\ PhaseInv' /\ StepInv' /\ NothingLeftBehind'
<1> USE DEF ProvisionInv, setting
<1>1. UNCHANGED <<fetchVars, setting, tree, stuck>>
  BY DEF Verify, WriteLauncher, WriteOutput, Bind, Assert, UseLauncher
<1>2. DiskInv'
  BY <1>1 DEF DiskInv
<1>3. CASE Verify
  <2>1. step \in Tools /\ tree[step] \in Trees /\ phase = "verify"
        /\ tree[step].archive = pins[step].archive /\ tree[step].entries = Entries
        /\ pins[step].archive \in Safe
    BY <1>3 DEF Verify, PhaseInv, DiskInv, ProvisionTypeOK
  <2>2. tree[step] = [archive |-> pins[step].archive, entries |-> Entries]
    BY <2>1 DEF Trees
  <2>3. phase' \in {"launch", "output"} => Provisioned(step)
    BY <1>3, <2>1, <2>2 DEF Verify, FailInside, Provisioned
  <2>4. /\ UNCHANGED <<step, onPath, launcher, outputs>>
        /\ phase' \in {"launch", "output", "remove"}
        /\ phase' = "launch" => step = "npm"
        /\ phase' = "output" => step # "npm"
    BY <1>3 DEF Verify, FailInside
  <2>5. PhaseInv' /\ NothingLeftBehind'
    BY <1>1, <2>1, <2>3, <2>4 DEF PhaseInv, NothingLeftBehind, Provisioned
  <2> QED
    BY <1>1, <1>2, <2>4, <2>5 DEF StepInv, Provisioned
<1>4. CASE WriteLauncher
  <2>1. /\ step = "npm" /\ phase' \in {"output", "remove"} /\ UNCHANGED <<step, onPath, outputs>>
        /\ Provisioned(step) /\ (phase' = "output" => launcher' = onPath)
    BY <1>4 DEF WriteLauncher, FailInside, PhaseInv
  <2>2. StepInv'
    BY <1>1, <2>1 DEF StepInv, Provisioned
  <2>3. PhaseInv'
    BY <1>1, <2>1 DEF PhaseInv, Provisioned, Tools
  <2> QED
    BY <1>2, <2>1, <2>2, <2>3 DEF NothingLeftBehind
<1>5. CASE WriteOutput
  <2>1. /\ step \in Tools /\ UNCHANGED <<onPath, launcher>> /\ Provisioned(step)
        /\ step = "npm" => launcher = onPath
    BY <1>5 DEF WriteOutput, PhaseInv
  <2>2. CASE Fail("outputs") /\ UNCHANGED <<step, outputs>>
    BY <1>1, <1>2, <2>1, <2>2 DEF Fail, PhaseInv, NothingLeftBehind, StepInv, Provisioned
  <2>3. CASE outputs' = outputs \cup {step} /\ step' = After[step] /\ phase' = "idle"
    <3>1. step = "node" => After[step] = "bind"
      BY DEF After, Tools
    <3>2. step = "npm" => After[step] = "use"
      BY DEF After, Tools
    <3>3. (step = "node" /\ step' = "bind") \/ (step = "npm" /\ step' = "use")
      BY <2>1, <2>3, <3>1, <3>2 DEF Tools
    <3>4. StepInv'
      BY <1>1, <2>1, <2>3, <3>3 DEF StepInv, Provisioned
    <3>5. PhaseInv' /\ NothingLeftBehind'
      BY <2>3, <3>3 DEF PhaseInv, NothingLeftBehind, Tools
    <3> QED
      BY <1>2, <3>4, <3>5
  <2> QED
    BY <1>5, <2>2, <2>3 DEF WriteOutput
<1>6. CASE Bind
  <2>1. step = "bind" /\ phase' = "idle" /\ step' = "assert" /\ onPath' = "provisioned"
        /\ UNCHANGED <<outputs, launcher>>
    BY <1>6 DEF Bind, After, StepInv
  <2> QED
    BY <1>1, <1>2, <2>1 DEF PhaseInv, NothingLeftBehind, StepInv, Provisioned, Tools
<1>7. CASE Assert
  <2>1. step = "assert" /\ UNCHANGED <<outputs, launcher, onPath>>
    BY <1>7 DEF Assert
  <2>2. CASE Fail("toolchain-pair-mismatch") /\ UNCHANGED step
    BY <1>1, <1>2, <2>1, <2>2 DEF Fail, PhaseInv, NothingLeftBehind, StepInv, Provisioned, Tools
  <2>3. CASE step' = After[step] /\ phase' = "idle"
    <3>1. step' = IF job = "publish" THEN "npm" ELSE "ready"
      BY <2>1, <2>3 DEF After
    <3>2. StepInv'
      BY <1>1, <2>1, <3>1 DEF StepInv, Provisioned
    <3>3. PhaseInv'
      BY <1>1, <2>1, <2>3, <3>1 DEF PhaseInv, StepInv, Tools
    <3> QED
      BY <1>2, <2>3, <3>2, <3>3 DEF NothingLeftBehind
  <2> QED
    BY <1>7, <2>2, <2>3 DEF Assert
<1>8. CASE UseLauncher
  <2>1. step = "use" /\ UNCHANGED <<outputs, launcher, onPath>>
    BY <1>8 DEF UseLauncher
  <2>2. CASE Fail("publish-npm-pin-mismatch") /\ UNCHANGED step
    BY <1>1, <1>2, <2>1, <2>2 DEF Fail, PhaseInv, NothingLeftBehind, StepInv, Provisioned, Tools
  <2>3. CASE step' = After[step] /\ phase' = "idle"
    <3>1. step' = "ready"
      BY <2>1, <2>3 DEF After
    <3> QED
      BY <1>1, <1>2, <2>1, <2>3, <3>1
         DEF PhaseInv, NothingLeftBehind, StepInv, Provisioned, Tools
  <2> QED
    BY <1>8, <2>2, <2>3 DEF UseLauncher
<1> QED
  BY <1>3, <1>4, <1>5, <1>6, <1>7, <1>8

LEMMA ProvisionSteps ==
  ASSUME FetchTypeOK, ProvisionInv, ProvisionStep \/ Kill
  PROVE  ProvisionInv'
<1>1. ProvisionTypeOK'
  BY TypeSteps DEF ProvisionInv
<1>2. DiskInv' /\ PhaseInv' /\ StepInv' /\ NothingLeftBehind'
  BY QuietSteps, DiskSteps, HandOnSteps DEF ProvisionStep
<1> QED
  BY <1>1, <1>2 DEF ProvisionInv

-----------------------------------------------------------------------------
LEMMA EvidenceSteps ==
  ASSUME FetchTypeOK, EvidenceInv, EvidenceStep
  PROVE  EvidenceInv'
<1> USE DEF EvidenceInv, EvidenceTypeOK, EvidenceBindsExecution, Refuse, Record
<1>1. CASE Observe
  BY <1>1 DEF Observe
<1>2. CASE Acquire
  BY <1>2 DEF Acquire
<1>3. CASE ReadMetadata
  BY <1>3 DEF ReadMetadata
<1>4. CASE TakeAuthority
  BY <1>4 DEF TakeAuthority, FetchTypeOK
<1>5. CASE Compare
  BY <1>5 DEF Compare
<1>6. CASE Reconcile
  BY <1>6, FetchAssumption DEF Reconcile
<1>7. CASE Rebind
  BY <1>7, FetchAssumption DEF Rebind
<1> QED
  BY <1>1, <1>2, <1>3, <1>4, <1>5, <1>6, <1>7 DEF EvidenceStep

-----------------------------------------------------------------------------
\* Every step keeps the three parts, whichever of them it is about.
LEMMA NextPreserves == Inv /\ [Next]_vars => Inv'
<1> SUFFICES ASSUME Inv, [Next]_vars PROVE Inv'
  OBVIOUS
<1> USE DEF Inv
<1>1. CASE Download
  <2>1. FetchTypeOK'
    BY <1>1, FetchSteps DEF Download
  <2>2. ProvisionInv'
    BY <1>1, DownloadKeeps DEF Download
  <2>3. EvidenceInv'
    BY <1>1 DEF Download, evidenceVars, EvidenceInv, EvidenceTypeOK, EvidenceBindsExecution
  <2> QED
    BY <2>1, <2>2, <2>3
<1>2. CASE Provisions \/ Killed
  <2>1. StartFetch \/ TakeFetch \/ UNCHANGED fetchVars
    BY <1>2 DEF Provisions, Killed, ProvisionStep, Provision, CheckDigest, MakePrivate,
                ExtractEntry, ExtractFails, ExtractEnds, Verify, WriteLauncher,
                RemovePrivate, WriteOutput, Bind, Assert, UseLauncher, Kill
  <2>2. FetchTypeOK'
    BY <2>1, FetchSteps
  <2>3. ProvisionInv'
    BY <1>2, ProvisionSteps DEF Provisions, Killed
  <2>4. EvidenceInv'
    BY <1>2 DEF Provisions, Killed, evidenceVars, EvidenceInv, EvidenceTypeOK,
                EvidenceBindsExecution
  <2> QED
    BY <2>2, <2>3, <2>4
<1>3. CASE Evidence
  <2>1. StartFetch \/ TakeFetch \/ UNCHANGED fetchVars
    BY <1>3 DEF Evidence, EvidenceStep, Observe, Acquire, ReadMetadata, TakeAuthority,
                Compare, Reconcile, Rebind
  <2>2. FetchTypeOK'
    BY <2>1, FetchSteps
  <2>3. phase = "idle" /\ UNCHANGED provisionVars
    BY <1>3 DEF Evidence, Building
  <2>4. ProvisionInv'
    BY <2>3 DEF provisionVars, setting, ProvisionInv, ProvisionTypeOK, DiskInv, PhaseInv,
                StepInv, NothingLeftBehind, Provisioned
  <2>5. EvidenceInv'
    BY <1>3, EvidenceSteps DEF Evidence
  <2> QED
    BY <2>2, <2>4, <2>5
<1>4. CASE UNCHANGED vars
  <2>1. UNCHANGED <<fetchVars, provisionVars, evidenceVars>>
    BY <1>4 DEF vars
  <2>2. FetchTypeOK' /\ EvidenceInv'
    BY <2>1 DEF fetchVars, FetchTypeOK, evidenceVars, EvidenceInv, EvidenceTypeOK,
                EvidenceBindsExecution
  <2>3. ProvisionInv'
    BY <2>1 DEF fetchVars, provisionVars, setting, ProvisionInv, ProvisionTypeOK, DiskInv,
                PhaseInv, StepInv, NothingLeftBehind, Provisioned
  <2> QED
    BY <2>2, <2>3
<1> QED
  BY <1>1, <1>2, <1>3, <1>4 DEF Next

\* The invariants hold of every run, whatever the servers answer and the pins say.
THEOREM ToolchainInvariant == Spec => []Inv
<1> QED
  BY InitEstablishes, NextPreserves, PTL DEF Spec

\* No job goes on with another toolchain than the pinned one (PinnedToolchainRuns).
THEOREM PinnedAlways == Spec => []PinnedToolchainRuns
<1>1. Inv => PinnedToolchainRuns
  BY DEF Inv, ProvisionInv, StepInv, PinnedToolchainRuns
<1> QED
  BY <1>1, ToolchainInvariant, PTL

\* A failed provisioner leaves nothing it did not report (NothingLeftBehind).
THEOREM LeavesNothing == Spec => []NothingLeftBehind
<1>1. Inv => NothingLeftBehind
  BY DEF Inv, ProvisionInv
<1> QED
  BY <1>1, ToolchainInvariant, PTL

\* Recorded evidence is of the bytes Corepack ran (EvidenceBindsExecution).
THEOREM EvidenceIsTrue == Spec => []EvidenceBindsExecution
<1>1. Inv => EvidenceBindsExecution
  BY DEF Inv, EvidenceInv
<1> QED
  BY <1>1, ToolchainInvariant, PTL
=============================================================================
