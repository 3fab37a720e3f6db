----------------------------- MODULE NpmPublish -----------------------------
(***************************************************************************)
(* The npm mutation segment: internal/npmprofile/publish.go (Publish,      *)
(* classify, observe, decide, runNPM) run by one workflow run, attempt     *)
(* after attempt, against the npm registry.                                *)
(*                                                                         *)
(* One attempt prepares its handoff, classifies the registry entry state,  *)
(* runs npm at most once when the version is absent, and reads the         *)
(* registry back until the publication is proved to be its own, proved     *)
(* foreign, or the polling budget runs out.  The registry is external: its *)
(* reads lag behind its writes, its requests fail, other publishers race,  *)
(* and a PUT whose response was lost may still be applied later.           *)
(*                                                                         *)
(* Time is counted in units of one poll interval's granularity; a step of  *)
(* the program takes no time, Tick lets time pass while a request is       *)
(* outstanding or the program sleeps.                                      *)
(***************************************************************************)
EXTENDS Naturals

CONSTANTS
  Digest,          \* SHA-512 digests a packed tarball may have
  None,            \* no digest: the version is absent or its integrity malformed
  MaxAttempts,     \* run attempts explored (bound)
  ForeignBundles,  \* sets of bundles another publisher may attach to the version
  FaultChoices,    \* the sets of registry and verifier faults an attempt may meet
  MaxLag,          \* ticks after which a committed version is visible to every read
  RequestTicks,    \* ticks one packument + attestations observation may take
  Oversleep,       \* ticks a sleep may last beyond its duration (bound)
  PollInterval,    \* publishPollInterval
  RejectedBudget,  \* publishRejectedPollBudget
  PollBudget,      \* publishPollBudget
  Cancellable      \* may the caller's context be cancelled?

Faults == {"packument", "notfound", "malformed", "attestation", "verify"}

\* A registry-returned provenance bundle: the run its invocation names, the
\* tarball its subject names, and whether Sigstore and identity policy accept it.
Bundle == [run : {"this", "other"}, subject : Digest, verifies : BOOLEAN]

ASSUME DigestAssumption  == None \notin Digest
ASSUME AttemptAssumption == MaxAttempts \in Nat \ {0}
ASSUME TimeAssumption    == /\ MaxLag \in Nat
                            /\ RequestTicks \in Nat
                            /\ Oversleep \in Nat
                            /\ PollInterval \in Nat \ {0}
                            /\ RejectedBudget \in Nat
                            /\ PollBudget \in Nat
ASSUME ChoiceAssumption  == /\ ForeignBundles \subseteq SUBSET Bundle
                            /\ FaultChoices \subseteq SUBSET Faults
                            /\ Cancellable \in BOOLEAN

VARIABLES
  \* The attempt and its Publish frame.
  attempt,         \* GITHUB_RUN_ATTEMPT
  tarball,         \* digest of the packed tarball handed to this attempt
  faults,          \* the faults this attempt may meet (external)
  inputsValid,     \* handoff files unchanged and exchange token unexpired
  pc,
  entryState,      \* state the entry classification returned
  npmRan,          \* has npm publish been executed in this attempt?
  npmCode,         \* npmErrorCode of its output; "ok" when it exited 0
  result,
  \* The classify frame.
  afterMutation, elapsed, observedAt, wakeAt, reduced,
  sawVersion, sawCleanAbsence, packument, attestations,
  \* The registry.
  packageExists, version, age, puts,
  \* History: what the registry held when a classification began.
  replicatedAtEntry, publishedAtReadback

attemptVars  == <<attempt, tarball, faults>>
publishVars  == <<entryState, npmRan, npmCode>>
pollVars     == <<afterMutation, elapsed, observedAt, wakeAt, reduced,
                  sawVersion, sawCleanAbsence, packument, attestations>>
registryVars == <<packageExists, version, age, puts>>
historyVars  == <<replicatedAtEntry, publishedAtReadback>>
vars == <<attemptVars, inputsValid, pc, publishVars, result, pollVars,
          registryVars, historyVars>>

PublishState == {"committed-as-expected", "absent", "foreign-conflict",
                 "indeterminate"}
DefinitiveCodes == {"eneedauth", "e404", "e401", "e403"}
NpmCodes == DefinitiveCodes \cup {"ok", "e422", "epublishconflict", ""}
Ids == {"", "bundle-byte-format-mismatch", "prepublish-registry-metadata-required",
        "unsupported-initial-publication", "already-published-version",
        "builder-version-mismatch", "publish-npm-pin-mismatch", "trusted-publisher-mismatch",
        "mutation-permission-denied", "publish-rejected-unprocessable",
        "registry-linkage-mismatch"}

Observing == {"packument", "attestations", "decide"}
Ended     == {"done", "crashed"}
Pcs == Observing \cup Ended \cup {"prepare", "sleep", "npm-version", "mutate", "npm"}

Result == [state : PublishState \cup {"none"}, mutationAttempted : BOOLEAN,
           id : Ids, warning : BOOLEAN]
Packument == [err : BOOLEAN, package : BOOLEAN, version : BOOLEAN,
              sri : Digest \cup {None}, named : BOOLEAN]
Attestations == [err : BOOLEAN, found : BOOLEAN, bundles : SUBSET Bundle]
Version == [digest : Digest \cup {None}, bundles : SUBSET Bundle,
            committer : 0..MaxAttempts]
Put == [attempt : 1..MaxAttempts, digest : Digest]

NoVersion == [digest |-> None, bundles |-> {}, committer |-> 0]
Committed == version.digest # None

NoPackument    == [err |-> TRUE, package |-> FALSE, version |-> FALSE, sri |-> None,
                   named |-> FALSE]
NoAttestations == [err |-> TRUE, found |-> FALSE, bundles |-> {}]
NoResult       == [state |-> "none", mutationAttempted |-> FALSE, id |-> "", warning |-> FALSE]

FrameTypeOK ==
  /\ attempt \in 1..MaxAttempts
  /\ tarball \in Digest
  /\ faults \in FaultChoices
  /\ pc \in Pcs
  /\ entryState \in PublishState \cup {"none"}
  /\ npmCode \in NpmCodes \cup {"none"}
  /\ result \in Result

PollTypeOK ==
  /\ elapsed \in Nat
  /\ observedAt \in Nat
  /\ wakeAt \in Nat
  /\ packument \in Packument
  /\ attestations \in Attestations

FlagTypeOK ==
  /\ inputsValid \in BOOLEAN /\ npmRan \in BOOLEAN /\ afterMutation \in BOOLEAN
  /\ reduced \in BOOLEAN /\ sawVersion \in BOOLEAN /\ sawCleanAbsence \in BOOLEAN
  /\ replicatedAtEntry \in BOOLEAN /\ publishedAtReadback \in BOOLEAN
  /\ packageExists \in BOOLEAN

RegistryTypeOK ==
  /\ version \in Version
  /\ age \in 0..MaxLag
  /\ puts \subseteq Put

\* Every variable of Publish, of classify and of the registry has its type.
TypeOK == FrameTypeOK /\ PollTypeOK /\ FlagTypeOK /\ RegistryTypeOK

-----------------------------------------------------------------------------
(* The registry (external).                                                *)

\* The bundle this run signed for the tarball with digest d.
OwnBundle(d) == [run |-> "this", subject |-> d, verifies |-> TRUE]

Commit(d, bundles, committer) ==
  /\ ~Committed
  /\ version' = [digest |-> d, bundles |-> bundles, committer |-> committer]
  /\ age' = 0
  /\ packageExists' = TRUE

\* Someone outside this attempt publishes the version: another run, a person, or
\* a second call of the reusable workflow within this very run.
ForeignPublish ==
  /\ \E d \in Digest, bundles \in ForeignBundles : Commit(d, bundles, 0)
  /\ UNCHANGED <<attemptVars, inputsValid, pc, publishVars, result, pollVars,
                 puts, historyVars>>

\* The registry applies a PUT it received, now or long after its sender gave up.
RegistryAccepts ==
  /\ \E p \in puts : /\ Commit(p.digest, {OwnBundle(p.digest)}, p.attempt)
                     /\ puts' = puts \ {p}
  /\ UNCHANGED <<attemptVars, inputsValid, pc, publishVars, result, pollVars,
                 historyVars>>

\* The registry refuses a PUT: credentials, validation, or the version exists.
RegistryRefuses ==
  /\ \E p \in puts : puts' = puts \ {p}
  /\ UNCHANGED <<attemptVars, inputsValid, pc, publishVars, result, pollVars,
                 packageExists, version, age, historyVars>>

\* A packument without the version, and one that shows it with the integrity sri;
\* named: the tarball URL ends in the expected file name.
Without(package) == [err |-> FALSE, package |-> package, version |-> FALSE,
                     sri |-> None, named |-> FALSE]
Showing(sri, named) == [err |-> FALSE, package |-> TRUE, version |-> TRUE,
                        sri |-> sri, named |-> named]

\* The answers a packument request may get (RegistryClient.Preflight).  Until a
\* committed version has replicated, a read may or may not show it; a malformed
\* entry has an unusable integrity or a tarball URL of another name.
PackumentAnswer(answer) ==
  \/ ~(Committed /\ age = MaxLag) /\ answer = Without(packageExists)
  \/ Committed /\ answer = Showing(version.digest, TRUE)
  \/ /\ Committed /\ "malformed" \in faults
     /\ answer \in {Showing(None, TRUE), Showing(version.digest, FALSE)}
  \/ "notfound" \in faults /\ answer = Without(FALSE)
  \/ /\ "packument" \in faults
     /\ answer = NoPackument

\* The answers an attestations request may get (RegistryClient.Attestations): a
\* 404 is no error and carries nothing; an unattested version may answer either way.
AttestationAnswer(answer) ==
  \/ /\ Committed /\ age = MaxLag => version.bundles = {}
     /\ answer = [err |-> FALSE, found |-> FALSE, bundles |-> {}]
  \/ /\ Committed
     /\ age = MaxLag => version.bundles = {}
     /\ answer = [err |-> FALSE, found |-> TRUE, bundles |-> {}]
  \/ /\ Committed
     /\ answer = [err |-> FALSE, found |-> TRUE, bundles |-> version.bundles]
  \/ /\ "attestation" \in faults
     /\ answer = NoAttestations

\* Time passes: within an observation for at most RequestTicks, within a sleep
\* until the timer has fired and Oversleep at most beyond.
Tick ==
  /\ \/ /\ pc \in Observing
        /\ elapsed < observedAt + RequestTicks
        /\ elapsed' = elapsed + 1
     \/ /\ pc = "sleep"
        /\ elapsed < wakeAt + Oversleep
        /\ elapsed' = elapsed + 1
     \/ /\ pc \notin Observing \cup {"sleep"}
        /\ Committed /\ age < MaxLag
        /\ UNCHANGED elapsed
  /\ age' = IF Committed /\ age < MaxLag THEN age + 1 ELSE age
  /\ UNCHANGED <<attemptVars, inputsValid, pc, publishVars, result, afterMutation,
                 observedAt, wakeAt, reduced, sawVersion, sawCleanAbsence, packument,
                 attestations, packageExists, version, puts, historyVars>>

-----------------------------------------------------------------------------
(* Publish: results and the frames it enters and leaves.                   *)

failure(state, mutationAttempted, id, warning) ==
  /\ result' = [state |-> state, mutationAttempted |-> mutationAttempted,
                id |-> id, warning |-> warning]
  /\ pc' = "done"

success(mutationAttempted, warning) ==
  /\ result' = [state |-> "committed-as-expected",
                mutationAttempted |-> mutationAttempted, id |-> "", warning |-> warning]
  /\ pc' = "done"

\* classify returned: its locals go out of scope.
LeaveClassify ==
  /\ elapsed' = 0 /\ observedAt' = 0 /\ wakeAt' = 0
  /\ reduced' = FALSE /\ sawVersion' = FALSE /\ sawCleanAbsence' = FALSE
  /\ packument' = NoPackument /\ attestations' = NoAttestations

\* classify(after, e422) is called: both budgets start now, and so does the first
\* observation.
EnterClassify(after, e422) ==
  /\ pc' = "packument"
  /\ afterMutation' = after
  /\ reduced' = (after /\ e422)
  /\ elapsed' = 0 /\ observedAt' = 0 /\ wakeAt' = 0
  /\ sawVersion' = FALSE /\ sawCleanAbsence' = FALSE
  /\ packument' = NoPackument /\ attestations' = NoAttestations

\* preparePublish and validatePreparedBindings; the rejected inputs are one choice.
Prepare ==
  /\ pc = "prepare"
  /\ \/ /\ inputsValid
        /\ EnterClassify(FALSE, FALSE)
        /\ replicatedAtEntry' = (Committed /\ age = MaxLag)
        /\ UNCHANGED result
     \/ /\ failure("indeterminate", FALSE, "bundle-byte-format-mismatch", FALSE)
        /\ UNCHANGED <<pollVars, replicatedAtEntry>>
  /\ UNCHANGED <<attemptVars, inputsValid, publishVars, registryVars,
                 publishedAtReadback>>

-----------------------------------------------------------------------------
(* classify: observe, decide, sleep.                                       *)

\* Registry.Preflight within observe.
ReadPackument ==
  /\ pc = "packument"
  /\ PackumentAnswer(packument')
  /\ pc' = "attestations"
  /\ UNCHANGED <<attemptVars, inputsValid, publishVars, result, afterMutation, elapsed,
                 observedAt, wakeAt, reduced, sawVersion, sawCleanAbsence, attestations,
                 registryVars, historyVars>>

\* Registry.Attestations within observe: a second request, made after the first.
ReadAttestations ==
  /\ pc = "attestations"
  /\ AttestationAnswer(attestations')
  /\ pc' = "decide"
  /\ UNCHANGED <<attemptVars, inputsValid, publishVars, result, afterMutation, elapsed,
                 observedAt, wakeAt, reduced, sawVersion, sawCleanAbsence, packument,
                 registryVars, historyVars>>

\* Mutant: any run's bundle for this tarball matches.
matchesAnyRun(b) == b.subject = tarball

\* matchesPublishedBundle: the run id decides, the attempt component is ignored.
matchesPublishedBundle(b) == b.run = "this" /\ b.subject = tarball

\* The bundles whose verification may fail in one pass of decide: those that never
\* verify, and any other one when the online verifier is unavailable.
FailedVerifications ==
  {f \in SUBSET attestations.bundles :
     \A b \in attestations.bundles :
       /\ ~b.verifies => b \in f
       /\ b \in f => ~b.verifies \/ "verify" \in faults}

Decision(state, terminal, packageAbsent) ==
  [state |-> state, terminal |-> terminal, packageAbsent |-> packageAbsent]

\* Mutant: only the read-back may adopt, so a re-run does not converge.
decideBundlesNoRerun(failed, exhausted) ==
  LET verified == attestations.bundles \ failed
  IN IF afterMutation /\ \E b \in verified : matchesPublishedBundle(b)
     THEN Decision("committed-as-expected", TRUE, FALSE)
     ELSE IF verified # {} /\ failed = {} THEN Decision("foreign-conflict", TRUE, FALSE)
     ELSE Decision("indeterminate", exhausted, FALSE)

\* What the bundles of a version with the expected integrity establish; failed is
\* the set of those whose verification failed.
decideBundles(failed, exhausted) ==
  LET verified == attestations.bundles \ failed
      adopted  == /\ afterMutation \/ attempt > 1
                  /\ \E b \in verified : matchesPublishedBundle(b)
  IN IF adopted THEN Decision("committed-as-expected", TRUE, FALSE)
     ELSE IF verified # {} /\ failed = {} THEN Decision("foreign-conflict", TRUE, FALSE)
     ELSE IF ~exhausted THEN Decision("indeterminate", FALSE, FALSE)
     ELSE IF failed # {} THEN Decision("indeterminate", TRUE, FALSE)
     ELSE Decision("foreign-conflict", TRUE, FALSE)

\* Mutant: a failed attestations read counts as an absent version at entry.
decideErrorIsAbsence(failed, exhausted) ==
  IF packument.err THEN Decision("indeterminate", exhausted, FALSE)
  ELSE IF attestations.err \/ ~packument.version
       THEN IF afterMutation THEN Decision("indeterminate", exhausted, FALSE)
            ELSE Decision("absent", TRUE, ~packument.package)
  ELSE decideBundles(failed, exhausted)

\* Mutant: an absent version ends the read-back, too.
decideAbsenceTerminal(failed, exhausted) ==
  IF packument.err \/ attestations.err THEN Decision("indeterminate", exhausted, FALSE)
  ELSE IF ~packument.version THEN Decision("absent", TRUE, ~packument.package)
  ELSE decideBundles(failed, exhausted)

decide(failed, exhausted) ==
  IF packument.err \/ attestations.err THEN Decision("indeterminate", exhausted, FALSE)
  ELSE IF ~packument.package \/ ~packument.version
       THEN IF afterMutation THEN Decision("indeterminate", exhausted, FALSE)
            ELSE Decision("absent", TRUE, ~packument.package)
  ELSE IF packument.sri = None THEN Decision("indeterminate", exhausted, FALSE)
  ELSE IF packument.sri # tarball \/ ~packument.named
       THEN Decision("foreign-conflict", TRUE, FALSE)
  ELSE decideBundles(failed, exhausted)

\* The entry classification returned to Publish.
EntryOutcome(decision, err) ==
  \/ /\ err \/ (decision.state = "indeterminate" /\ ~decision.packageAbsent)
     /\ failure("indeterminate", FALSE, "prepublish-registry-metadata-required", FALSE)
     /\ UNCHANGED entryState
  \/ /\ ~err /\ decision.packageAbsent
     /\ failure("absent", FALSE, "unsupported-initial-publication", FALSE)
     /\ UNCHANGED entryState
  \/ /\ ~err /\ decision.state = "foreign-conflict"
     /\ failure("foreign-conflict", FALSE, "already-published-version", FALSE)
     /\ UNCHANGED entryState
  \/ /\ ~err /\ ~decision.packageAbsent
     /\ decision.state \in {"committed-as-expected", "absent"}
     /\ entryState' = decision.state
     /\ pc' = "npm-version"
     /\ UNCHANGED result

\* The read-back classification returned to Publish; warning is its
\* committedAfterRejection.
ReadbackOutcome(decision, err, warning) ==
  /\ \/ /\ npmCode = "e422" /\ decision.state = "absent"
        /\ failure("absent", TRUE, "publish-rejected-unprocessable", FALSE)
     \/ /\ ~(npmCode = "e422" /\ decision.state = "absent")
        /\ err \/ decision.state \notin {"foreign-conflict", "committed-as-expected"}
        /\ failure("indeterminate", TRUE, "registry-linkage-mismatch", warning)
     \/ /\ ~err /\ decision.state = "foreign-conflict"
        /\ failure("foreign-conflict", TRUE, "registry-linkage-mismatch", warning)
     \/ /\ ~err /\ decision.state = "committed-as-expected"
        /\ success(TRUE, warning)
  /\ UNCHANGED entryState

\* classify returns decision, err with seen its sawVersion.
Classified(decision, err, seen) ==
  /\ LeaveClassify
  /\ IF afterMutation THEN ReadbackOutcome(decision, err, npmCode = "e422" /\ seen)
                      ELSE EntryOutcome(decision, err)
  /\ UNCHANGED <<attemptVars, inputsValid, npmRan, npmCode, afterMutation,
                 registryVars, historyVars>>

\* Mutant: the observation that ends the polling is not counted.
SeenBefore == sawVersion

\* sawVersion and sawCleanAbsence once the last observation is counted.
SeenVersion      == sawVersion \/ (~packument.err /\ packument.version)
SeenCleanAbsence == sawCleanAbsence \/ /\ ~packument.err /\ ~packument.version
                                       /\ reduced /\ observedAt <= RejectedBudget

ReducedExpired == reduced /\ elapsed >= RejectedBudget
\* Mutant: the first clean absence settles, without waiting for the window.
AbsenceSettledAtOnce == reduced /\ ~SeenVersion /\ SeenCleanAbsence

AbsenceSettled == ReducedExpired /\ ~SeenVersion /\ SeenCleanAbsence

\* The observation decides.
PollTerminal ==
  /\ pc = "decide"
  /\ \E failed \in FailedVerifications :
       /\ decide(failed, FALSE).terminal
       /\ Classified(decide(failed, FALSE), FALSE, SeenVersion)

\* The reduced E422 budget ends with clean absences only.
PollAbsenceSettled ==
  /\ pc = "decide"
  /\ \E failed \in FailedVerifications : ~decide(failed, FALSE).terminal
  /\ AbsenceSettled
  /\ Classified(Decision("absent", TRUE, FALSE), FALSE, SeenVersion)

\* The budget ends: decide runs once more on the last observation, verifying anew.
PollExhausted ==
  /\ pc = "decide"
  /\ \E failed \in FailedVerifications : ~decide(failed, FALSE).terminal
  /\ ~AbsenceSettled
  /\ elapsed >= PollBudget
  /\ \E failed \in FailedVerifications :
       LET final == decide(failed, TRUE)
       IN Classified(final, final.state = "indeterminate", SeenVersion)

\* Budget remains: sleep for one poll interval.
PollSleep ==
  /\ pc = "decide"
  /\ \E failed \in FailedVerifications : ~decide(failed, FALSE).terminal
  /\ ~AbsenceSettled
  /\ elapsed < PollBudget
  /\ reduced' = (reduced /\ ~ReducedExpired)
  /\ sawVersion' = SeenVersion
  /\ sawCleanAbsence' = SeenCleanAbsence
  /\ wakeAt' = elapsed + PollInterval
  /\ pc' = "sleep"
  /\ packument' = NoPackument
  /\ attestations' = NoAttestations
  /\ UNCHANGED <<attemptVars, inputsValid, publishVars, result, afterMutation, elapsed,
                 observedAt, registryVars, historyVars>>

\* Mutant: the deadline is computed anew for every poll.
WakeRestartsBudget ==
  /\ pc = "sleep"
  /\ elapsed >= wakeAt
  /\ elapsed' = 0 /\ observedAt' = 0 /\ wakeAt' = 0
  /\ pc' = "packument"
  /\ UNCHANGED <<attemptVars, inputsValid, publishVars, result, afterMutation,
                 reduced, sawVersion, sawCleanAbsence, packument, attestations,
                 registryVars, historyVars>>

\* The timer fired: the next observation is issued.
Wake ==
  /\ pc = "sleep"
  /\ elapsed >= wakeAt
  /\ observedAt' = elapsed
  /\ pc' = "packument"
  /\ UNCHANGED <<attemptVars, inputsValid, publishVars, result, afterMutation, elapsed,
                 wakeAt, reduced, sawVersion, sawCleanAbsence, packument, attestations,
                 registryVars, historyVars>>

\* The context was cancelled during the sleep.
SleepCancelled ==
  /\ Cancellable
  /\ pc = "sleep"
  /\ Classified(Decision("indeterminate", TRUE, FALSE), TRUE, sawVersion)

-----------------------------------------------------------------------------
(* The mutation.                                                           *)

\* validateNPMVersion, then success for a version this run already committed.
CheckNPMVersion ==
  /\ pc = "npm-version"
  /\ \/ \E id \in {"builder-version-mismatch", "publish-npm-pin-mismatch"} :
          failure(entryState, FALSE, id, FALSE)
     \/ /\ entryState = "committed-as-expected"
        /\ success(FALSE, FALSE)
     \/ /\ entryState = "absent"
        /\ pc' = "mutate"
        /\ UNCHANGED result
  /\ UNCHANGED <<attemptVars, inputsValid, publishVars, pollVars, registryVars,
                 historyVars>>

\* Publish goes on to read the registry back.
StartReadback(code) ==
  /\ EnterClassify(TRUE, code = "e422")
  /\ publishedAtReadback' = Committed
  /\ UNCHANGED result

\* runNPM, its own re-checks passed: npm starts and sends its PUT.
StartNPM ==
  /\ pc = "mutate"
  /\ inputsValid
  /\ npmRan' = TRUE
  /\ puts' = puts \cup {[attempt |-> attempt, digest |-> tarball]}
  /\ pc' = "npm"
  /\ UNCHANGED <<attemptVars, inputsValid, entryState, npmCode, result, pollVars,
                 packageExists, version, age, historyVars>>

\* runNPM, a re-check failed: it returns an error and no output, npm never runs.
RefuseNPM ==
  /\ pc = "mutate"
  /\ ~inputsValid
  /\ npmCode' = ""
  /\ StartReadback("")
  /\ UNCHANGED <<attemptVars, inputsValid, entryState, npmRan, registryVars,
                 replicatedAtEntry>>

PutPending   == \E p \in puts : p.attempt = attempt
PutCommitted == Committed /\ version.committer = attempt

\* What npm (external) may report, given the fate of its PUT.  Any failure may
\* also surface as an unrecognised code: a timeout, a killed process group, a
\* transport error, or output cut at maxNPMOutputSize.
NpmMayReport(code) ==
  \/ code = "ok" /\ PutCommitted
  \/ code \in DefinitiveCodes /\ ~PutPending /\ ~PutCommitted
  \/ code = "e422" /\ ~PutPending
  \/ code = "epublishconflict" /\ ~PutPending /\ Committed
  \/ code = ""

\* Mutant: an unrecognised npm failure is taken for a definitive refusal.
definitiveByDefault(code) == IF code \in {"ok", "e422"} THEN "" ELSE "mutation-permission-denied"

definitivePublishError(code) ==
  IF code \in {"eneedauth", "e404"} THEN "trusted-publisher-mismatch"
  ELSE IF code \in {"e401", "e403"} THEN "mutation-permission-denied"
  ELSE ""

\* Mutant: npm is run again after an inconclusive failure.
NPMExitsRetrying ==
  /\ pc = "npm"
  /\ NpmMayReport("")
  /\ pc' = "mutate"
  /\ UNCHANGED <<attemptVars, inputsValid, publishVars, result, pollVars, registryVars,
                 historyVars>>

\* npm exits and Publish classifies its error code.
NPMExits ==
  /\ pc = "npm"
  /\ \E code \in NpmCodes :
       /\ NpmMayReport(code)
       /\ npmCode' = code
       /\ \/ /\ definitivePublishError(code) # ""
             /\ failure("absent", TRUE, definitivePublishError(code), FALSE)
             /\ UNCHANGED <<pollVars, publishedAtReadback>>
          \/ /\ definitivePublishError(code) = ""
             /\ StartReadback(code)
  /\ UNCHANGED <<attemptVars, inputsValid, entryState, npmRan, registryVars,
                 replicatedAtEntry>>

-----------------------------------------------------------------------------
(* The attempt's environment.                                              *)

\* The exchange token expires, or a handoff file changes on disk.
InputsExpire ==
  /\ inputsValid
  /\ pc \in {"prepare"} \cup Observing \cup {"sleep", "npm-version", "mutate"}
  /\ ~afterMutation
  /\ inputsValid' = FALSE
  /\ UNCHANGED <<attemptVars, pc, publishVars, result, pollVars, registryVars,
                 historyVars>>

\* The job times out or its runner is lost; the process reports nothing.
Crash ==
  /\ pc \notin Ended
  /\ pc' = "crashed"
  /\ LeaveClassify
  /\ UNCHANGED <<attemptVars, inputsValid, publishVars, result, afterMutation,
                 registryVars, historyVars>>

\* The run is re-run: same run id, next attempt, same or newly built tarball.
Rerun ==
  /\ pc \in Ended
  /\ attempt < MaxAttempts
  /\ attempt' = attempt + 1
  /\ tarball' \in Digest
  /\ faults' \in FaultChoices
  /\ inputsValid' = TRUE
  /\ pc' = "prepare"
  /\ entryState' = "none" /\ npmRan' = FALSE /\ npmCode' = "none"
  /\ result' = NoResult
  /\ afterMutation' = FALSE
  /\ LeaveClassify
  /\ replicatedAtEntry' = FALSE /\ publishedAtReadback' = FALSE
  /\ UNCHANGED registryVars

-----------------------------------------------------------------------------
Init ==
  /\ attempt = 1
  /\ tarball \in Digest
  /\ faults \in FaultChoices
  /\ inputsValid = TRUE
  /\ pc = "prepare"
  /\ entryState = "none" /\ npmRan = FALSE /\ npmCode = "none"
  /\ result = NoResult
  /\ afterMutation = FALSE
  /\ elapsed = 0 /\ observedAt = 0 /\ wakeAt = 0
  /\ reduced = FALSE /\ sawVersion = FALSE /\ sawCleanAbsence = FALSE
  /\ packument = NoPackument /\ attestations = NoAttestations
  /\ packageExists \in BOOLEAN
  /\ version = NoVersion /\ age = 0 /\ puts = {}
  /\ replicatedAtEntry = FALSE /\ publishedAtReadback = FALSE

\* The steps of the publishing process itself.
PublishStep ==
  \/ Prepare
  \/ ReadPackument
  \/ ReadAttestations
  \/ PollTerminal
  \/ PollAbsenceSettled
  \/ PollExhausted
  \/ PollSleep
  \/ Wake
  \/ SleepCancelled
  \/ CheckNPMVersion
  \/ StartNPM
  \/ RefuseNPM
  \/ NPMExits

Environment ==
  \/ Tick
  \/ ForeignPublish
  \/ RegistryAccepts
  \/ RegistryRefuses
  \/ InputsExpire
  \/ Crash
  \/ Rerun

Next == PublishStep \/ Environment

Spec == Init /\ [][Next]_vars

\* The process is scheduled and clocks advance; nothing is assumed of the registry.
FairSpec == Spec /\ WF_vars(PublishStep) /\ WF_vars(Tick)

-----------------------------------------------------------------------------
(* Properties.                                                             *)

\* The registry holds this run's publication of this attempt's tarball.
OwnPublication ==
  /\ version.digest = tarball
  /\ OwnBundle(tarball) \in version.bundles

\* Publish reports committed-as-expected only for a version that carries this
\* run's own verified provenance and exactly the bytes of this attempt's tarball,
\* whatever other publishers did and however the two registry reads interleaved
\* with them (decide, matchesPublishedBundle).
AdoptsOnlyOwn == result.state = "committed-as-expected" => OwnPublication

\* A first attempt never adopts at entry a version somebody else committed, not
\* even one signed under its own run id: its success always follows the mutation
\* step (the run_attempt gate of decide).
FirstAttemptNeverAdopts ==
  result.state = "committed-as-expected" /\ attempt = 1 => result.mutationAttempted

\* A success is the attempt's own: its tarball under its run id, and never a version that was
\* there before a first attempt began.
SuccessIsOwn == AdoptsOnlyOwn /\ FirstAttemptNeverAdopts

\* A version fully replicated when the attempt enters is never published over:
\* no fault of the reads, and no race, lets the entry classification mistake it
\* for an absent one (Publish runs npm only on a clean absence).
NoSecondPublish == replicatedAtEntry => ~npmRan

\* A result denies the mutation when it says that none was attempted, or that npm
\* refused it for a definitive reason.
DeniesMutation ==
  \/ ~result.mutationAttempted
  \/ result.state = "absent" /\ result.id # "publish-rejected-unprocessable"

\* A result that denies the mutation (not attempted, or absent for a definitive
\* npm code) is given only when this attempt's PUT neither was applied nor can
\* still be applied (definitivePublishError; runNPM).
DeniedMeansNoWrite ==
  pc = "done" /\ DeniesMutation => ~PutPending /\ ~PutCommitted

\* No packument read of the attempt fails or misses the package.
CleanPackuments == faults \cap {"packument", "notfound"} = {}

\* The determinate absence of an E422 rejection is true of every publication that
\* had happened when the read-back began, malformed versions and failing
\* verifications notwithstanding (classify's reduced budget, ADR 0102).
DeterminateAbsence ==
  CleanPackuments /\ result.id = "publish-rejected-unprocessable" => ~publishedAtReadback

\* An E422 contradicted by a committed version is never reported without the
\* committed-after-rejection warning (classify's sawVersion).
ContradictionSurfaced ==
  pc = "done" /\ CleanPackuments /\ npmCode = "e422" /\ publishedAtReadback
    => result.warning

\* A read-back that began after this run's publication was committed ends in
\* committed-as-expected unless npm reported a definitive refusal (classify under
\* bounded replication lag and fault-free reads).
ReadbackConverges ==
  pc = "done" /\ faults = {} /\ publishedAtReadback /\ OwnPublication
    => result.state = "committed-as-expected"

\* A re-run whose publication has replicated, of the same bytes, converges: it
\* reports committed-as-expected whatever the earlier attempt met and reported.
RetryConverges ==
  /\ pc = "done" /\ faults = {} /\ attempt > 1 /\ replicatedAtEntry /\ OwnPublication
  => result.state = "committed-as-expected"

\* Every attempt ends: each classification exhausts its budget and no phase waits
\* forever on the registry (classify's deadline).
PublishReturns == pc \notin Ended ~> pc \in Ended

\* A first attempt told that the version exists ends in foreign-conflict (the
\* specification's EPUBLISHCONFLICT rule for a new run id).
ConflictOnNewRunIsForeign ==
  pc = "done" /\ attempt = 1 /\ npmCode = "epublishconflict"
    => result.state = "foreign-conflict"

-----------------------------------------------------------------------------
(* The inductive invariant behind the safety properties.                   *)

\* What the program holds of the registry is still true of it: versions are
\* immutable, so an observation may be incomplete but never wrong.
ObservationsHold ==
  /\ ~Committed => version = NoVersion
  /\ packument.sri # None => version.digest = packument.sri
  /\ attestations.bundles \subseteq version.bundles

\* Every write is an attempt's own, and an attempt that has not run npm has none.
WritesAccounted ==
  /\ \A p \in puts : p.attempt <= attempt
  /\ version.committer <= attempt
  /\ ~npmRan => ~PutPending /\ ~PutCommitted

\* npm runs only after the entry classification found the version cleanly absent.
EntryGuards ==
  /\ pc \in {"prepare", "npm-version", "mutate"} => ~npmRan
  /\ pc \in Observing \cup {"sleep"} /\ ~afterMutation => ~npmRan
  /\ pc = "prepare" => entryState = "none"
  /\ pc = "mutate" => entryState = "absent"
  /\ entryState = "committed-as-expected" => OwnPublication /\ attempt > 1

\* A version replicated at entry stays visible to every later clean read; only the
\* read-back may settle on absence.
EntryReads ==
  /\ reduced => afterMutation
  /\ replicatedAtEntry => Committed /\ age = MaxLag
  /\ replicatedAtEntry /\ ~afterMutation /\ pc \in {"attestations", "decide"}
       => packument.err \/ packument.version \/ ~packument.package
  /\ replicatedAtEntry => entryState # "absent"

\* The inductive invariant: observations of an immutable version stay true, writes
\* are accounted for, npm waits for a clean absence, and so the results hold.
Inv ==
  /\ TypeOK
  /\ ObservationsHold
  /\ WritesAccounted
  /\ EntryGuards
  /\ EntryReads
  /\ AdoptsOnlyOwn
  /\ FirstAttemptNeverAdopts
  /\ NoSecondPublish
  /\ DeniedMeansNoWrite

-----------------------------------------------------------------------------
(* The promise of ReleaseIntent, read off the concrete state.              *)

verdict ==
  IF pc \notin Ended THEN "pending"
  ELSE IF pc = "crashed" THEN "doubt"
  ELSE IF result.state = "committed-as-expected" /\ result.id = "" THEN "claim"
  ELSE IF DeniesMutation THEN "deny"
  ELSE "doubt"

Intent == INSTANCE ReleaseIntent
            WITH Attestation <- ForeignBundles, Own <- OwnBundle, intent <- tarball,
                 sent <- npmRan, held <- version, writes <- puts

\* Every step of the mutation segment is a step the promise allows, or none: at
\* most one write per attempt and only of the intended tarball, a claim only over
\* the registry's own contents, a denial only when nothing was or can be written,
\* and no verdict ever revised (Publish as a whole).
KeepsPromise == Intent!Spec
=============================================================================
