-------------------------- MODULE ReleasePipeline ---------------------------
(***************************************************************************)
(* The reusable workflow .github/workflows/js-ts-npm-package-slsa3.yml:    *)
(* workflow runs that each build, sign and publish one package version,    *)
(* under the job-class concurrency groups of the workflow, cancelled,      *)
(* re-run and interrupted as GitHub Actions does.                          *)
(*                                                                         *)
(* A run's jobs hand over through workflow artifacts whose names carry the *)
(* run attempt, and through job outputs, which survive a re-run of failed  *)
(* jobs.  A tarball is identified by the attempt that built it.  The       *)
(* publish command is abstracted to what ReleaseIntent promises of it: it  *)
(* claims success only over the registry's own contents.                   *)
(***************************************************************************)
EXTENDS Naturals, Sequences, SequencesExt

CONSTANTS
  Runs,         \* workflow runs (github.run_id)
  Refs,         \* repository and built ref, the concurrency groups' key
  Groupings,    \* the assignments of refs to runs that are explored (bound)
  MaxAttempts   \* MaxAttempts[r]: attempts of the run that are explored (bound)

ASSUME AttemptBound   == MaxAttempts \in [Runs -> Nat \ {0}]
ASSUME GroupingsTotal == Groupings \subseteq [Runs -> Refs]
ASSUME RunsNamed      == "none" \notin Runs   \* "none": no run's publication

Jobs   == {"build", "sign", "publish"}
Final  == {"success", "failure", "cancelled", "skipped"}
Status == Final \cup {"waiting", "running"}
Steps  == {"none", "provision", "download", "publish", "report", "upload"}

\* needs: the jobs each job depends on, directly or not.
Needs == [build |-> {}, sign |-> {"build"}, publish |-> {"build", "sign"}]

VARIABLES
  group,      \* group[r]: the ref the run was triggered for
  attempt,    \* github.run_attempt; 0 before the run is triggered
  status,     \* status[r][job] within the current attempt
  built,      \* the attempt whose build outputs needs.build.outputs carries; 0: none
  artifacts,  \* uploaded artifacts of the run: kind and attempt in the name
  reports,    \* uploaded outcome reports: attempt in the name and verdict
  queue,      \* queue[g]: publish jobs of the group, the running one first
  step,       \* next step of the running publish job
  failed,     \* has a step of the publish job failed?
  report,     \* the outcome report file on the publish job's runner
  sent,       \* has npm sent its PUT in this publish job?
  version,    \* what the registry holds: the run and build, or run "none"
  puts        \* PUTs the registry has not settled yet

runVars      == <<group, attempt, status, built, artifacts, reports>>
publishVars  == <<queue, step, failed, report, sent>>
registryVars == <<version, puts>>
vars == <<runVars, publishVars, registryVars>>

Absent   == [run |-> "none", build |-> 0]
Attempts == UNION {1..MaxAttempts[r] : r \in Runs}
Versions == [run : Runs \cup {"none", "outside"}, build : {0} \cup Attempts]

\* Jobs, artifacts, reports and the registry of every run keep their types.
TypeOK ==
  /\ group \in Groupings
  /\ attempt \in [Runs -> {0} \cup Attempts]
  /\ status \in [Runs -> [Jobs -> Status]]
  /\ built \in [Runs -> {0} \cup Attempts]
  /\ artifacts \in [Runs -> SUBSET ({"tarball", "metadata", "bundle"} \X Attempts)]
  /\ reports \in [Runs -> SUBSET (Attempts \X {"pass", "fail"})]
  /\ queue \in [Refs -> Seq(Runs)]
  /\ step \in [Runs -> Steps]
  /\ failed \in [Runs -> BOOLEAN]
  /\ report \in [Runs -> {"none", "pass", "fail"}]
  /\ sent \in [Runs -> BOOLEAN]
  /\ version \in Versions
  /\ puts \subseteq Versions

-----------------------------------------------------------------------------
Rivals(r) == {q \in Runs \ {r} : group[q] = group[r]}

Running(r, job) == status[r][job] = "running"

Complete(r) == attempt[r] > 0 /\ \A job \in Jobs : status[r][job] \in Final

\* github: the needed jobs have finished; and have all succeeded.
NeedsDone(r, job) == \A n \in Needs[job] : status[r][n] \in Final
NeedsMet(r, job)  == \A n \in Needs[job] : status[r][n] = "success"

\* An artifact is looked up under the name the current attempt gives it.
Downloadable(r, kind) == <<kind, attempt[r]>> \in artifacts[r]

\* handoff.VerifyOneFile: the digest of the file is the one the outputs carry.
HandoffVerifies(r) == built[r] = attempt[r]

SetStatus(r, job, s) == status' = [status EXCEPT ![r][job] = s]

\* A job enters a cancel-in-progress group: rivals' running job of its class is cancelled.
EnterCancelling(r, job) ==
  status' = [q \in Runs |->
               IF q = r THEN [status[r] EXCEPT ![job] = "running"]
               ELSE IF q \in Rivals(r) /\ Running(q, job)
                    THEN [status[q] EXCEPT ![job] = "cancelled"]
               ELSE status[q]]

-----------------------------------------------------------------------------
(* The build job.                                                          *)

StartBuild(r) ==
  /\ attempt[r] > 0 /\ status[r].build = "waiting"
  /\ EnterCancelling(r, "build")
  /\ UNCHANGED <<group, attempt, built, artifacts, reports, publishVars, registryVars>>

\* npm-profile-build succeeded and the tarball handoff is uploaded.
UploadTarball(r) ==
  /\ Running(r, "build") /\ ~Downloadable(r, "tarball")
  /\ artifacts' = [artifacts EXCEPT ![r] = @ \cup {<<"tarball", attempt[r]>>}]
  /\ UNCHANGED <<group, attempt, status, built, reports, publishVars, registryVars>>

\* The metadata handoff is uploaded; the job succeeds and its outputs are set.
UploadMetadata(r) ==
  /\ Running(r, "build") /\ Downloadable(r, "tarball")
  /\ artifacts' = [artifacts EXCEPT ![r] = @ \cup {<<"metadata", attempt[r]>>}]
  /\ SetStatus(r, "build", "success")
  /\ built' = [built EXCEPT ![r] = attempt[r]]
  /\ UNCHANGED <<group, attempt, reports, publishVars, registryVars>>

BuildFails(r) ==
  /\ Running(r, "build")
  /\ SetStatus(r, "build", "failure")
  /\ UNCHANGED <<group, attempt, built, artifacts, reports, publishVars, registryVars>>

-----------------------------------------------------------------------------
(* The provenance-sign job.                                                *)

StartSign(r) ==
  /\ attempt[r] > 0 /\ status[r].sign = "waiting"
  /\ NeedsDone(r, "sign") /\ NeedsMet(r, "sign")
  /\ EnterCancelling(r, "sign")
  /\ UNCHANGED <<group, attempt, built, artifacts, reports, publishVars, registryVars>>

\* Mutant: the sign job waits on for a build that was cancelled.
SkipSignOnFailure(r) ==
  /\ attempt[r] > 0 /\ status[r].sign = "waiting" /\ status[r].build = "failure"
  /\ SetStatus(r, "sign", "skipped")
  /\ UNCHANGED <<group, attempt, built, artifacts, reports, publishVars, registryVars>>

SkipSign(r) ==
  /\ attempt[r] > 0 /\ status[r].sign = "waiting"
  /\ NeedsDone(r, "sign") /\ ~NeedsMet(r, "sign")
  /\ SetStatus(r, "sign", "skipped")
  /\ UNCHANGED <<group, attempt, built, artifacts, reports, publishVars, registryVars>>

\* Both handoffs are downloaded and verified, the Statement is signed and the
\* bundle uploaded.
SignSucceeds(r) ==
  /\ Running(r, "sign")
  /\ Downloadable(r, "tarball") /\ Downloadable(r, "metadata") /\ HandoffVerifies(r)
  /\ artifacts' = [artifacts EXCEPT ![r] = @ \cup {<<"bundle", attempt[r]>>}]
  /\ SetStatus(r, "sign", "success")
  /\ UNCHANGED <<group, attempt, built, reports, publishVars, registryVars>>

\* A handoff is missing or rejected, or any other step fails.
SignFails(r) ==
  /\ Running(r, "sign")
  /\ SetStatus(r, "sign", "failure")
  /\ UNCHANGED <<group, attempt, built, artifacts, reports, publishVars, registryVars>>

-----------------------------------------------------------------------------
(* The publish job: if: always(), queue: max, never cancelled in progress. *)

EnqueuePublish(r) ==
  /\ attempt[r] > 0 /\ status[r].publish = "waiting"
  /\ NeedsDone(r, "publish")
  /\ ~Contains(queue[group[r]], r)
  /\ queue' = [queue EXCEPT ![group[r]] = Append(@, r)]
  /\ UNCHANGED <<runVars, step, failed, report, sent, registryVars>>

\* Mutant: jobs of the group do not wait for one another.
StartPublishUnqueued(r) ==
  /\ status[r].publish = "waiting" /\ Contains(queue[group[r]], r)
  /\ SetStatus(r, "publish", "running")
  /\ step' = [step EXCEPT ![r] = IF NeedsMet(r, "publish") THEN "provision" ELSE "report"]
  /\ UNCHANGED <<group, attempt, built, artifacts, reports, queue, failed, report, sent,
                 registryVars>>

\* The job starts on a fresh runner; without its needs only the report steps run.
StartPublish(r) ==
  /\ status[r].publish = "waiting"
  /\ queue[group[r]] # <<>> /\ Head(queue[group[r]]) = r
  /\ SetStatus(r, "publish", "running")
  /\ step' = [step EXCEPT ![r] = IF NeedsMet(r, "publish") THEN "provision" ELSE "report"]
  /\ UNCHANGED <<group, attempt, built, artifacts, reports, queue, failed, report, sent,
                 registryVars>>

AtStep(r, s) == Running(r, "publish") /\ step[r] = s

\* Mutant: a failed step lets the job go on and succeed.
StepEndsAnyway(r, ok, next) ==
  /\ step' = [step EXCEPT ![r] = IF ok THEN next ELSE "report"]
  /\ UNCHANGED failed

\* A step ends: a failed one skips every later step but the always() ones.
StepEnds(r, ok, next) ==
  /\ step' = [step EXCEPT ![r] = IF ok THEN next ELSE "report"]
  /\ failed' = [failed EXCEPT ![r] = @ \/ ~ok]

\* Node.js and npm provisioning; a provisioning failure persists a failure report,
\* other failures leave none.
Provision(r) ==
  /\ AtStep(r, "provision")
  /\ \/ StepEnds(r, TRUE, "download") /\ UNCHANGED report
     \/ /\ StepEnds(r, FALSE, "download")
        /\ report' \in {report, [report EXCEPT ![r] = "fail"]}
  /\ UNCHANGED <<runVars, queue, sent, registryVars>>

Download(r) ==
  /\ AtStep(r, "download")
  /\ \E ok \in BOOLEAN :
       /\ ok => Downloadable(r, "tarball") /\ Downloadable(r, "bundle")
       /\ StepEnds(r, ok, "publish")
  /\ UNCHANGED <<runVars, queue, report, sent, registryVars>>

\* npm-profile-publish, handoffs verified: npm sends its PUT.
SendPut(r) ==
  /\ AtStep(r, "publish") /\ HandoffVerifies(r) /\ ~sent[r]
  /\ sent' = [sent EXCEPT ![r] = TRUE]
  /\ puts' = puts \cup {[run |-> r, build |-> built[r]]}
  /\ UNCHANGED <<runVars, queue, step, failed, report, version>>

\* Mutant: any version with this build's attempt number is claimed.
ClaimBuild(r) == version.build = built[r]

\* Publish claims: the registry holds this run's publication of this tarball.
Claim(r) == HandoffVerifies(r) /\ version = [run |-> r, build |-> built[r]]

\* npm-profile-publish returns.  The report follows Publish's verdict once the
\* handoffs verified, unless writing it fails; the step also fails when the job
\* outputs or the log cannot be written.
PublishReturns(r) ==
  /\ AtStep(r, "publish")
  /\ \E verdict \in {"pass", "fail"}, written, ok \in BOOLEAN :
       /\ verdict = "pass" => Claim(r)
       /\ written => HandoffVerifies(r)
       /\ ok => verdict = "pass" /\ written
       /\ report' = IF written THEN [report EXCEPT ![r] = verdict] ELSE report
       /\ StepEnds(r, ok, "report")
  /\ UNCHANGED <<runVars, queue, sent, registryVars>>

\* npm-profile-report: a missing or invalid report becomes an input-unavailable one.
FinalizeReport(r) ==
  /\ AtStep(r, "report")
  /\ step' = [step EXCEPT ![r] = "upload"]
  /\ \/ /\ report' = [report EXCEPT ![r] = IF @ = "none" THEN "fail" ELSE @]
        /\ UNCHANGED failed
     \/ failed' = [failed EXCEPT ![r] = TRUE] /\ UNCHANGED report
  /\ UNCHANGED <<runVars, queue, sent, registryVars>>

\* The job leaves its concurrency group with its conclusion; its runner is discarded.
LeavePublish(r, s) ==
  /\ SetStatus(r, "publish", s)
  /\ step' = [step EXCEPT ![r] = "none"]
  /\ failed' = [failed EXCEPT ![r] = FALSE]
  /\ report' = [report EXCEPT ![r] = "none"]
  /\ sent' = [sent EXCEPT ![r] = FALSE]
  /\ queue' = [queue EXCEPT ![group[r]] = Tail(@)]

\* The report is uploaded and the job concludes; if-no-files-found: error.
UploadReport(r) ==
  /\ AtStep(r, "upload")
  /\ \E ok \in BOOLEAN :
       /\ ok => report[r] # "none"
       /\ reports' = IF ok THEN [reports EXCEPT ![r] = @ \cup {<<attempt[r], report[r]>>}]
                     ELSE reports
       /\ LeavePublish(r, IF ok /\ ~failed[r] THEN "success" ELSE "failure")
  /\ UNCHANGED <<group, attempt, built, artifacts, registryVars>>

\* The runner is lost or the job times out: nothing more is written.
RunnerLost(r) ==
  /\ Running(r, "publish")
  /\ LeavePublish(r, "failure")
  /\ UNCHANGED <<group, attempt, built, artifacts, reports, registryVars>>

-----------------------------------------------------------------------------
(* GitHub Actions and the registry (external).                             *)

Trigger(r) ==
  /\ attempt[r] = 0
  /\ attempt' = [attempt EXCEPT ![r] = 1]
  /\ UNCHANGED <<group, status, built, artifacts, reports, publishVars, registryVars>>

\* A user cancels the run; a job with if: always() goes on.
CancelRun(r) ==
  /\ attempt[r] > 0
  /\ \E job \in {"build", "sign"} : status[r][job] \notin Final
  /\ status' = [status EXCEPT ![r] = [job \in Jobs |->
                  IF job # "publish" /\ @[job] \notin Final THEN "cancelled" ELSE @[job]]]
  /\ UNCHANGED <<group, attempt, built, artifacts, reports, publishVars, registryVars>>

\* A new attempt resets the jobs given; outputs and artifacts of the others stay.
NewAttempt(r, reset) ==
  /\ Complete(r) /\ attempt[r] < MaxAttempts[r]
  /\ attempt' = [attempt EXCEPT ![r] = @ + 1]
  /\ status' = [status EXCEPT ![r] = [job \in Jobs |->
                  IF job \in reset THEN "waiting" ELSE @[job]]]
  /\ UNCHANGED <<group, built, artifacts, reports, publishVars, registryVars>>

\* Re-run failed jobs: the failed or cancelled jobs and all that depend on them.
RerunFailed(r) ==
  LET bad == {job \in Jobs : status[r][job] \in {"failure", "cancelled"}}
  IN bad # {} /\ NewAttempt(r, bad \cup {job \in Jobs : Needs[job] \cap bad # {}})

RerunAll(r) == NewAttempt(r, Jobs)

PutLands ==
  /\ version = Absent
  /\ version' \in puts
  /\ puts' = puts \ {version'}
  /\ UNCHANGED <<runVars, publishVars>>

PutRefused ==
  /\ \E p \in puts : puts' = puts \ {p}
  /\ UNCHANGED <<runVars, publishVars, version>>

OutsidePublish ==
  /\ version = Absent
  /\ version' = [run |-> "outside", build |-> 0]
  /\ UNCHANGED <<runVars, publishVars, puts>>

-----------------------------------------------------------------------------
Init ==
  /\ group \in Groupings
  /\ attempt = [r \in Runs |-> 0]
  /\ status = [r \in Runs |-> [job \in Jobs |-> "waiting"]]
  /\ built = [r \in Runs |-> 0]
  /\ artifacts = [r \in Runs |-> {}]
  /\ reports = [r \in Runs |-> {}]
  /\ queue = [g \in Refs |-> <<>>]
  /\ step = [r \in Runs |-> "none"]
  /\ failed = [r \in Runs |-> FALSE]
  /\ report = [r \in Runs |-> "none"]
  /\ sent = [r \in Runs |-> FALSE]
  /\ version = Absent
  /\ puts = {}

BuildJob(r) == StartBuild(r) \/ UploadTarball(r) \/ UploadMetadata(r) \/ BuildFails(r)
SignJob(r)  == StartSign(r) \/ SkipSign(r) \/ SignSucceeds(r) \/ SignFails(r)
PublishJob(r) ==
  \/ EnqueuePublish(r) \/ StartPublish(r) \/ Provision(r) \/ Download(r)
  \/ PublishReturns(r) \/ FinalizeReport(r) \/ UploadReport(r)

JobStep(r) == BuildJob(r) \/ SignJob(r) \/ PublishJob(r)

Platform(r) == \/ Trigger(r) \/ CancelRun(r) \/ RerunFailed(r) \/ RerunAll(r)
               \/ RunnerLost(r)

Next ==
  \/ \E r \in Runs : JobStep(r) \/ SendPut(r) \/ Platform(r)
  \/ PutLands \/ PutRefused \/ OutsidePublish

Spec == Init /\ [][Next]_vars

\* Runners pick up jobs and every step ends (each command and job has a timeout).
FairSpec == Spec /\ \A r \in Runs : WF_vars(JobStep(r))

-----------------------------------------------------------------------------
(* Properties.                                                             *)

\* A report that says pass is true: the registry holds a publication of that run,
\* even when the job that uploaded it failed afterwards, was re-run, or raced with
\* another run of the same ref (npm-profile-publish, npm-profile-report).
PassReportIsTrue ==
  \A r \in Runs : \A n \in Attempts :
    <<n, "pass">> \in reports[r] => version.run = r

\* A run concludes successfully only with a passing report of its current attempt:
\* no skipped job, missing report or always() step makes it green without one.
SuccessHasReport ==
  \A r \in Runs :
    Complete(r) /\ (\A job \in Jobs : status[r][job] = "success")
      => <<attempt[r], "pass">> \in reports[r]

\* The mutation segments of one group never overlap, and a publish job that started
\* is never cancelled by a newer run (release-mutation group, queue: max).
SegmentsSerialized ==
  \A r \in Runs : Running(r, "publish") =>
    /\ \A q \in Rivals(r) : ~Running(q, "publish")
    /\ Head(queue[group[r]]) = r

\* Every run comes to a conclusion: newer runs may cancel its build and sign jobs,
\* but its publish job leaves the queue and reports (if: always(), queue: max).
RunCompletes == \A r \in Runs : attempt[r] > 0 ~> Complete(r)

\* A publish job whose needs succeeded finds their handoffs, also when it is re-run
\* alone (re-run failed jobs, ADR 0067).
RerunFindsHandoff ==
  \A r \in Runs : AtStep(r, "download")
    => Downloadable(r, "tarball") /\ Downloadable(r, "bundle")
=============================================================================
