---------------------------- MODULE OutcomeReport ---------------------------
(***************************************************************************)
(* The outcome report of one publish job: the commands that run on its     *)
(* runner one after another and persist a report through WriteFileAtomic,  *)
(* the always-run npm-profile-report that normalises it, and the upload.   *)
(*                                                                         *)
(* The steps are those of the publish job in js-ts-npm-package-slsa3.yml   *)
(* whose needs succeeded; the commands are npm-profile-provision-node,     *)
(* -toolchain-assert, -provision-npm, -publish and -report of              *)
(* internal/command.  Every command may be killed (step timeout,           *)
(* cancellation) between any two of its steps; the always() steps go on    *)
(* unless the runner itself is lost.                                       *)
(***************************************************************************)
EXTENDS AtomicFile, Naturals, Sequences

\* The reports that are written; Contents of the report file.
Reports == {"pass", "provision-failure", "publish-failure", "unavailable"}

ASSUME ReportContents == Contents = Reports
ASSUME NoReport == Absent \notin Reports /\ Torn # "none"   \* "none": nothing uploaded

Guards == {"provision-node", "assert", "provision-npm"}
Order  == <<"provision-node", "assert", "provision-npm", "download", "publish",
            "report", "upload", "done">>
Steps  == {Order[i] : i \in DOMAIN Order}

VARIABLES
  step,       \* the step of the job that is running
  at,         \* where its command is
  verdict,    \* what Publish returned
  output,     \* result among the outputs of the publish step
  persisted,  \* the last report a failing or publishing command persisted
  failed,     \* has a step failed?
  uploaded    \* the uploaded report

jobVars  == <<step, at, verdict, output, persisted, failed, uploaded>>
vars == <<fileVars, jobVars>>

-----------------------------------------------------------------------------
Following(s) == Order[(CHOOSE i \in DOMAIN Order : Order[i] = s) + 1]
Always == {"report", "upload"}

\* The step ends.  Once a step has failed only the always() steps still run.
Advance(ok) ==
  /\ step' = IF step \in Always \/ ok THEN Following(step) ELSE "report"
  /\ failed' = (failed \/ ~ok)
  /\ at' = "run"

\* A provisioning or assertion command passes, or fails before it has a report.
GuardEnds ==
  /\ step \in Guards /\ at = "run"
  /\ \E ok \in BOOLEAN : Advance(ok)
  /\ UNCHANGED <<fileVars, verdict, output, persisted, uploaded>>

\* A provisioning or assertion command fails with a diagnosis and persists it.
GuardReports ==
  /\ step \in Guards /\ at = "run"
  /\ BeginWrite("provision-failure")
  /\ at' = "writing"
  /\ UNCHANGED <<step, verdict, output, persisted, failed, uploaded>>

Download ==
  /\ step = "download"
  /\ \E ok \in BOOLEAN : Advance(ok)
  /\ UNCHANGED <<fileVars, verdict, output, persisted, uploaded>>

\* npm-profile-publish: flags or handoffs are rejected, nothing is reported.
PublishRejectsInputs ==
  /\ step = "publish" /\ at = "run"
  /\ Advance(FALSE)
  /\ UNCHANGED <<fileVars, verdict, output, persisted, uploaded>>

\* npm-profile-publish: Publish returned, its report is persisted.
PublishReturns ==
  /\ step = "publish" /\ at = "run"
  /\ verdict' \in {"pass", "fail"}
  /\ BeginWrite(IF verdict' = "pass" THEN "pass" ELSE "publish-failure")
  /\ at' = "writing"
  /\ UNCHANGED <<step, output, persisted, failed, uploaded>>

\* Mutant: after a failed step the report is replaced whatever it says.
ReadReportReplacing ==
  /\ step = "report" /\ at = "run"
  /\ BeginWrite(IF target \in Contents /\ ~failed THEN target ELSE "unavailable")
  /\ at' = "writing"
  /\ UNCHANGED <<step, verdict, output, persisted, failed, uploaded>>

\* npm-profile-report: the report is read and written again; one that is missing or
\* invalid becomes an input-unavailable report.
ReadReport ==
  /\ step = "report" /\ at = "run"
  /\ BeginWrite(IF target \in Contents THEN target ELSE "unavailable")
  /\ at' = "writing"
  /\ UNCHANGED <<step, verdict, output, persisted, failed, uploaded>>

\* Mutant: the report is overwritten in place.
WriteInPlace ==
  /\ at = "writing" /\ phase # "idle"
  /\ \/ phase = "create" /\ target' = Torn /\ phase' = "write" /\ UNCHANGED returned
     \/ phase = "write" /\ target' = data /\ phase' = "idle" /\ returned' = "ok"
  /\ UNCHANGED <<onDisk, temp, data, jobVars>>

\* WriteFileAtomic, one call after another, any of which may fail.
Write ==
  /\ at = "writing"
  /\ Syscall \/ WriteFails
  /\ UNCHANGED jobVars

\* WriteFileAtomic returned: publish and report go on unless it failed, the other
\* commands fail in any case.
WriteReturned ==
  /\ at = "writing" /\ phase = "idle"
  /\ persisted' = IF step # "report" /\ returned = "ok" THEN data ELSE persisted
  /\ IF step \in Guards \/ returned = "error"
     THEN Advance(FALSE)
     ELSE at' = "outputs" /\ UNCHANGED <<step, failed>>
  /\ UNCHANGED <<fileVars, verdict, output, uploaded>>

\* WriteGitHubOutputs appends the outputs in one write; it fails before the write
\* or, closing the file, after it.
WriteOutputs ==
  /\ at = "outputs"
  /\ \E wrote, ok \in BOOLEAN :
       /\ ok => wrote
       /\ output' = IF wrote /\ step = "publish" THEN verdict ELSE output
       /\ IF ok THEN at' = "print" /\ UNCHANGED <<step, failed>> ELSE Advance(FALSE)
  /\ UNCHANGED <<fileVars, verdict, persisted, uploaded>>

\* Mutant: the publish step succeeds once its report is printed.
PrintReportAlwaysOk ==
  /\ at = "print"
  /\ Advance(TRUE)
  /\ UNCHANGED <<fileVars, verdict, output, persisted, uploaded>>

\* WriteReport prints the report; publish then fails unless Publish succeeded.
PrintReport ==
  /\ at = "print"
  /\ \E printed \in BOOLEAN : Advance(printed /\ (step = "publish" => verdict = "pass"))
  /\ UNCHANGED <<fileVars, verdict, output, persisted, uploaded>>

\* The command is killed wherever it is.
Kill ==
  /\ step \notin {"upload", "done"}
  /\ IF phase = "idle" THEN UNCHANGED fileVars ELSE Killed
  /\ Advance(FALSE)
  /\ UNCHANGED <<verdict, output, persisted, uploaded>>

\* The runner loses power: no always() step runs any more.
RunnerLost ==
  /\ step # "done"
  /\ PowerLoss
  /\ step' = "done" /\ at' = "run" /\ failed' = TRUE
  /\ UNCHANGED <<verdict, output, persisted, uploaded>>

\* The artifact upload: if-no-files-found is an error.
Upload ==
  /\ step = "upload"
  /\ \E ok \in BOOLEAN :
       /\ ok => target # Absent
       /\ uploaded' = IF ok THEN target ELSE uploaded
       /\ Advance(ok)
  /\ UNCHANGED <<fileVars, verdict, output, persisted>>

Init ==
  /\ InitFile(Absent)
  /\ step = "provision-node" /\ at = "run"
  /\ verdict = "none" /\ output = "none" /\ persisted = "none"
  /\ failed = FALSE /\ uploaded = "none"

CommandStep ==
  \/ GuardEnds \/ GuardReports \/ Download \/ PublishRejectsInputs \/ PublishReturns
  \/ ReadReport \/ Write \/ WriteReturned \/ WriteOutputs \/ PrintReport \/ Upload

Next == CommandStep \/ Kill \/ RunnerLost

Spec == Init /\ [][Next]_vars

-----------------------------------------------------------------------------
(* Properties.                                                             *)

\* An uploaded report is a whole report, it says pass only if Publish did, and the outputs of
\* the publish step, which are written separately, do not contradict it: no kill, failed
\* write or missing file turns into success.
ReportIsHonest ==
  /\ uploaded # Torn
  /\ uploaded = "pass" => verdict = "pass"
  /\ output # "none" /\ uploaded # "none" => (output = "pass" <=> uploaded = "pass")

\* The diagnosis a command persisted is the one that is uploaded: the always-run
\* npm-profile-report keeps it although it rewrites the file.
DiagnosisSurvives ==
  persisted # "none" /\ uploaded # "none" => uploaded = persisted

\* A job without a failed step has uploaded a passing report and has set its outputs.
GreenHasReport ==
  step = "done" /\ ~failed => uploaded = "pass" /\ output = "pass"
=============================================================================
