------------------------- MODULE OutcomeReportProofs ------------------------
(***************************************************************************)
(* Theorems about WriteFileAtomic, which implements an atomic register for *)
(* any set of contents, and about the publish job whose commands persist   *)
(* their report through it: the report that is uploaded is the one the     *)
(* failing or publishing command persisted, and says pass only if Publish  *)
(* did.                                                                    *)
(***************************************************************************)
EXTENDS OutcomeReport, TLAPS

-----------------------------------------------------------------------------
(* WriteFileAtomic.                                                        *)

\* The file is complete and settled before the first write.
LEMMA InitFileInv == FileInit => FileInv
  BY TornAssumption
     DEF FileInit, InitFile, FileInv, FileTypeOK, AcknowledgedIsDurable, NoTemp, Phases, Written

\* Every call, failure, kill and power loss preserves the invariant.
LEMMA NextFileInv == FileInv /\ [FileNext]_fileVars => FileInv'
<1> SUFFICES ASSUME FileInv, [FileNext]_fileVars PROVE FileInv'
    OBVIOUS
<1> USE TornAssumption DEF FileInv, FileTypeOK, AcknowledgedIsDurable, NoTemp, Phases, Written
<1>1. CASE \E d \in Contents : BeginWrite(d)
      BY <1>1 DEF BeginWrite, Values
<1>2. CASE CreateTemp
      BY <1>2 DEF CreateTemp
<1>3. CASE WriteTemp
      BY <1>3 DEF WriteTemp
<1>4. CASE SyncTemp
      BY <1>4 DEF SyncTemp
<1>5. CASE CloseTemp
      BY <1>5 DEF CloseTemp
<1>6. CASE RenameTemp
      BY <1>6 DEF RenameTemp
<1>7. CASE SyncDirectory
      BY <1>7 DEF SyncDirectory
<1>8. CASE WriteFails
  <2>1. CASE temp' = temp
        BY <1>8, <2>1 DEF WriteFails
  <2>2. CASE temp' = NoTemp
        BY <1>8, <2>2 DEF WriteFails
  <2> QED BY <1>8, <2>1, <2>2 DEF WriteFails
<1>9. CASE Killed
      BY <1>9 DEF Killed
<1>10. CASE PowerLoss
      BY <1>10 DEF PowerLoss
<1>11. CASE UNCHANGED fileVars
      BY <1>11 DEF fileVars
<1> QED BY <1>1, <1>2, <1>3, <1>4, <1>5, <1>6, <1>7, <1>8, <1>9, <1>10, <1>11
        DEF FileNext, Syscall

\* FileInv is inductive.
THEOREM FileInvariance == FileSpec => []FileInv
  BY InitFileInv, NextFileInv, PTL DEF FileSpec

\* No reader ever finds a partly written file.
THEOREM NeverTorn == FileSpec => []TargetComplete
<1>1. FileInv => TargetComplete
      BY DEF FileInv, TargetComplete
<1> QED BY <1>1, FileInvariance, PTL

\* An acknowledged write survives a power loss.
THEOREM AcknowledgedStays == FileSpec => []AcknowledgedIsDurable
<1>1. FileInv => AcknowledgedIsDurable
      BY DEF FileInv
<1> QED BY <1>1, FileInvariance, PTL

\* A step of the writer is a step of the register, or none.
LEMMA StepRegister == FileInv /\ [FileNext]_fileVars => [Register!Next]_Register!registerVars
<1> SUFFICES ASSUME FileInv, [FileNext]_fileVars PROVE [Register!Next]_Register!registerVars
    OBVIOUS
<1> USE DEF Register!registerVars
<1>1. CASE \E d \in Contents : BeginWrite(d)
      BY <1>1 DEF BeginWrite, Values, Register!Next, Register!Invoke
<1>2. CASE CreateTemp \/ WriteTemp \/ SyncTemp \/ CloseTemp
      BY <1>2 DEF CreateTemp, WriteTemp, SyncTemp, CloseTemp
<1>3. CASE RenameTemp
      BY <1>3 DEF RenameTemp, FileInv, Written, Register!Next, Register!Apply
<1>4. CASE SyncDirectory
      BY <1>4 DEF SyncDirectory, FileInv, Register!Next, Register!Acknowledge
<1>5. CASE WriteFails \/ Killed
      BY <1>5 DEF WriteFails, Killed, Register!Next, Register!GiveUp
<1>6. CASE PowerLoss
      BY <1>6 DEF PowerLoss, Register!Next, Register!Lose
<1>7. CASE UNCHANGED fileVars
      BY <1>7 DEF fileVars
<1> QED BY <1>1, <1>2, <1>3, <1>4, <1>5, <1>6, <1>7 DEF FileNext, Syscall

\* WriteFileAtomic implements the atomic register.
THEOREM WriteFileAtomicRefines == FileSpec => ImplementsRegister
<1>1. FileInit => Register!Init
      BY DEF FileInit, InitFile, Register!Init
<1> QED BY <1>1, StepRegister, FileInvariance, PTL DEF FileSpec, ImplementsRegister, Register!Spec

-----------------------------------------------------------------------------
(* The commands call WriteFileAtomic as it is meant to be called.          *)

LEMMA StepOfFile == Next => [FileNext]_fileVars
<1> SUFFICES ASSUME Next PROVE [FileNext]_fileVars
    OBVIOUS
<1>1. CASE GuardReports \/ PublishReturns \/ ReadReport
      BY <1>1, ReportContents DEF GuardReports, PublishReturns, ReadReport, FileNext, Reports
<1>2. CASE Write
      BY <1>2 DEF Write, FileNext
<1>3. CASE GuardEnds \/ Download \/ PublishRejectsInputs \/ WriteReturned \/ WriteOutputs
             \/ PrintReport \/ Upload
      BY <1>3 DEF GuardEnds, Download, PublishRejectsInputs, WriteReturned, WriteOutputs,
                  PrintReport, Upload
<1>4. CASE Kill \/ RunnerLost
      BY <1>4 DEF Kill, RunnerLost, FileNext
<1> QED BY <1>1, <1>2, <1>3, <1>4 DEF Next, CommandStep

\* The file of the publish job is a file written by WriteFileAtomic.
THEOREM JobWritesAtomically == Spec => FileSpec
<1>1. Init => FileInit
      BY DEF Init, FileInit, Values
<1>2. [Next]_vars => [FileNext]_fileVars
      BY StepOfFile DEF vars
<1> QED BY <1>1, <1>2, PTL DEF Spec, FileSpec

-----------------------------------------------------------------------------
(* The inductive invariant of the publish job.                             *)

Early == Guards \cup {"download"}

\* What a publish that returned v reports.
Said(v) == IF v = "pass" THEN "pass" ELSE "publish-failure"

JobTypeOK ==
  /\ step \in Steps /\ at \in {"run", "writing", "outputs", "print"}
  /\ verdict \in {"none", "pass", "fail"} /\ output \in {"none", "pass", "fail"}
  /\ persisted \in Reports \cup {"none"} /\ uploaded \in Reports \cup {"none"}

\* WriteFileAtomic runs only where a command has called it with a report, and has
\* returned when it ends.
Positions ==
  /\ at = "writing" => step \in Guards \cup {"publish", "report"} /\ data \in Reports
  /\ at \in {"outputs", "print"} => step \in {"publish", "report"}
  /\ at # "writing" => phase = "idle"
  /\ at = "writing" /\ phase = "idle" => returned \in {"ok", "error"}

\* Nothing is known before publish, and step by step more of it while it runs.
Progress ==
  /\ step \in Early \cup {"publish"} => ~failed
  /\ step \in Early => verdict = "none" /\ output = "none" /\ persisted = "none"
  /\ step = "publish" =>
       /\ at = "run" => verdict = "none"
       /\ at # "run" => verdict # "none"
       /\ at \in {"run", "writing"} => persisted = "none"
       /\ at # "print" => output = "none"
       /\ at = "writing" => data = Said(verdict)
       /\ at \in {"outputs", "print"} => persisted = Said(verdict)
       /\ at = "print" => output = verdict

\* Nothing on the runner says pass unless Publish did.
PassIsPublish == "pass" \in onDisk \cup {target, data, uploaded} => verdict = "pass"

\* A persisted report is the file, whatever rewrites it.
FileIsPersisted ==
  persisted # "none" =>
    /\ target = persisted /\ onDisk = {persisted}
    /\ at = "writing" => data = persisted
    /\ uploaded # "none" => uploaded = persisted

\* The outputs agree with the report that was persisted before them.
OutputFollows == output # "none" => output = verdict /\ persisted = Said(verdict)

\* Without a failed step everything says pass.
Green ==
  ~failed =>
    /\ step \in {"report", "upload", "done"} => persisted = "pass" /\ output = "pass"
    /\ step = "done" => uploaded = "pass"

ReportInv ==
  /\ FileInv
  /\ JobTypeOK
  /\ Positions
  /\ Progress
  /\ PassIsPublish
  /\ FileIsPersisted
  /\ OutputFollows
  /\ Green
  /\ uploaded # "none" => step = "done"

\* The steps of the job, in their order.
LEMMA FollowingSteps ==
  /\ Following("provision-node") = "assert"
  /\ Following("assert") = "provision-npm"
  /\ Following("provision-npm") = "download"
  /\ Following("download") = "publish"
  /\ Following("publish") = "report"
  /\ Following("report") = "upload"
  /\ Following("upload") = "done"
<1>1. DOMAIN Order = 1..8
      BY DEF Order
<1> DEFINE place(s) == CHOOSE i \in DOMAIN Order : Order[i] = s
<1>2. ASSUME NEW n \in 1..8 PROVE place(Order[n]) = n
      BY <1>1 DEF Order
<1> QED BY <1>2 DEF Following, Order

LEMMA StepsOf == Steps = Early \cup {"publish", "report", "upload", "done"}
  BY DEF Steps, Order, Early, Guards

LEMMA InitReport == Init => ReportInv
<1> SUFFICES ASSUME Init PROVE ReportInv
    OBVIOUS
<1> USE NoReport, ReportContents DEF Init, InitFile
<1>1. FileInv
      BY InitFileInv DEF FileInit, Values
<1>2. JobTypeOK /\ Positions /\ Progress
      BY StepsOf DEF JobTypeOK, Positions, Progress, Early, Guards
<1>3. PassIsPublish /\ FileIsPersisted /\ OutputFollows /\ Green
      BY DEF PassIsPublish, FileIsPersisted, OutputFollows, Green, Reports
<1> QED BY <1>1, <1>2, <1>3 DEF ReportInv

\* What is on the path or may come back to it is a report, or nothing.
LEMMA FileKnown ==
  ReportInv => /\ target \in Reports \cup {Absent} /\ onDisk \subseteq Reports \cup {Absent}
               /\ target \in onDisk /\ data \in Reports \cup {Absent}
  BY ReportContents, TornAssumption DEF ReportInv, FileInv, FileTypeOK, Values

\* Before the upload a step of the job ends.
LEMMA NextReport == ReportInv /\ [Next]_vars => ReportInv'
<1> SUFFICES ASSUME ReportInv, [Next]_vars PROVE ReportInv'
    OBVIOUS
<1>0. FileInv'
      BY StepOfFile, NextFileInv DEF ReportInv, vars
<1>a. /\ JobTypeOK /\ Positions /\ Progress /\ PassIsPublish /\ FileIsPersisted
      /\ OutputFollows /\ Green /\ (uploaded # "none" => step = "done")
      BY DEF ReportInv
<1> DEFINE Goal == /\ JobTypeOK' /\ Positions' /\ Progress' /\ PassIsPublish' /\ FileIsPersisted'
                   /\ OutputFollows' /\ Green' /\ (uploaded' # "none" => step' = "done")
<1> USE <1>a, StepsOf, FollowingSteps
        DEF JobTypeOK, Positions, Progress, PassIsPublish, FileIsPersisted, OutputFollows, Green,
            Early, Guards, Always, Advance
<1>1. ASSUME GuardEnds PROVE Goal
      BY <1>1 DEF GuardEnds, fileVars
<1>2. ASSUME GuardReports PROVE Goal
      BY <1>2 DEF GuardReports, BeginWrite, Reports
<1>3. ASSUME Download PROVE Goal
      BY <1>3 DEF Download, fileVars
<1>4. ASSUME PublishRejectsInputs PROVE Goal
      BY <1>4 DEF PublishRejectsInputs, fileVars
<1>5. ASSUME PublishReturns PROVE Goal
      BY <1>5 DEF PublishReturns, BeginWrite, Said, Reports
<1>6. ASSUME ReadReport PROVE Goal
      BY <1>6, ReportContents DEF ReadReport, BeginWrite, Reports
<1>7. ASSUME Write PROVE Goal
  <2>1. UNCHANGED jobVars /\ (Syscall \/ WriteFails) /\ at = "writing" /\ data' = data
        BY <1>7 DEF Write, Syscall, WriteFails, CreateTemp, WriteTemp, SyncTemp, CloseTemp,
                    RenameTemp, SyncDirectory
  <2>2. /\ JobTypeOK' /\ Progress' /\ OutputFollows' /\ Green'
        /\ uploaded' # "none" => step' = "done"
        BY <2>1 DEF jobVars
  <2>3. Positions'
        BY <2>1 DEF jobVars, Syscall, WriteFails, CreateTemp, WriteTemp, SyncTemp, CloseTemp,
                    RenameTemp, SyncDirectory
  <2>4. /\ target' \in {target, data}
        /\ onDisk' \subseteq onDisk \cup {data}
        /\ onDisk' # onDisk => data \in onDisk'
        /\ target' \in onDisk'
    <3>1. phase = "rename" => temp.content = data /\ temp.synced
          BY DEF ReportInv, FileInv, Written
    <3>2. phase = "syncdir" => target = data
          BY DEF ReportInv, FileInv
    <3>3. target \in onDisk
          BY DEF ReportInv, FileInv
    <3> QED BY <2>1, <3>1, <3>2, <3>3 DEF Syscall, WriteFails, CreateTemp, WriteTemp, SyncTemp,
               CloseTemp, RenameTemp, SyncDirectory
  <2>5. PassIsPublish'
        BY <2>1, <2>4 DEF jobVars
  <2>6. FileIsPersisted'
        BY <2>1, <2>4 DEF jobVars
  <2> QED BY <2>2, <2>3, <2>5, <2>6
<1>8. ASSUME WriteReturned PROVE Goal
  <2>1. /\ at = "writing" /\ phase = "idle"
        /\ UNCHANGED <<target, onDisk, data, phase, returned, verdict, output, uploaded>>
        BY <1>8 DEF WriteReturned, fileVars
  <2>2. returned = "ok" => onDisk = {data} /\ target = data
        BY DEF ReportInv, FileInv, AcknowledgedIsDurable
  <2>3. CASE returned = "error"
    <3>1. persisted' = persisted
          BY <1>8, <2>3 DEF WriteReturned
    <3>2. Advance(FALSE) /\ uploaded = "none"
          BY <1>8, <2>3 DEF WriteReturned
    <3>3. at' = "run" /\ failed'
          BY <3>2
    <3>4. step' = IF step = "report" THEN "upload" ELSE "report"
          BY <2>1, <3>2
    <3> QED BY <2>1, <3>1, <3>2, <3>3, <3>4
  <2>4. CASE returned = "ok" /\ step \in Guards
    <3>1. /\ persisted' = data /\ step' = "report" /\ at' = "run" /\ failed'
          /\ output = "none" /\ uploaded = "none"
          BY <1>8, <2>4 DEF WriteReturned
    <3> QED BY <2>1, <2>2, <2>4, <3>1
  <2>5. CASE returned = "ok" /\ step = "publish"
        BY <1>8, <2>1, <2>2, <2>5 DEF WriteReturned
  <2>6. CASE returned = "ok" /\ step = "report"
    <3>1. persisted' = persisted /\ step' = step /\ at' = "outputs" /\ failed' = failed
          BY <1>8, <2>6 DEF WriteReturned
    <3> QED BY <2>1, <2>2, <2>6, <3>1
  <2> QED BY <2>1, <2>3, <2>4, <2>5, <2>6
<1>9. ASSUME WriteOutputs PROVE Goal
      BY <1>9 DEF WriteOutputs, fileVars
<1>10. ASSUME PrintReport PROVE Goal
      BY <1>10 DEF PrintReport, fileVars, Said
<1>11. ASSUME Kill PROVE Goal
      BY <1>11 DEF Kill, fileVars, Killed
<1>12. ASSUME RunnerLost PROVE Goal
      BY <1>12 DEF RunnerLost, PowerLoss
<1>13. ASSUME Upload PROVE Goal
      BY <1>13, FileKnown DEF Upload, fileVars
<1>14. ASSUME UNCHANGED vars PROVE Goal
      BY <1>14 DEF vars, fileVars, jobVars
<1> HIDE DEF Goal
<1>15. Goal
      BY <1>1, <1>2, <1>3, <1>4, <1>5, <1>6, <1>7, <1>8, <1>9, <1>10, <1>11, <1>12, <1>13, <1>14
         DEF Next, CommandStep
<1> QED BY <1>0, <1>15 DEF Goal, ReportInv

\* ReportInv is inductive.
THEOREM ReportInvariance == Spec => []ReportInv
  BY InitReport, NextReport, PTL DEF Spec

\* A report that says pass is whole, is Publish's and agrees with the job's outputs.
THEOREM ReportsHonest == Spec => []ReportIsHonest
<1>1. ReportInv => ReportIsHonest
  <2> SUFFICES ASSUME ReportInv PROVE ReportIsHonest
      OBVIOUS
  <2>1. uploaded # Torn
        BY NoReport, TornAssumption, ReportContents DEF ReportInv, JobTypeOK, Values
  <2>2. uploaded = "pass" => verdict = "pass"
        BY DEF ReportInv, PassIsPublish
  <2>3. output # "none" /\ uploaded # "none" => (output = "pass" <=> uploaded = "pass")
        BY DEF ReportInv, OutputFollows, FileIsPersisted, JobTypeOK, Said
  <2> QED BY <2>1, <2>2, <2>3 DEF ReportIsHonest
<1> QED BY <1>1, ReportInvariance, PTL

\* The diagnosis that was persisted is the one that is uploaded.
THEOREM DiagnosisKept == Spec => []DiagnosisSurvives
<1>1. ReportInv => DiagnosisSurvives
      BY DEF ReportInv, FileIsPersisted, DiagnosisSurvives
<1> QED BY <1>1, ReportInvariance, PTL

\* A green job has uploaded a passing report and has set its outputs.
THEOREM GreenJobHasReport == Spec => []GreenHasReport
<1>1. ReportInv => GreenHasReport
      BY DEF ReportInv, Green, GreenHasReport
<1> QED BY <1>1, ReportInvariance, PTL

\* The report file of the job is an atomic register, and what was acknowledged stays.
THEOREM ReportFileRefines == Spec => []AcknowledgedIsDurable /\ ImplementsRegister
  BY JobWritesAtomically, AcknowledgedStays, WriteFileAtomicRefines, PTL
=============================================================================
