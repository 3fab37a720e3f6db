------------------------ MODULE ReleasePipelineProofs ------------------------
(***************************************************************************)
(* Theorems about ReleasePipeline, for every set of runs and refs, every   *)
(* assignment of refs to runs and every bound on re-run attempts.          *)
(*                                                                         *)
(* The inductive invariant follows a publish job through its life.  It     *)
(* enters its group's queue once its needs are done and stays in it until  *)
(* it has concluded, first in it while it runs (QueueInv); needs that are  *)
(* done never change again before the next attempt (NeedsSettled); a green *)
(* job that published carries a passing report (GreenInv); and a passing   *)
(* report, on the runner or uploaded, was written over the version the     *)
(* registry holds (PassInv), which never changes once it is there.         *)
(***************************************************************************)
EXTENDS ReleasePipeline, SequenceTheorems, TLAPS

\* A queued publish job is queued once, in its own group, is triggered, has its
\* needs done and has not concluded; a running one is the first of its queue.
QueuedOnce ==
  \A g \in Refs : \A i, j \in 1..Len(queue[g]) : queue[g][i] = queue[g][j] => i = j

Queued ==
  \A g \in Refs : \A i \in 1..Len(queue[g]) : \A r \in Runs : queue[g][i] = r =>
    /\ group[r] = g
    /\ attempt[r] > 0
    /\ status[r].publish \in {"waiting", "running"}
    /\ NeedsDone(r, "publish")

RunningFirst ==
  \A r \in Runs : Running(r, "publish") =>
    queue[group[r]] # <<>> /\ Head(queue[group[r]]) = r

QueueInv == QueuedOnce /\ Queued /\ RunningFirst

\* Until the run is triggered, every job of it waits.
Triggered ==
  \A r \in Runs : attempt[r] = 0 => \A job \in Jobs : status[r][job] = "waiting"

\* A publish job past waiting has its needs done.
NeedsSettled ==
  \A r \in Runs : status[r].publish # "waiting" => NeedsDone(r, "publish")

\* A publish job whose needs succeeded and none of whose steps failed has a passing
\* report, on its runner before it concludes and uploaded when it has succeeded.
GreenInv ==
  \A r \in Runs : NeedsMet(r, "publish") =>
    /\ Running(r, "publish") /\ step[r] \in {"report", "upload"} /\ ~failed[r]
         => report[r] = "pass"
    /\ status[r].publish = "success" => <<attempt[r], "pass">> \in reports[r]

\* A passing report names the version the registry holds.
PassInv ==
  \A r \in Runs :
    /\ report[r] = "pass" => version.run = r
    /\ \A n \in Attempts : <<n, "pass">> \in reports[r] => version.run = r

IInv == TypeOK /\ Triggered /\ QueueInv /\ NeedsSettled /\ GreenInv /\ PassInv

-----------------------------------------------------------------------------
(* Types.                                                                  *)

\* Every attempt of a run that is explored is an attempt.
LEMMA AttemptsOf == \A r \in Runs : \A n \in 1..MaxAttempts[r] : n \in Attempts
  BY DEF Attempts

LEMMA AttemptsNat == \A n \in Attempts : n \in Nat \ {0}
  BY AttemptBound DEF Attempts

\* Setting one job's status keeps the type of every status.
LEMMA SetStatusType ==
  ASSUME TypeOK, NEW r \in Runs, NEW job \in Jobs, NEW s \in Status, SetStatus(r, job, s)
  PROVE  status' \in [Runs -> [Jobs -> Status]]
  BY DEF TypeOK, SetStatus

LEMMA EnterCancellingType ==
  ASSUME TypeOK, NEW r \in Runs, NEW job \in Jobs, EnterCancelling(r, job)
  PROVE  status' \in [Runs -> [Jobs -> Status]]
<1>1. [status[r] EXCEPT ![job] = "running"] \in [Jobs -> Status]
      BY DEF TypeOK, Status
<1>2. \A q \in Runs : [status[q] EXCEPT ![job] = "cancelled"] \in [Jobs -> Status]
      BY DEF TypeOK, Status, Final
<1> QED BY <1>1, <1>2 DEF TypeOK, EnterCancelling

\* Leaving the publish job keeps the types of all it resets.
LEMMA LeavePublishType ==
  ASSUME TypeOK, NEW r \in Runs, NEW s \in Final, LeavePublish(r, s),
         queue[group[r]] # <<>>
  PROVE  /\ status' \in [Runs -> [Jobs -> Status]]
         /\ step' \in [Runs -> Steps]
         /\ failed' \in [Runs -> BOOLEAN]
         /\ report' \in [Runs -> {"none", "pass", "fail"}]
         /\ sent' \in [Runs -> BOOLEAN]
         /\ queue' \in [Refs -> Seq(Runs)]
<1>1. status' \in [Runs -> [Jobs -> Status]]
      BY SetStatusType DEF LeavePublish, Jobs, Status
<1>2. group[r] \in Refs
      BY GroupingsTotal DEF TypeOK
<1>3. Tail(queue[group[r]]) \in Seq(Runs)
      BY <1>2, HeadTailProperties DEF TypeOK
<1> QED BY <1>1, <1>2, <1>3 DEF TypeOK, LeavePublish, Steps

\* A step of the publish job that ends keeps the types.
LEMMA StepEndsType ==
  ASSUME TypeOK, NEW r \in Runs, NEW ok \in BOOLEAN, NEW next \in Steps,
         StepEnds(r, ok, next)
  PROVE  step' \in [Runs -> Steps] /\ failed' \in [Runs -> BOOLEAN]
<1>1. step' \in [Runs -> Steps]
      BY DEF TypeOK, StepEnds, Steps
<1>2. failed' \in [Runs -> BOOLEAN]
      BY DEF TypeOK, StepEnds
<1> QED BY <1>1, <1>2

\* Every step of a build or sign job keeps the types.
LEMMA BuildSignType ==
  ASSUME TypeOK, Triggered, NEW r \in Runs, BuildJob(r) \/ SignJob(r)
  PROVE  TypeOK'
<1> USE DEF publishVars, registryVars, Jobs, Status, Final
<1>a. Running(r, "build") \/ Running(r, "sign") => attempt[r] \in Attempts
      BY DEF TypeOK, Triggered, Running
<1>b. \A a \in {"tarball", "metadata", "bundle"} : attempt[r] \in Attempts =>
        [artifacts EXCEPT ![r] = @ \cup {<<a, attempt[r]>>}]
          \in [Runs -> SUBSET ({"tarball", "metadata", "bundle"} \X Attempts)]
      BY DEF TypeOK
<1>1. CASE StartBuild(r)
      BY <1>1, EnterCancellingType DEF StartBuild, TypeOK
<1>2. CASE UploadTarball(r)
      BY <1>2, <1>a, <1>b DEF UploadTarball, TypeOK
<1>3. CASE UploadMetadata(r)
  <2>1. status' \in [Runs -> [Jobs -> Status]]
        BY <1>3, SetStatusType DEF UploadMetadata
  <2> QED BY <1>3, <2>1, <1>a, <1>b DEF UploadMetadata, TypeOK
<1>4. CASE BuildFails(r)
      BY <1>4, SetStatusType DEF BuildFails, TypeOK
<1>5. CASE StartSign(r)
      BY <1>5, EnterCancellingType DEF StartSign, TypeOK
<1>6. CASE SkipSign(r)
      BY <1>6, SetStatusType DEF SkipSign, TypeOK
<1>7. CASE SignSucceeds(r)
  <2>1. status' \in [Runs -> [Jobs -> Status]]
        BY <1>7, SetStatusType DEF SignSucceeds
  <2> QED BY <1>7, <2>1, <1>a, <1>b DEF SignSucceeds, TypeOK
<1>8. CASE SignFails(r)
      BY <1>8, SetStatusType DEF SignFails, TypeOK
<1> QED BY <1>1, <1>2, <1>3, <1>4, <1>5, <1>6, <1>7, <1>8 DEF BuildJob, SignJob

\* Every step of a publish job keeps the types.
LEMMA PublishType ==
  ASSUME TypeOK, Triggered, RunningFirst, NEW r \in Runs,
         PublishJob(r) \/ SendPut(r) \/ RunnerLost(r)
  PROVE  TypeOK'
<1> USE DEF runVars, registryVars, AtStep
<1>a. Running(r, "publish") =>
        queue[group[r]] # <<>> /\ attempt[r] \in Attempts
      BY DEF TypeOK, Triggered, RunningFirst, Running, Jobs
<1>b. group[r] \in Refs
      BY GroupingsTotal DEF TypeOK
<1>1. CASE EnqueuePublish(r)
  <2>1. Append(queue[group[r]], r) \in Seq(Runs)
        BY <1>b, AppendProperties DEF TypeOK
  <2> QED BY <1>1, <1>b, <2>1 DEF EnqueuePublish, TypeOK
<1>2. CASE StartPublish(r)
  <2>1. status' \in [Runs -> [Jobs -> Status]]
        BY <1>2, SetStatusType DEF StartPublish, Jobs, Status
  <2> QED BY <1>2, <2>1 DEF StartPublish, TypeOK, Steps
<1>3. CASE Provision(r)
  <2>1. \E ok \in BOOLEAN : StepEnds(r, ok, "download")
        BY <1>3 DEF Provision
  <2>2. step' \in [Runs -> Steps] /\ failed' \in [Runs -> BOOLEAN]
        BY <2>1, StepEndsType DEF Steps
  <2>3. report' = report \/ report' = [report EXCEPT ![r] = "fail"]
        BY <1>3 DEF Provision
  <2> QED BY <1>3, <2>2, <2>3 DEF Provision, TypeOK
<1>4. CASE Download(r)
  <2>1. \E ok \in BOOLEAN : StepEnds(r, ok, "publish")
        BY <1>4 DEF Download
  <2>2. step' \in [Runs -> Steps] /\ failed' \in [Runs -> BOOLEAN]
        BY <2>1, StepEndsType DEF Steps
  <2> QED BY <1>4, <2>2 DEF Download, TypeOK
<1>5. CASE PublishReturns(r)
  <2>1. \E ok \in BOOLEAN : StepEnds(r, ok, "report")
        BY <1>5 DEF PublishReturns
  <2>2. step' \in [Runs -> Steps] /\ failed' \in [Runs -> BOOLEAN]
        BY <2>1, StepEndsType DEF Steps
  <2>3. report' = report \/ \E v \in {"pass", "fail"} : report' = [report EXCEPT ![r] = v]
        BY <1>5 DEF PublishReturns
  <2> QED BY <1>5, <2>2, <2>3 DEF PublishReturns, TypeOK
<1>6. CASE FinalizeReport(r)
  <2>1. step' \in [Runs -> Steps]
        BY <1>6 DEF FinalizeReport, TypeOK, Steps
  <2>2. report' \in [Runs -> {"none", "pass", "fail"}] /\ failed' \in [Runs -> BOOLEAN]
        BY <1>6 DEF FinalizeReport, TypeOK
  <2> QED BY <1>6, <2>1, <2>2 DEF FinalizeReport, TypeOK
<1>7. CASE UploadReport(r)
  <2>1. \E s \in Final : LeavePublish(r, s)
        BY <1>7 DEF UploadReport, Final
  <2>2. reports' \in [Runs -> SUBSET (Attempts \X {"pass", "fail"})]
        BY <1>7, <1>a DEF UploadReport, TypeOK
  <2> QED BY <1>7, <1>a, <2>1, <2>2, LeavePublishType DEF UploadReport, TypeOK
<1>8. CASE SendPut(r)
  <2>1. [run |-> r, build |-> built[r]] \in Versions
        BY DEF TypeOK, Versions
  <2> QED BY <1>8, <2>1 DEF SendPut, TypeOK
<1>9. CASE RunnerLost(r)
      BY <1>9, <1>a, LeavePublishType DEF RunnerLost, TypeOK, Final
<1> QED BY <1>1, <1>2, <1>3, <1>4, <1>5, <1>6, <1>7, <1>8, <1>9 DEF PublishJob

\* Every step of GitHub Actions and of the registry keeps the types.
LEMMA PlatformType ==
  ASSUME TypeOK, NEW r \in Runs,
         \/ Trigger(r) \/ CancelRun(r) \/ RerunFailed(r) \/ RerunAll(r)
         \/ PutLands \/ PutRefused \/ OutsidePublish
  PROVE  TypeOK'
<1> USE DEF runVars, publishVars, registryVars
<1>1. CASE Trigger(r)
  <2>1. 1 \in Attempts
        BY AttemptBound, AttemptsOf
  <2> QED BY <1>1, <2>1 DEF Trigger, TypeOK
<1>2. CASE CancelRun(r)
      BY <1>2 DEF CancelRun, TypeOK, Status, Final
<1>3. ASSUME NEW reset, NewAttempt(r, reset) PROVE TypeOK'
  <2>1. attempt[r] + 1 \in Attempts
    <3>a. attempt[r] \in {0} \cup Attempts
          BY DEF TypeOK
    <3>b. attempt[r] \in Nat
          BY <3>a, AttemptsNat
    <3>c. MaxAttempts[r] \in Nat \ {0}
          BY AttemptBound
    <3>1. attempt[r] \in Nat /\ MaxAttempts[r] \in Nat
          BY <3>b, <3>c
    <3>2. attempt[r] + 1 \in 1..MaxAttempts[r]
          BY <3>1, <1>3 DEF NewAttempt
    <3> QED BY <3>2, AttemptsOf
  <2> QED BY <1>3, <2>1 DEF NewAttempt, TypeOK, Status
<1>4. CASE RerunFailed(r) \/ RerunAll(r)
      BY <1>3, <1>4 DEF RerunFailed, RerunAll
<1>5. CASE PutLands
      BY <1>5 DEF PutLands, TypeOK
<1>6. CASE PutRefused
      BY <1>6 DEF PutRefused, TypeOK
<1>7. CASE OutsidePublish
      BY <1>7 DEF OutsidePublish, TypeOK, Versions
<1> QED BY <1>1, <1>2, <1>4, <1>5, <1>6, <1>7

-----------------------------------------------------------------------------
(* The builders' jobs leave the publish jobs alone.                        *)

\* No publish job moves, no finished job changes its conclusion, and nothing the
\* publish jobs read or write is touched.
PublishLeftAlone ==
  /\ UNCHANGED <<group, attempt, reports, publishVars, version>>
  /\ \A q \in Runs :
       /\ status'[q].publish = status[q].publish
       /\ \A job \in {"build", "sign"} :
            status[q][job] \in Final => status'[q][job] = status[q][job]

LEMMA SetStatusLeaves ==
  ASSUME TypeOK, NEW r \in Runs, NEW job \in {"build", "sign"}, NEW s,
         SetStatus(r, job, s), status[r][job] \notin Final
  PROVE  \A q \in Runs :
           /\ status'[q].publish = status[q].publish
           /\ \A j \in {"build", "sign"} :
                status[q][j] \in Final => status'[q][j] = status[q][j]
  BY DEF TypeOK, SetStatus, Jobs

LEMMA EnterCancellingLeaves ==
  ASSUME TypeOK, NEW r \in Runs, NEW job \in {"build", "sign"},
         EnterCancelling(r, job), status[r][job] = "waiting"
  PROVE  \A q \in Runs :
           /\ status'[q].publish = status[q].publish
           /\ \A j \in {"build", "sign"} :
                status[q][j] \in Final => status'[q][j] = status[q][j]
<1> SUFFICES ASSUME NEW q \in Runs
             PROVE  /\ status'[q].publish = status[q].publish
                    /\ \A j \in {"build", "sign"} :
                         status[q][j] \in Final => status'[q][j] = status[q][j]
    OBVIOUS
<1>0. status[q] \in [Jobs -> Status]
      BY DEF TypeOK
<1>1. CASE q = r
      BY <1>0, <1>1 DEF EnterCancelling, Jobs, Final
<1>2. CASE q # r /\ q \in Rivals(r) /\ Running(q, job)
      BY <1>0, <1>2 DEF EnterCancelling, Jobs, Final, Running
<1>3. CASE q # r /\ ~(q \in Rivals(r) /\ Running(q, job))
      BY <1>3 DEF EnterCancelling
<1> QED BY <1>1, <1>2, <1>3

LEMMA BuildersLeave ==
  ASSUME TypeOK, NEW r \in Runs, BuildJob(r) \/ SignJob(r) \/ CancelRun(r)
  PROVE  PublishLeftAlone
<1> USE DEF PublishLeftAlone, registryVars
<1>1. CASE StartBuild(r)
      BY <1>1, EnterCancellingLeaves DEF StartBuild
<1>2. CASE UploadTarball(r)
      BY <1>2 DEF UploadTarball
<1>3. CASE UploadMetadata(r)
      BY <1>3, SetStatusLeaves DEF UploadMetadata, Running, Final
<1>4. CASE BuildFails(r)
      BY <1>4, SetStatusLeaves DEF BuildFails, Running, Final
<1>5. CASE StartSign(r)
      BY <1>5, EnterCancellingLeaves DEF StartSign
<1>6. CASE SkipSign(r)
      BY <1>6, SetStatusLeaves DEF SkipSign, Final
<1>7. CASE SignSucceeds(r)
      BY <1>7, SetStatusLeaves DEF SignSucceeds, Running, Final
<1>8. CASE SignFails(r)
      BY <1>8, SetStatusLeaves DEF SignFails, Running, Final
<1>9. CASE CancelRun(r)
      BY <1>9 DEF CancelRun, TypeOK, Jobs
<1> QED BY <1>1, <1>2, <1>3, <1>4, <1>5, <1>6, <1>7, <1>8, <1>9 DEF BuildJob, SignJob

\* Such a step keeps every part of the invariant but the types.
LEMMA LeftAloneKeeps ==
  ASSUME IInv, PublishLeftAlone
  PROVE  QueueInv' /\ NeedsSettled' /\ GreenInv' /\ PassInv'
<1> USE DEF PublishLeftAlone, publishVars, Running
<1>1. \A q \in Runs : NeedsDone(q, "publish") =>
        /\ NeedsDone(q, "publish")'
        /\ NeedsMet(q, "publish")' <=> NeedsMet(q, "publish")
      BY DEF NeedsDone, NeedsMet, Needs, Final
<1>2. QueuedOnce'
      BY DEF IInv, QueueInv, QueuedOnce
<1>3. Queued'
      BY <1>1 DEF IInv, QueueInv, Queued
<1>4. RunningFirst'
      BY DEF IInv, QueueInv, RunningFirst
<1>5. NeedsSettled'
      BY <1>1 DEF IInv, NeedsSettled
<1>6. GreenInv'
      BY <1>1 DEF IInv, NeedsSettled, GreenInv
<1>7. PassInv'
      BY DEF IInv, PassInv
<1> QED BY <1>2, <1>3, <1>4, <1>5, <1>6, <1>7 DEF QueueInv

-----------------------------------------------------------------------------
(* Steps of the publish jobs.                                              *)

LEMMA EnqueueKeeps ==
  ASSUME IInv, NEW r \in Runs, EnqueuePublish(r)
  PROVE  QueueInv' /\ NeedsSettled' /\ GreenInv' /\ PassInv'
<1> DEFINE g == group[r]
           old == queue[g]
           new == Append(old, r)
<1> USE DEF EnqueuePublish, runVars, registryVars
<1>1. g \in Refs /\ old \in Seq(Runs)
      BY GroupingsTotal DEF IInv, TypeOK
<1>2. /\ new \in Seq(Runs) /\ new # <<>>
      /\ Len(old) \in Nat /\ Len(new) = Len(old) + 1
      /\ \A i \in 1..Len(old) : new[i] = old[i]
      /\ new[Len(old) + 1] = r
      BY <1>1, AppendProperties, LenProperties
<1>3. \A h \in Refs : queue'[h] = IF h = g THEN new ELSE queue[h]
      BY <1>1 DEF IInv, TypeOK
<1>4. \A i \in 1..Len(old) : old[i] # r
      BY DEF Contains
<1>5. QueuedOnce'
  <2> SUFFICES ASSUME NEW h \in Refs,
                      NEW i \in 1..Len(queue'[h]), NEW j \in 1..Len(queue'[h]),
                      queue'[h][i] = queue'[h][j]
               PROVE  i = j
      BY DEF QueuedOnce
  <2>1. CASE h # g
        BY <1>3, <2>1 DEF IInv, QueueInv, QueuedOnce
  <2>2. CASE h = g
    <3>1. i \in 1..Len(new) /\ j \in 1..Len(new) /\ new[i] = new[j]
          BY <1>3, <2>2
    <3>2. CASE i \in 1..Len(old) /\ j \in 1..Len(old)
      <4>1. old[i] = old[j]
            BY <1>2, <3>1, <3>2
      <4> QED BY <1>1, <3>2, <4>1 DEF IInv, QueueInv, QueuedOnce
    <3>3. CASE i = Len(old) + 1 /\ j \in 1..Len(old)
          BY <1>2, <1>4, <3>1, <3>3
    <3>4. CASE i \in 1..Len(old) /\ j = Len(old) + 1
          BY <1>2, <1>4, <3>1, <3>4
    <3> QED BY <1>2, <3>1, <3>2, <3>3, <3>4
  <2> QED BY <2>1, <2>2
<1>6. Queued'
  <2> SUFFICES ASSUME NEW h \in Refs, NEW i \in 1..Len(queue'[h]),
                      NEW q \in Runs, queue'[h][i] = q
               PROVE  /\ group[q] = h
                      /\ attempt[q] > 0
                      /\ status[q].publish \in {"waiting", "running"}
                      /\ NeedsDone(q, "publish")
      BY DEF Queued, NeedsDone
  <2>1. CASE h # g
        BY <1>3, <2>1 DEF IInv, QueueInv, Queued
  <2>2. CASE h = g
    <3>1. i \in 1..Len(new) /\ new[i] = q
          BY <1>3, <2>2
    <3>2. CASE i \in 1..Len(old)
      <4>1. old[i] = q
            BY <1>2, <3>1, <3>2
      <4> QED BY <1>1, <2>2, <3>2, <4>1 DEF IInv, QueueInv, Queued
    <3>3. CASE i = Len(old) + 1
          BY <1>2, <2>2, <3>1, <3>3
    <3> QED BY <1>2, <3>1, <3>2, <3>3
  <2> QED BY <2>1, <2>2
<1>7. RunningFirst'
  <2> SUFFICES ASSUME NEW q \in Runs, Running(q, "publish")
               PROVE  queue'[group[q]] # <<>> /\ Head(queue'[group[q]]) = q
      BY DEF RunningFirst, Running
  <2>1. queue[group[q]] # <<>> /\ Head(queue[group[q]]) = q /\ group[q] \in Refs
        BY GroupingsTotal DEF IInv, TypeOK, QueueInv, RunningFirst
  <2>2. CASE group[q] # g
        BY <1>3, <2>1, <2>2
  <2>3. CASE group[q] = g
    <3>1. Head(new) = Head(old)
          BY <1>1, <2>1, <2>3, HeadTailAppend
    <3> QED BY <1>2, <1>3, <2>1, <2>3, <3>1
  <2> QED BY <2>2, <2>3
<1>8. NeedsSettled'
      BY DEF IInv, NeedsSettled, NeedsDone
<1>9. GreenInv'
      BY DEF IInv, GreenInv, NeedsMet, Running
<1>10. PassInv'
      BY DEF IInv, PassInv
<1> QED BY <1>5, <1>6, <1>7, <1>8, <1>9, <1>10 DEF QueueInv

\* The first job of a queue is queued.
LEMMA HeadQueued ==
  ASSUME IInv, NEW r \in Runs, queue[group[r]] # <<>>, Head(queue[group[r]]) = r
  PROVE  /\ attempt[r] > 0
         /\ status[r].publish \in {"waiting", "running"}
         /\ NeedsDone(r, "publish")
<1>1. group[r] \in Refs /\ queue[group[r]] \in Seq(Runs)
      BY GroupingsTotal DEF IInv, TypeOK
<1>2. 1 \in 1..Len(queue[group[r]]) /\ queue[group[r]][1] = r
      BY <1>1, EmptySeq
<1> QED BY <1>1, <1>2 DEF IInv, QueueInv, Queued

LEMMA StartPublishKeeps ==
  ASSUME IInv, NEW r \in Runs, StartPublish(r)
  PROVE  QueueInv' /\ NeedsSettled' /\ GreenInv' /\ PassInv'
<1> USE DEF StartPublish, registryVars, Running
<1>1. /\ \A q \in Runs : \A job \in {"build", "sign"} : status'[q][job] = status[q][job]
      /\ \A q \in Runs \ {r} : status'[q].publish = status[q].publish
      /\ status'[r].publish = "running"
      BY DEF IInv, TypeOK, SetStatus, Jobs
<1>2. \A n \in Needs["publish"] : \A q \in Runs : status'[q][n] = status[q][n]
      BY <1>1 DEF Needs
<1>3. NeedsDone(r, "publish")
      BY HeadQueued
<1>4. QueuedOnce'
      BY DEF IInv, QueueInv, QueuedOnce
<1>5. Queued'
      BY <1>1, <1>2 DEF IInv, QueueInv, Queued, NeedsDone
<1>6. RunningFirst'
      BY <1>1 DEF IInv, QueueInv, RunningFirst
<1>7. NeedsSettled'
      BY <1>1, <1>2, <1>3 DEF IInv, NeedsSettled, NeedsDone
<1>8. GreenInv'
  <2> SUFFICES ASSUME NEW q \in Runs, NeedsMet(q, "publish")'
               PROVE  /\ Running(q, "publish")' /\ step'[q] \in {"report", "upload"} /\ ~failed'[q]
                           => report'[q] = "pass"
                      /\ status'[q].publish = "success" => <<attempt'[q], "pass">> \in reports'[q]
      BY DEF GreenInv
  <2>1. CASE q = r
    <3>1. NeedsMet(r, "publish")
          BY <1>2, <2>1 DEF NeedsMet
    <3>2. step'[r] = "provision"
          BY <3>1 DEF IInv, TypeOK
    <3> QED BY <1>1, <2>1, <3>2
  <2>2. CASE q # r
    <3>1. step'[q] = step[q] /\ status'[q].publish = status[q].publish
          BY <1>1, <2>2 DEF IInv, TypeOK
    <3>2. NeedsMet(q, "publish")
          BY <1>2 DEF NeedsMet
    <3> QED BY <3>1, <3>2 DEF IInv, GreenInv
  <2> QED BY <2>1, <2>2
<1>9. PassInv'
      BY DEF IInv, PassInv
<1> QED BY <1>4, <1>5, <1>6, <1>7, <1>8, <1>9 DEF QueueInv

\* A step inside r's publish job keeps the invariant when a report that says pass
\* was there or is true, and a job that has come to its report steps has one.
LEMMA InnerKeeps ==
  ASSUME IInv, NEW r \in Runs, UNCHANGED <<runVars, queue, version>>,
         \A q \in Runs \ {r} :
           step'[q] = step[q] /\ failed'[q] = failed[q] /\ report'[q] = report[q],
         report'[r] = "pass" => report[r] = "pass" \/ version.run = r,
         NeedsMet(r, "publish") /\ step'[r] \in {"report", "upload"} /\ ~failed'[r]
           => report'[r] = "pass"
  PROVE  QueueInv' /\ NeedsSettled' /\ GreenInv' /\ PassInv'
<1> USE DEF runVars, Running
<1>1. QueueInv'
      BY DEF IInv, QueueInv, QueuedOnce, Queued, RunningFirst, NeedsDone
<1>2. NeedsSettled'
      BY DEF IInv, NeedsSettled, NeedsDone
<1>3. GreenInv'
  <2> SUFFICES ASSUME NEW q \in Runs, NeedsMet(q, "publish")
               PROVE  /\ Running(q, "publish") /\ step'[q] \in {"report", "upload"} /\ ~failed'[q]
                           => report'[q] = "pass"
                      /\ status[q].publish = "success" => <<attempt[q], "pass">> \in reports[q]
      BY DEF GreenInv, NeedsMet
  <2> QED BY DEF IInv, GreenInv
<1>4. PassInv'
      BY DEF IInv, PassInv
<1> QED BY <1>1, <1>2, <1>3, <1>4

\* What ends a step of r leaves the other publish jobs alone, and marks a failure.
LEMMA StepEndsEffect ==
  ASSUME IInv, NEW r \in Runs, NEW ok \in BOOLEAN, NEW next, StepEnds(r, ok, next)
  PROVE  /\ \A q \in Runs \ {r} : step'[q] = step[q] /\ failed'[q] = failed[q]
         /\ ok => step'[r] = next /\ failed'[r] = failed[r]
         /\ ~ok => failed'[r]
<1>1. step \in [Runs -> Steps] /\ failed \in [Runs -> BOOLEAN]
      BY DEF IInv, TypeOK
<1> QED BY <1>1 DEF StepEnds

LEMMA ProvisionKeeps ==
  ASSUME IInv, NEW r \in Runs, Provision(r)
  PROVE  QueueInv' /\ NeedsSettled' /\ GreenInv' /\ PassInv'
<1> USE DEF registryVars
<1>1. PICK ok \in BOOLEAN : StepEnds(r, ok, "download")
      BY DEF Provision
<1>2. report' = report \/ report' = [report EXCEPT ![r] = "fail"]
      BY DEF Provision
<1>3. /\ \A q \in Runs \ {r} : report'[q] = report[q]
      /\ report'[r] = "pass" => report[r] = "pass"
      BY <1>2 DEF IInv, TypeOK
<1>4. step'[r] \in {"report", "upload"} => failed'[r]
      BY <1>1, StepEndsEffect
<1>5. \A q \in Runs \ {r} : step'[q] = step[q] /\ failed'[q] = failed[q]
      BY <1>1, StepEndsEffect
<1> QED BY <1>3, <1>4, <1>5, InnerKeeps DEF Provision

LEMMA DownloadKeeps ==
  ASSUME IInv, NEW r \in Runs, Download(r)
  PROVE  QueueInv' /\ NeedsSettled' /\ GreenInv' /\ PassInv'
<1> USE DEF registryVars
<1>1. PICK ok \in BOOLEAN : StepEnds(r, ok, "publish")
      BY DEF Download
<1>2. step'[r] \in {"report", "upload"} => failed'[r]
      BY <1>1, StepEndsEffect
<1>3. \A q \in Runs \ {r} : step'[q] = step[q] /\ failed'[q] = failed[q]
      BY <1>1, StepEndsEffect
<1> QED BY <1>2, <1>3, InnerKeeps DEF Download

LEMMA SendPutKeeps ==
  ASSUME IInv, NEW r \in Runs, SendPut(r)
  PROVE  QueueInv' /\ NeedsSettled' /\ GreenInv' /\ PassInv'
<1>1. step'[r] \notin {"report", "upload"}
      BY DEF SendPut, AtStep
<1> QED BY <1>1, InnerKeeps DEF SendPut

\* The report of a publish that returns says pass only over the registry's contents,
\* and is written when the step is successful.
LEMMA PublishReturnsKeeps ==
  ASSUME IInv, NEW r \in Runs, PublishReturns(r)
  PROVE  QueueInv' /\ NeedsSettled' /\ GreenInv' /\ PassInv'
<1> USE DEF registryVars
<1>1. PICK verdict \in {"pass", "fail"}, written \in BOOLEAN, ok \in BOOLEAN :
        /\ verdict = "pass" => Claim(r)
        /\ ok => verdict = "pass" /\ written
        /\ report' = IF written THEN [report EXCEPT ![r] = verdict] ELSE report
        /\ StepEnds(r, ok, "report")
      BY DEF PublishReturns
<1>2. /\ \A q \in Runs \ {r} : step'[q] = step[q] /\ failed'[q] = failed[q]
      /\ ~ok => failed'[r]
      BY <1>1, StepEndsEffect
<1>3. /\ \A q \in Runs \ {r} : report'[q] = report[q]
      /\ report'[r] = "pass" => report[r] = "pass" \/ verdict = "pass"
      /\ written => report'[r] = verdict
      BY <1>1 DEF IInv, TypeOK
<1>4. verdict = "pass" => version.run = r
      BY <1>1 DEF Claim
<1>5. ok => report'[r] = "pass"
      BY <1>1, <1>3
<1> QED BY <1>2, <1>3, <1>4, <1>5, InnerKeeps DEF PublishReturns

LEMMA FinalizeKeeps ==
  ASSUME IInv, NEW r \in Runs, FinalizeReport(r)
  PROVE  QueueInv' /\ NeedsSettled' /\ GreenInv' /\ PassInv'
<1> USE DEF registryVars
<1>1. \A q \in Runs \ {r} :
        step'[q] = step[q] /\ failed'[q] = failed[q] /\ report'[q] = report[q]
      BY DEF FinalizeReport, IInv, TypeOK
<1>2. report'[r] = "pass" <=> report[r] = "pass"
      BY DEF FinalizeReport, IInv, TypeOK
<1>3. ~failed'[r] => ~failed[r]
      BY DEF FinalizeReport, IInv, TypeOK
<1>4. NeedsMet(r, "publish") /\ ~failed[r] => report[r] = "pass"
      BY DEF FinalizeReport, AtStep, IInv, GreenInv
<1> QED BY <1>1, <1>2, <1>3, <1>4, InnerKeeps DEF FinalizeReport

\* A publish job that concludes gives the next of its group the head of the queue,
\* and is green only over a passing report it has uploaded.
LEMMA LeaveKeeps ==
  ASSUME IInv, NEW r \in Runs, NEW s \in Final, LeavePublish(r, s),
         Running(r, "publish"), UNCHANGED <<group, attempt, version>>,
         \A q \in Runs \ {r} : reports'[q] = reports[q],
         reports[r] \subseteq reports'[r],
         \A n \in Attempts : <<n, "pass">> \in reports'[r] =>
           <<n, "pass">> \in reports[r] \/ report[r] = "pass",
         s = "success" /\ NeedsMet(r, "publish") => <<attempt[r], "pass">> \in reports'[r]
  PROVE  QueueInv' /\ NeedsSettled' /\ GreenInv' /\ PassInv'
<1> DEFINE g == group[r]
           old == queue[g]
           new == Tail(old)
<1> USE DEF Running
<1>1. g \in Refs /\ old \in Seq(Runs) /\ old # <<>> /\ Head(old) = r
      BY GroupingsTotal DEF IInv, TypeOK, QueueInv, RunningFirst
<1>2. /\ new \in Seq(Runs) /\ Len(old) \in Nat /\ Len(new) = Len(old) - 1
      /\ \A i \in 1..Len(new) : new[i] = old[i + 1]
      /\ 1 \in 1..Len(old) /\ old[1] = r
      BY <1>1, HeadTailProperties, LenProperties, EmptySeq
<1>3. \A h \in Refs : queue'[h] = IF h = g THEN new ELSE queue[h]
      BY <1>1 DEF IInv, TypeOK, LeavePublish
<1>4. \A i, j \in 1..Len(old) : old[i] = old[j] => i = j
      BY <1>1 DEF IInv, QueueInv, QueuedOnce
<1>5. /\ \A q \in Runs : \A n \in {"build", "sign"} : status'[q][n] = status[q][n]
      /\ \A q \in Runs \ {r} : status'[q].publish = status[q].publish
      /\ status'[r].publish = s
      BY DEF IInv, TypeOK, LeavePublish, SetStatus, Jobs
<1>6. \A n \in Needs["publish"] : \A q \in Runs : status'[q][n] = status[q][n]
      BY <1>5 DEF Needs
<1>7. QueuedOnce'
  <2> SUFFICES ASSUME NEW h \in Refs,
                      NEW i \in 1..Len(queue'[h]), NEW j \in 1..Len(queue'[h]),
                      queue'[h][i] = queue'[h][j]
               PROVE  i = j
      BY DEF QueuedOnce
  <2>1. CASE h # g
        BY <1>3, <2>1 DEF IInv, QueueInv, QueuedOnce
  <2>2. CASE h = g
    <3>1. i \in 1..Len(new) /\ j \in 1..Len(new) /\ new[i] = new[j]
          BY <1>3, <2>2
    <3>2. old[i + 1] = old[j + 1] /\ i + 1 \in 1..Len(old) /\ j + 1 \in 1..Len(old)
          BY <1>2, <3>1
    <3>3. i + 1 = j + 1
          BY <1>4, <3>2
    <3> QED BY <3>1, <3>3, <1>2
  <2> QED BY <2>1, <2>2
<1>8. Queued'
  <2> SUFFICES ASSUME NEW h \in Refs, NEW i \in 1..Len(queue'[h]),
                      NEW q \in Runs, queue'[h][i] = q
               PROVE  /\ group[q] = h
                      /\ attempt[q] > 0
                      /\ status'[q].publish \in {"waiting", "running"}
                      /\ NeedsDone(q, "publish")
      BY <1>6 DEF Queued, NeedsDone
  <2>1. CASE h # g
    <3>1. i \in 1..Len(queue[h]) /\ queue[h][i] = q
          BY <1>3, <2>1
    <3>2. /\ group[q] = h /\ attempt[q] > 0
          /\ status[q].publish \in {"waiting", "running"} /\ NeedsDone(q, "publish")
          BY <3>1 DEF IInv, QueueInv, Queued
    <3> QED BY <1>5, <2>1, <3>2
  <2>2. CASE h = g
    <3>1. i \in 1..Len(new) /\ new[i] = q
          BY <1>3, <2>2
    <3>2. i + 1 \in 1..Len(old) /\ old[i + 1] = q /\ i + 1 # 1
          BY <1>2, <3>1
    <3>3. q # r
          BY <1>2, <1>4, <3>2
    <3>4. /\ group[q] = h /\ attempt[q] > 0
          /\ status[q].publish \in {"waiting", "running"} /\ NeedsDone(q, "publish")
          BY <1>1, <2>2, <3>2 DEF IInv, QueueInv, Queued
    <3> QED BY <1>5, <3>3, <3>4
  <2> QED BY <2>1, <2>2
<1>9. RunningFirst'
  <2> SUFFICES ASSUME NEW q \in Runs, status'[q].publish = "running"
               PROVE  queue'[group[q]] # <<>> /\ Head(queue'[group[q]]) = q
      BY DEF RunningFirst
  <2>1. q # r
        BY <1>5 DEF Final
  <2>2. queue[group[q]] # <<>> /\ Head(queue[group[q]]) = q /\ group[q] \in Refs
        BY <1>5, <2>1, GroupingsTotal DEF IInv, TypeOK, QueueInv, RunningFirst
  <2>3. group[q] # g
        BY <1>1, <2>1, <2>2
  <2> QED BY <1>3, <2>2, <2>3
<1>10. NeedsSettled'
  <2>1. \A q \in Runs : status'[q].publish # "waiting" => NeedsDone(q, "publish")
        BY <1>5 DEF IInv, NeedsSettled
  <2> QED BY <1>6, <2>1 DEF NeedsSettled, NeedsDone
<1>11. GreenInv'
  <2> SUFFICES ASSUME NEW q \in Runs, NeedsMet(q, "publish")
               PROVE  /\ status'[q].publish = "running" /\ step'[q] \in {"report", "upload"}
                           /\ ~failed'[q]
                           => report'[q] = "pass"
                      /\ status'[q].publish = "success" => <<attempt[q], "pass">> \in reports'[q]
      BY <1>6 DEF GreenInv, NeedsMet
  <2>1. CASE q = r
        BY <1>5, <2>1 DEF Final
  <2>2. CASE q # r
    <3>1. /\ step'[q] = step[q] /\ failed'[q] = failed[q] /\ report'[q] = report[q]
          /\ status'[q].publish = status[q].publish /\ reports'[q] = reports[q]
          BY <1>5, <2>2 DEF IInv, TypeOK, LeavePublish
    <3> QED BY <3>1 DEF IInv, GreenInv
  <2> QED BY <2>1, <2>2
<1>12. PassInv'
  <2> SUFFICES ASSUME NEW q \in Runs
               PROVE  /\ report'[q] = "pass" => version.run = q
                      /\ \A n \in Attempts : <<n, "pass">> \in reports'[q] => version.run = q
      BY DEF PassInv
  <2>1. report'[q] = "pass" => report[q] = "pass"
        BY DEF IInv, TypeOK, LeavePublish
  <2>2. \A n \in Attempts : <<n, "pass">> \in reports'[q] =>
          <<n, "pass">> \in reports[q] \/ report[q] = "pass"
        BY DEF IInv, TypeOK
  <2> QED BY <2>1, <2>2 DEF IInv, PassInv
<1> QED BY <1>7, <1>8, <1>9, <1>10, <1>11, <1>12 DEF QueueInv

LEMMA UploadKeeps ==
  ASSUME IInv, NEW r \in Runs, UploadReport(r)
  PROVE  QueueInv' /\ NeedsSettled' /\ GreenInv' /\ PassInv'
<1> USE DEF registryVars
<1>1. PICK ok \in BOOLEAN :
        /\ reports' = IF ok THEN [reports EXCEPT ![r] = @ \cup {<<attempt[r], report[r]>>}]
                      ELSE reports
        /\ LeavePublish(r, IF ok /\ ~failed[r] THEN "success" ELSE "failure")
      BY DEF UploadReport
<1>2. /\ \A q \in Runs \ {r} : reports'[q] = reports[q]
      /\ reports[r] \subseteq reports'[r]
      /\ \A n \in Attempts : <<n, "pass">> \in reports'[r] =>
           <<n, "pass">> \in reports[r] \/ report[r] = "pass"
      /\ ok => <<attempt[r], report[r]>> \in reports'[r]
      BY <1>1 DEF IInv, TypeOK
<1>3. NeedsMet(r, "publish") /\ ~failed[r] => report[r] = "pass"
      BY DEF UploadReport, AtStep, IInv, GreenInv
<1>4. Running(r, "publish")
      BY DEF UploadReport, AtStep
<1>5. CASE ok /\ ~failed[r]
  <2>1. LeavePublish(r, "success")
        BY <1>1, <1>5
  <2>2. NeedsMet(r, "publish") => <<attempt[r], "pass">> \in reports'[r]
        BY <1>2, <1>3, <1>5
  <2> QED BY <1>2, <1>4, <2>1, <2>2, LeaveKeeps DEF UploadReport, Final
<1>6. CASE ~(ok /\ ~failed[r])
  <2>1. LeavePublish(r, "failure")
        BY <1>1, <1>6
  <2> QED BY <1>2, <1>4, <2>1, LeaveKeeps DEF UploadReport, Final
<1> QED BY <1>5, <1>6

LEMMA RunnerLostKeeps ==
  ASSUME IInv, NEW r \in Runs, RunnerLost(r)
  PROVE  QueueInv' /\ NeedsSettled' /\ GreenInv' /\ PassInv'
  BY LeaveKeeps DEF RunnerLost, Final, registryVars

-----------------------------------------------------------------------------
(* Steps of GitHub Actions and of the registry.                            *)

LEMMA TriggerKeeps ==
  ASSUME IInv, NEW r \in Runs, Trigger(r)
  PROVE  QueueInv' /\ NeedsSettled' /\ GreenInv' /\ PassInv'
<1> USE DEF Trigger, publishVars, registryVars, Running
<1>1. /\ \A q \in Runs \ {r} : attempt'[q] = attempt[q]
      /\ attempt'[r] = 1 /\ attempt[r] = 0
      BY DEF IInv, TypeOK
<1>2. status[r].publish = "waiting"
      BY <1>1 DEF IInv, Triggered, Jobs
<1>3. QueuedOnce' /\ RunningFirst'
      BY DEF IInv, QueueInv, QueuedOnce, RunningFirst
<1>4. Queued'
      BY <1>1 DEF IInv, QueueInv, Queued, NeedsDone
<1>5. NeedsSettled'
      BY DEF IInv, NeedsSettled, NeedsDone
<1>6. GreenInv'
      BY <1>1, <1>2 DEF IInv, GreenInv, NeedsMet
<1>7. PassInv'
      BY DEF IInv, PassInv
<1> QED BY <1>3, <1>4, <1>5, <1>6, <1>7 DEF QueueInv

\* A new attempt starts once every job has concluded, and sets publish waiting.
LEMMA NewAttemptKeeps ==
  ASSUME IInv, NEW r \in Runs, NEW reset, NewAttempt(r, reset), "publish" \in reset
  PROVE  QueueInv' /\ NeedsSettled' /\ GreenInv' /\ PassInv'
<1> USE DEF Running
<1>0. UNCHANGED <<group, reports, queue, step, failed, report, version>>
      BY DEF NewAttempt, publishVars, registryVars
<1>1. /\ \A q \in Runs \ {r} : attempt'[q] = attempt[q] /\ status'[q] = status[q]
      /\ status'[r].publish = "waiting"
      BY DEF NewAttempt, IInv, TypeOK, Jobs
<1>2. status[r].publish \in Final
      BY DEF NewAttempt, Complete, Jobs
<1>3. \A g \in Refs : \A i \in 1..Len(queue[g]) : queue[g][i] # r
      BY <1>2 DEF IInv, QueueInv, Queued, Final
<1>4. QueuedOnce'
      BY <1>0 DEF IInv, QueueInv, QueuedOnce
<1>5. Queued'
  <2> SUFFICES ASSUME NEW h \in Refs, NEW i \in 1..Len(queue[h]),
                      NEW q \in Runs, queue[h][i] = q
               PROVE  /\ group[q] = h
                      /\ attempt'[q] > 0
                      /\ status'[q].publish \in {"waiting", "running"}
                      /\ \A n \in Needs["publish"] : status'[q][n] \in Final
      BY <1>0 DEF Queued, NeedsDone
  <2>1. q # r
        BY <1>3
  <2>2. /\ group[q] = h /\ attempt[q] > 0
        /\ status[q].publish \in {"waiting", "running"}
        /\ \A n \in Needs["publish"] : status[q][n] \in Final
        BY DEF IInv, QueueInv, Queued, NeedsDone
  <2> QED BY <1>1, <2>1, <2>2
<1>6. RunningFirst'
      BY <1>0, <1>1 DEF IInv, QueueInv, RunningFirst
<1>7. NeedsSettled'
      BY <1>1 DEF IInv, NeedsSettled, NeedsDone
<1>8. GreenInv'
      BY <1>0, <1>1 DEF IInv, GreenInv, NeedsMet
<1>9. PassInv'
      BY <1>0 DEF IInv, PassInv
<1> QED BY <1>4, <1>5, <1>6, <1>7, <1>8, <1>9 DEF QueueInv

\* Re-running the failed jobs re-runs publish, which depends on every other job.
LEMMA RerunKeeps ==
  ASSUME IInv, NEW r \in Runs, RerunFailed(r) \/ RerunAll(r)
  PROVE  QueueInv' /\ NeedsSettled' /\ GreenInv' /\ PassInv'
<1>1. CASE RerunAll(r)
      BY <1>1, NewAttemptKeeps DEF RerunAll, Jobs
<1>2. CASE RerunFailed(r)
  <2> DEFINE bad == {job \in Jobs : status[r][job] \in {"failure", "cancelled"}}
             reset == bad \cup {job \in Jobs : Needs[job] \cap bad # {}}
  <2>1. bad # {} /\ NewAttempt(r, reset)
        BY <1>2 DEF RerunFailed
  <2>2. "publish" \in reset
    <3>1. PICK job \in bad : TRUE
          BY <2>1
    <3>2. job = "publish" \/ job \in Needs["publish"]
          BY DEF Jobs, Needs
    <3>3. "publish" \in Jobs
          BY DEF Jobs
    <3> QED BY <3>1, <3>2, <3>3
  <2> HIDE DEF reset
  <2> QED BY <2>1, <2>2, NewAttemptKeeps
<1> QED BY <1>1, <1>2

\* The registry's version never changes once it is there.
LEMMA RegistryKeeps ==
  ASSUME IInv, PutLands \/ PutRefused \/ OutsidePublish
  PROVE  QueueInv' /\ NeedsSettled' /\ GreenInv' /\ PassInv'
<1>0. UNCHANGED <<runVars, publishVars>>
      BY DEF PutLands, PutRefused, OutsidePublish
<1> USE DEF runVars, publishVars, Running
<1>1. version' = version \/ version = Absent
      BY DEF PutLands, PutRefused, OutsidePublish
<1>2. QueueInv' /\ NeedsSettled' /\ GreenInv'
      BY <1>0 DEF IInv, QueueInv, QueuedOnce, Queued, RunningFirst, NeedsSettled, GreenInv,
                  NeedsDone, NeedsMet
<1>3. ASSUME version' = version PROVE PassInv'
      BY <1>0, <1>3 DEF IInv, PassInv
<1>4. ASSUME version = Absent PROVE PassInv'
  <2>1. \A r \in Runs : version.run # r
        BY <1>4, RunsNamed DEF Absent
  <2> QED BY <1>0, <2>1 DEF IInv, PassInv
<1> QED BY <1>1, <1>2, <1>3, <1>4

-----------------------------------------------------------------------------
(* The invariant of the workflow.                                          *)

\* No job of a run moves before the run is triggered.
LEMMA TriggeredKept ==
  ASSUME IInv, [Next]_vars
  PROVE  Triggered'
<1> USE DEF publishVars, registryVars
<1>0. attempt \in [Runs -> {0} \cup Attempts] /\ status \in [Runs -> [Jobs -> Status]]
      BY DEF IInv, TypeOK
<1>1. \A q \in Runs : attempt[q] = 0 => \A job \in Jobs : status[q][job] = "waiting"
      BY DEF IInv, Triggered
<1>2. ASSUME NEW r \in Runs, NEW job \in Jobs, NEW s, SetStatus(r, job, s),
             attempt[r] # 0, attempt' = attempt
      PROVE  Triggered'
      BY <1>0, <1>1, <1>2 DEF Triggered, SetStatus
<1>3. ASSUME NEW r \in Runs, NEW job \in Jobs, EnterCancelling(r, job),
             attempt[r] # 0, attempt' = attempt
      PROVE  Triggered'
      BY <1>0, <1>1, <1>3 DEF Triggered, EnterCancelling, Running
<1>4. ASSUME UNCHANGED <<attempt, status>> PROVE Triggered'
      BY <1>1, <1>4 DEF Triggered
<1>5. \A r \in Runs : \A job \in Jobs : Running(r, job) => attempt[r] # 0
      BY <1>1 DEF Running
<1>6. ASSUME NEW r \in Runs, BuildJob(r) \/ SignJob(r) PROVE Triggered'
      BY <1>2, <1>3, <1>4, <1>5, <1>6
         DEF BuildJob, SignJob, StartBuild, UploadTarball, UploadMetadata, BuildFails,
             StartSign, SkipSign, SignSucceeds, SignFails, Jobs
<1>7. ASSUME NEW r \in Runs, EnqueuePublish(r) \/ Provision(r) \/ Download(r)
                 \/ PublishReturns(r) \/ FinalizeReport(r) \/ SendPut(r)
      PROVE  Triggered'
      BY <1>4, <1>7
         DEF EnqueuePublish, Provision, Download, PublishReturns, FinalizeReport, SendPut, runVars
<1>8. ASSUME NEW r \in Runs, StartPublish(r) PROVE Triggered'
  <2>1. attempt[r] # 0
        BY <1>8, HeadQueued DEF StartPublish
  <2> QED BY <1>2, <1>8, <2>1 DEF StartPublish, Jobs
<1>9. ASSUME NEW r \in Runs, UploadReport(r) \/ RunnerLost(r) PROVE Triggered'
      BY <1>2, <1>5, <1>9 DEF UploadReport, RunnerLost, LeavePublish, AtStep, Jobs
<1>10. ASSUME NEW r \in Runs, Trigger(r) PROVE Triggered'
      BY <1>0, <1>1, <1>10 DEF Trigger, Triggered
<1>11. ASSUME NEW r \in Runs, CancelRun(r) PROVE Triggered'
  <2>1. attempt' = attempt /\ attempt[r] # 0
        BY <1>0, <1>11 DEF CancelRun
  <2>2. \A q \in Runs \ {r} : status'[q] = status[q]
        BY <1>0, <1>11 DEF CancelRun
  <2> QED BY <1>1, <2>1, <2>2 DEF Triggered
<1>12. ASSUME NEW r \in Runs, NEW reset, NewAttempt(r, reset) PROVE Triggered'
  <2>1. attempt[r] \in Nat
    <3>1. attempt[r] \in {0} \cup Attempts
          BY <1>0
    <3> QED BY <3>1, AttemptsNat
  <2>2. attempt[r] + 1 # 0
        BY <2>1
  <2> QED BY <1>0, <1>1, <1>12, <2>2 DEF NewAttempt, Triggered
<1>13. CASE PutLands \/ PutRefused \/ OutsidePublish
      BY <1>4, <1>13 DEF PutLands, PutRefused, OutsidePublish, runVars
<1>14. CASE UNCHANGED vars
      BY <1>4, <1>14 DEF vars, runVars
<1> QED BY <1>6, <1>7, <1>8, <1>9, <1>10, <1>11, <1>12, <1>13, <1>14
        DEF Next, JobStep, PublishJob, Platform, RerunFailed, RerunAll

LEMMA InitIInv == Init => IInv
<1> SUFFICES ASSUME Init PROVE IInv
    OBVIOUS
<1> USE DEF Init
<1>1. \A r \in Runs : \A job \in Jobs : status[r][job] = "waiting"
      OBVIOUS
<1>2. TypeOK
  <2>1. queue \in [Refs -> Seq(Runs)]
        BY EmptySeq
  <2>2. version \in Versions
        BY DEF Versions, Absent
  <2> QED BY <2>1, <2>2 DEF TypeOK, Status, Steps
<1>3. Triggered
      BY <1>1 DEF Triggered
<1>4. \A g \in Refs : queue[g] = <<>> /\ 1..Len(queue[g]) = {}
      BY EmptySeq
<1>5. QueueInv
      BY <1>1, <1>4 DEF QueueInv, QueuedOnce, Queued, RunningFirst, Running, Jobs
<1>6. NeedsSettled /\ GreenInv /\ PassInv
      BY <1>1 DEF NeedsSettled, GreenInv, PassInv, Jobs, Running
<1> QED BY <1>2, <1>3, <1>5, <1>6 DEF IInv

LEMMA NextIInv == IInv /\ [Next]_vars => IInv'
<1> SUFFICES ASSUME IInv, [Next]_vars PROVE IInv'
    OBVIOUS
<1> DEFINE Rest == QueueInv' /\ NeedsSettled' /\ GreenInv' /\ PassInv'
<1>0. TypeOK /\ Triggered /\ RunningFirst
      BY DEF IInv, QueueInv
<1>1. ASSUME NEW r \in Runs, BuildJob(r) \/ SignJob(r) PROVE TypeOK' /\ Rest
      BY <1>0, <1>1, BuildSignType, BuildersLeave, LeftAloneKeeps
<1>2. ASSUME NEW r \in Runs, PublishJob(r) \/ SendPut(r) \/ RunnerLost(r)
      PROVE  TypeOK' /\ Rest
  <2>1. TypeOK'
        BY <1>0, <1>2, PublishType
  <2>2. Rest
        BY <1>2, EnqueueKeeps, StartPublishKeeps, ProvisionKeeps, DownloadKeeps, SendPutKeeps,
           PublishReturnsKeeps, FinalizeKeeps, UploadKeeps, RunnerLostKeeps DEF PublishJob
  <2> QED BY <2>1, <2>2
<1>3. ASSUME NEW r \in Runs, Trigger(r) \/ CancelRun(r) \/ RerunFailed(r) \/ RerunAll(r)
      PROVE  TypeOK' /\ Rest
  <2>1. TypeOK'
        BY <1>0, <1>3, PlatformType
  <2>2. Rest
        BY <1>0, <1>3, TriggerKeeps, BuildersLeave, LeftAloneKeeps, RerunKeeps
  <2> QED BY <2>1, <2>2
<1>4. ASSUME PutLands \/ PutRefused \/ OutsidePublish PROVE TypeOK' /\ Rest
  <2>1. TypeOK'
        BY <1>0, <1>4 DEF PutLands, PutRefused, OutsidePublish, runVars, publishVars,
                          TypeOK, Versions
  <2> QED BY <1>4, <2>1, RegistryKeeps
<1>5. ASSUME UNCHANGED vars PROVE TypeOK' /\ Rest
  <2>1. TypeOK'
        BY <1>0, <1>5 DEF TypeOK, vars, runVars, publishVars, registryVars
  <2>2. PublishLeftAlone
        BY <1>5 DEF PublishLeftAlone, vars, runVars, publishVars, registryVars
  <2> QED BY <2>1, <2>2, LeftAloneKeeps
<1>6. Triggered'
      BY TriggeredKept
<1>7. TypeOK' /\ Rest
      BY <1>1, <1>2, <1>3, <1>4, <1>5 DEF Next, JobStep, Platform
<1> QED BY <1>6, <1>7 DEF IInv

THEOREM Invariance == Spec => []IInv
  BY InitIInv, NextIInv, PTL DEF Spec

\* Jobs, artifacts, reports, queues and the registry keep their types.
THEOREM TypeCorrect == Spec => []TypeOK
<1>1. IInv => TypeOK
      BY DEF IInv
<1> QED BY <1>1, Invariance, PTL

\* A report that says pass is true, whatever cancelled, re-ran or interrupted its job.
THEOREM ReportsTrue == Spec => []PassReportIsTrue
<1>1. IInv => PassReportIsTrue
      BY DEF IInv, PassInv, PassReportIsTrue
<1> QED BY <1>1, Invariance, PTL

\* A run is green only with a passing report of its current attempt.
THEOREM GreenRunHasReport == Spec => []SuccessHasReport
<1>1. IInv => SuccessHasReport
  <2> SUFFICES ASSUME IInv, NEW r \in Runs, \A job \in Jobs : status[r][job] = "success"
               PROVE  <<attempt[r], "pass">> \in reports[r]
      BY DEF SuccessHasReport
  <2>1. NeedsMet(r, "publish")
        BY DEF NeedsMet, Needs, Jobs
  <2>2. status[r].publish = "success"
        BY DEF Jobs
  <2> QED BY <2>1, <2>2 DEF IInv, GreenInv
<1> QED BY <1>1, Invariance, PTL

\* The publish jobs of one group run one at a time, each until it concludes.
THEOREM OneSegmentAtATime == Spec => []SegmentsSerialized
<1>1. IInv => SegmentsSerialized
  <2> SUFFICES ASSUME IInv, NEW r \in Runs, Running(r, "publish")
               PROVE  /\ \A q \in Rivals(r) : ~Running(q, "publish")
                      /\ Head(queue[group[r]]) = r
      BY DEF SegmentsSerialized
  <2> QED BY DEF IInv, QueueInv, RunningFirst, Rivals
<1> QED BY <1>1, Invariance, PTL
=============================================================================
