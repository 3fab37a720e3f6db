-------------------------- MODULE NpmPublishProofs --------------------------
(***************************************************************************)
(* Proofs about NpmPublish, for every set of digests, every lag and budget,*)
(* every fault and every number of attempts.                               *)
(***************************************************************************)
EXTENDS NpmPublish, TLAPS

-----------------------------------------------------------------------------
(* Type correctness.                                                       *)

\* The empty records have the types they should.
LEMMA RecordTypes ==
  /\ NoResult \in Result
  /\ NoPackument \in Packument
  /\ NoAttestations \in Attestations
<1>1. NoResult \in Result
  BY DEF NoResult, Result, Ids
<1>2. NoPackument \in Packument
  BY DEF NoPackument, Packument
<1>3. NoAttestations \in Attestations
  BY DEF NoAttestations, Attestations
<1> QED BY <1>1, <1>2, <1>3

\* Publish only ever builds well-typed results.
LEMMA ResultTypes ==
  ASSUME NEW state \in PublishState \cup {"none"}, NEW flag \in BOOLEAN,
         NEW id \in Ids, NEW warning \in BOOLEAN
  PROVE  [state |-> state, mutationAttempted |-> flag, id |-> id, warning |-> warning]
           \in Result
BY DEF Result

\* The initial state is well typed.
LEMMA InitTypeOK == Init => TypeOK
<1> SUFFICES ASSUME Init PROVE TypeOK
    OBVIOUS
<1>1. FrameTypeOK
  BY AttemptAssumption, RecordTypes DEF Init, FrameTypeOK, Pcs
<1>2. PollTypeOK
  BY RecordTypes DEF Init, PollTypeOK
<1>3. FlagTypeOK
  BY DEF Init, FlagTypeOK
<1>4. RegistryTypeOK
  BY AttemptAssumption, TimeAssumption DEF Init, RegistryTypeOK, NoVersion, Version
<1> QED
  BY <1>1, <1>2, <1>3, <1>4 DEF TypeOK

\* Entering or leaving classify sets its locals to well-typed values.
LEMMA EnterTypes ==
  ASSUME NEW after \in BOOLEAN, NEW e422 \in BOOLEAN, EnterClassify(after, e422)
  PROVE  /\ PollTypeOK'
         /\ pc' \in Pcs
         /\ afterMutation' \in BOOLEAN /\ reduced' \in BOOLEAN
         /\ sawVersion' \in BOOLEAN /\ sawCleanAbsence' \in BOOLEAN
<1>1. PollTypeOK'
  BY RecordTypes DEF EnterClassify, PollTypeOK
<1>2. pc' \in Pcs
  BY DEF EnterClassify, Pcs, Observing
<1>3. /\ afterMutation' \in BOOLEAN /\ reduced' \in BOOLEAN
      /\ sawVersion' \in BOOLEAN /\ sawCleanAbsence' \in BOOLEAN
  BY Zenon DEF EnterClassify
<1> QED BY <1>1, <1>2, <1>3

\* Leaving classify leaves its locals well typed.
LEMMA LeaveTypes ==
  ASSUME LeaveClassify
  PROVE  /\ PollTypeOK'
         /\ reduced' \in BOOLEAN /\ sawVersion' \in BOOLEAN
         /\ sawCleanAbsence' \in BOOLEAN
<1>1. PollTypeOK'
  BY RecordTypes DEF LeaveClassify, PollTypeOK
<1>2. /\ reduced' \in BOOLEAN /\ sawVersion' \in BOOLEAN /\ sawCleanAbsence' \in BOOLEAN
  BY DEF LeaveClassify
<1> QED BY <1>1, <1>2

\* A decision carries a publish state and two flags.
Decisions == [state : PublishState, terminal : BOOLEAN, packageAbsent : BOOLEAN]

\* decide returns a state Publish knows.
LEMMA DecideTypes ==
  ASSUME PollTypeOK, NEW failed, NEW exhausted \in BOOLEAN
  PROVE  decide(failed, exhausted) \in Decisions
<1>1. \A state \in PublishState, terminal, absent \in BOOLEAN :
        Decision(state, terminal, absent) \in Decisions
  BY DEF Decision, Decisions
<1>2. decideBundles(failed, exhausted) \in Decisions
  BY <1>1 DEF decideBundles, PublishState
<1> QED
  BY <1>1, <1>2 DEF decide, PublishState, PollTypeOK, Packument

\* classify's return leaves Publish with a well-typed frame.
LEMMA ClassifiedTypes ==
  ASSUME TypeOK, NEW decision \in Decisions, NEW err \in BOOLEAN, NEW seen \in BOOLEAN,
         Classified(decision, err, seen)
  PROVE  TypeOK'
<1>1. PollTypeOK' /\ reduced' \in BOOLEAN /\ sawVersion' \in BOOLEAN
      /\ sawCleanAbsence' \in BOOLEAN
  BY LeaveTypes DEF Classified
<1>2. FlagTypeOK'
  BY <1>1 DEF Classified, TypeOK, FlagTypeOK, registryVars, historyVars
<1>3. RegistryTypeOK'
  BY DEF Classified, TypeOK, RegistryTypeOK, registryVars
<1>4. FrameTypeOK'
  <2>1. CASE afterMutation
    BY <2>1, ResultTypes DEF Classified, ReadbackOutcome, failure, success, TypeOK,
       FrameTypeOK, attemptVars, PublishState, Ids, Pcs, Ended
  <2>2. CASE ~afterMutation
    BY <2>2, ResultTypes DEF Classified, EntryOutcome, failure, TypeOK, FrameTypeOK,
       attemptVars, PublishState, Ids, Pcs, Ended
  <2> QED BY <2>1, <2>2
<1> QED
  BY <1>1, <1>2, <1>3, <1>4 DEF TypeOK

\* Every step, of the program or of its environment, preserves the types.
LEMMA NextTypeOK == TypeOK /\ [Next]_vars => TypeOK'
<1> SUFFICES ASSUME TypeOK, [Next]_vars PROVE TypeOK'
    OBVIOUS
<1> USE DEF attemptVars, publishVars, pollVars, registryVars, historyVars
<1>1. CASE Prepare
  <2>1. CASE EnterClassify(FALSE, FALSE) /\ UNCHANGED result
    <3>1. FrameTypeOK'
      BY <1>1, <2>1, EnterTypes DEF Prepare, TypeOK, FrameTypeOK
    <3>2. FlagTypeOK'
      BY <1>1, <2>1, EnterTypes DEF Prepare, TypeOK, FlagTypeOK
    <3> QED
      BY <1>1, <2>1, <3>1, <3>2, EnterTypes DEF Prepare, TypeOK, RegistryTypeOK
  <2>2. CASE /\ failure("indeterminate", FALSE, "bundle-byte-format-mismatch", FALSE)
             /\ UNCHANGED <<pollVars, replicatedAtEntry>>
    <3>1. FrameTypeOK'
      BY <1>1, <2>2, ResultTypes DEF Prepare, failure, TypeOK, FrameTypeOK, Pcs, Ended,
         Ids, PublishState
    <3>2. FlagTypeOK'
      BY <1>1, <2>2 DEF Prepare, TypeOK, FlagTypeOK
    <3> QED
      BY <1>1, <2>2, <3>1, <3>2 DEF Prepare, TypeOK, PollTypeOK, RegistryTypeOK
  <2> QED BY <1>1, <2>1, <2>2 DEF Prepare
<1>2. CASE ReadPackument
  <2>1. packument' \in Packument
    <3>1. \A package \in BOOLEAN : Without(package) \in Packument
      BY DEF Without, Packument
    <3>2. \A sri \in Digest \cup {None}, named \in BOOLEAN : Showing(sri, named) \in Packument
      BY DEF Showing, Packument
    <3>3. packageExists \in BOOLEAN
      BY DEF TypeOK, FlagTypeOK
    <3>4. version.digest \in Digest \cup {None}
      BY DEF TypeOK, RegistryTypeOK, Version
    <3>5. PackumentAnswer(packument')
      BY <1>2 DEF ReadPackument
    <3> QED
      BY <3>1, <3>2, <3>3, <3>4, <3>5, RecordTypes DEF PackumentAnswer
  <2>2. FlagTypeOK'
    BY <1>2 DEF ReadPackument, TypeOK, FlagTypeOK
  <2> QED
    BY <1>2, <2>1, <2>2 DEF ReadPackument, TypeOK, FrameTypeOK, PollTypeOK,
       RegistryTypeOK, Pcs, Observing
<1>3. CASE ReadAttestations
  <2>1. attestations' \in Attestations
    <3>1. version.bundles \in SUBSET Bundle
      BY DEF TypeOK, RegistryTypeOK, Version
    <3>2. \A found \in BOOLEAN, bundles \in SUBSET Bundle :
            [err |-> FALSE, found |-> found, bundles |-> bundles] \in Attestations
      BY DEF Attestations
    <3>3. AttestationAnswer(attestations')
      BY <1>3 DEF ReadAttestations
    <3> QED
      BY <3>1, <3>2, <3>3, RecordTypes DEF AttestationAnswer
  <2>2. FlagTypeOK'
    BY <1>3 DEF ReadAttestations, TypeOK, FlagTypeOK
  <2> QED
    BY <1>3, <2>1, <2>2 DEF ReadAttestations, TypeOK, FrameTypeOK, PollTypeOK,
       RegistryTypeOK, Pcs, Observing
<1>4. SeenVersion \in BOOLEAN /\ SeenCleanAbsence \in BOOLEAN
  BY DEF SeenVersion, SeenCleanAbsence
<1>5. CASE PollTerminal
  BY <1>4, <1>5, DecideTypes, ClassifiedTypes DEF PollTerminal, TypeOK
<1>6. CASE PollAbsenceSettled
  <2>1. Decision("absent", TRUE, FALSE) \in Decisions
    BY DEF Decision, Decisions, PublishState
  <2> QED
    BY <1>4, <1>6, <2>1, ClassifiedTypes DEF PollAbsenceSettled
<1>7. CASE PollExhausted
  <2>1. PICK failed \in FailedVerifications :
          Classified(decide(failed, TRUE), decide(failed, TRUE).state = "indeterminate",
                     SeenVersion)
    BY <1>7 DEF PollExhausted
  <2> QED
    BY <1>4, <2>1, DecideTypes, ClassifiedTypes DEF TypeOK
<1>8. CASE PollSleep
  <2>1. FlagTypeOK'
    BY <1>4, <1>8, Zenon DEF PollSleep, TypeOK, FlagTypeOK
  <2> QED
    BY <1>8, <2>1, RecordTypes, TimeAssumption DEF PollSleep, TypeOK, FrameTypeOK,
       PollTypeOK, RegistryTypeOK, Pcs
<1>9. CASE Wake
  <2>1. FlagTypeOK'
    BY <1>9 DEF Wake, TypeOK, FlagTypeOK
  <2> QED
    BY <1>9, <2>1 DEF Wake, TypeOK, FrameTypeOK, PollTypeOK, RegistryTypeOK, Pcs, Observing
<1>10. CASE SleepCancelled
  <2>1. Decision("indeterminate", TRUE, FALSE) \in Decisions
    BY DEF Decision, Decisions, PublishState
  <2> QED
    BY <1>10, <2>1, ClassifiedTypes DEF SleepCancelled, TypeOK, FlagTypeOK
<1>11. CASE CheckNPMVersion
  <2>1. result' \in Result /\ pc' \in Pcs
    BY <1>11, ResultTypes DEF CheckNPMVersion, failure, success, TypeOK, FrameTypeOK,
       Pcs, Ended, Ids, PublishState
  <2>2. FlagTypeOK'
    BY <1>11 DEF CheckNPMVersion, TypeOK, FlagTypeOK
  <2> QED
    BY <1>11, <2>1, <2>2 DEF CheckNPMVersion, TypeOK, FrameTypeOK, PollTypeOK,
       RegistryTypeOK
<1>12. CASE StartNPM
  <2>1. FlagTypeOK'
    BY <1>12 DEF StartNPM, TypeOK, FlagTypeOK
  <2>2. puts' \subseteq Put
    BY <1>12 DEF StartNPM, TypeOK, FrameTypeOK, RegistryTypeOK, Put
  <2> QED
    BY <1>12, <2>1, <2>2 DEF StartNPM, TypeOK, FrameTypeOK, PollTypeOK, RegistryTypeOK, Pcs
<1>13. CASE RefuseNPM
  <2>1. EnterClassify(TRUE, FALSE) /\ UNCHANGED result
    BY <1>13 DEF RefuseNPM, StartReadback
  <2>2. FlagTypeOK'
    <3>1. publishedAtReadback' \in BOOLEAN
      BY <1>13 DEF RefuseNPM, StartReadback, Committed
    <3> QED
      BY <1>13, <2>1, <3>1, EnterTypes DEF RefuseNPM, TypeOK, FlagTypeOK
  <2> QED
    BY <1>13, <2>1, <2>2, EnterTypes DEF RefuseNPM, TypeOK, FrameTypeOK, RegistryTypeOK,
       NpmCodes
<1>14. CASE NPMExits
  <2>1. PICK code \in NpmCodes :
          /\ npmCode' = code
          /\ \/ /\ definitivePublishError(code) # ""
                /\ failure("absent", TRUE, definitivePublishError(code), FALSE)
                /\ UNCHANGED <<pollVars, publishedAtReadback>>
             \/ StartReadback(code)
    BY <1>14 DEF NPMExits
  <2>2. CASE /\ failure("absent", TRUE, definitivePublishError(code), FALSE)
             /\ UNCHANGED <<pollVars, publishedAtReadback>>
    <3>1. definitivePublishError(code) \in Ids
      BY DEF definitivePublishError, Ids
    <3>2. FrameTypeOK'
      BY <1>14, <2>1, <2>2, <3>1, ResultTypes DEF NPMExits, failure, TypeOK, FrameTypeOK,
         Pcs, Ended, PublishState
    <3>3. FlagTypeOK'
      BY <1>14, <2>2 DEF NPMExits, TypeOK, FlagTypeOK
    <3> QED
      BY <1>14, <2>2, <3>2, <3>3 DEF NPMExits, TypeOK, PollTypeOK, RegistryTypeOK
  <2>3. CASE StartReadback(code)
    <3>1. EnterClassify(TRUE, code = "e422") /\ UNCHANGED result
      BY <2>3 DEF StartReadback
    <3>2. FlagTypeOK'
      <4>1. publishedAtReadback' \in BOOLEAN
        BY <2>3 DEF StartReadback, Committed
      <4> QED
        BY <1>14, <3>1, <4>1, EnterTypes DEF NPMExits, TypeOK, FlagTypeOK
    <3> QED
      BY <1>14, <2>1, <3>1, <3>2, EnterTypes DEF NPMExits, TypeOK, FrameTypeOK,
         RegistryTypeOK
  <2> QED BY <2>1, <2>2, <2>3
<1>15. CASE Tick
  <2>1. FlagTypeOK'
    BY <1>15 DEF Tick, TypeOK, FlagTypeOK
  <2>2. PollTypeOK'
    BY <1>15 DEF Tick, TypeOK, PollTypeOK
  <2> QED
    BY <1>15, <2>1, <2>2, TimeAssumption DEF Tick, TypeOK, FrameTypeOK, RegistryTypeOK
<1>16. CASE ForeignPublish
  <2>1. version' \in Version /\ age' \in 0..MaxLag
    BY <1>16, ChoiceAssumption, TimeAssumption, AttemptAssumption
    DEF ForeignPublish, Commit, Version
  <2>2. FlagTypeOK'
    BY <1>16 DEF ForeignPublish, Commit, TypeOK, FlagTypeOK
  <2> QED
    BY <1>16, <2>1, <2>2 DEF ForeignPublish, TypeOK, FrameTypeOK, PollTypeOK, RegistryTypeOK
<1>17. CASE RegistryAccepts
  <2>1. /\ version' \in Version /\ age' \in 0..MaxLag
        /\ puts' \subseteq Put /\ packageExists' \in BOOLEAN
    BY <1>17, TimeAssumption, AttemptAssumption
    DEF RegistryAccepts, Commit, Version, TypeOK, RegistryTypeOK, Put, OwnBundle, Bundle
  <2>2. FlagTypeOK'
    BY <1>17, <2>1 DEF RegistryAccepts, TypeOK, FlagTypeOK
  <2> QED
    BY <1>17, <2>1, <2>2 DEF RegistryAccepts, TypeOK, FrameTypeOK, PollTypeOK, RegistryTypeOK
<1>18. CASE RegistryRefuses
  <2>1. FlagTypeOK'
    BY <1>18 DEF RegistryRefuses, TypeOK, FlagTypeOK
  <2> QED
    BY <1>18, <2>1 DEF RegistryRefuses, TypeOK, FrameTypeOK, PollTypeOK, RegistryTypeOK
<1>19. CASE InputsExpire
  <2>1. FlagTypeOK'
    BY <1>19 DEF InputsExpire, TypeOK, FlagTypeOK
  <2> QED
    BY <1>19, <2>1 DEF InputsExpire, TypeOK, FrameTypeOK, PollTypeOK, RegistryTypeOK
<1>20. CASE Crash
  <2>1. FlagTypeOK'
    BY <1>20, LeaveTypes DEF Crash, TypeOK, FlagTypeOK
  <2> QED
    BY <1>20, <2>1, LeaveTypes DEF Crash, TypeOK, FrameTypeOK, RegistryTypeOK, Pcs, Ended
<1>21. CASE Rerun
  <2>1. FlagTypeOK'
    BY <1>21, LeaveTypes DEF Rerun, TypeOK, FlagTypeOK
  <2>2. FrameTypeOK'
    BY <1>21, AttemptAssumption, RecordTypes DEF Rerun, TypeOK, FrameTypeOK, Pcs
  <2> QED
    BY <1>21, <2>1, <2>2, LeaveTypes DEF Rerun, TypeOK, RegistryTypeOK
<1>22. CASE UNCHANGED vars
  <2>1. FlagTypeOK'
    BY <1>22 DEF vars, TypeOK, FlagTypeOK
  <2> QED
    BY <1>22, <2>1 DEF vars, TypeOK, FrameTypeOK, PollTypeOK, RegistryTypeOK
<1> QED
  BY <1>1, <1>2, <1>3, <1>5, <1>6, <1>7, <1>8, <1>9, <1>10, <1>11, <1>12, <1>13,
     <1>14, <1>15, <1>16, <1>17, <1>18, <1>19, <1>20, <1>21, <1>22
  DEF Next, PublishStep, Environment

\* Every reachable state is well typed, whatever the registry answers.
THEOREM TypeCorrect == Spec => []TypeOK
BY InitTypeOK, NextTypeOK, PTL DEF Spec

-----------------------------------------------------------------------------
(* The safety invariant.                                                   *)

\* What Inv says beyond types.
Safe == /\ ObservationsHold /\ WritesAccounted /\ EntryGuards /\ EntryReads
        /\ AdoptsOnlyOwn /\ FirstAttemptNeverAdopts /\ NoSecondPublish
        /\ DeniedMeansNoWrite

\* Inv is the type invariant and the safety part.
LEMMA InvSplit == Inv <=> TypeOK /\ Safe
BY DEF Inv, Safe

\* The safety part holds initially.
LEMMA InitSafe == Init => Safe
<1> SUFFICES ASSUME Init PROVE Safe
    OBVIOUS
<1>1. ObservationsHold
  BY DEF Init, ObservationsHold, Committed, NoVersion, NoPackument, NoAttestations
<1>2. WritesAccounted /\ DeniedMeansNoWrite
  BY DEF Init, WritesAccounted, PutPending, PutCommitted, NoVersion, Committed,
     DeniedMeansNoWrite
<1>3. EntryGuards /\ EntryReads /\ NoSecondPublish
  BY DEF Init, EntryGuards, EntryReads, NoSecondPublish
<1>4. AdoptsOnlyOwn /\ FirstAttemptNeverAdopts
  BY DEF Init, AdoptsOnlyOwn, FirstAttemptNeverAdopts, NoResult
<1> QED
  BY <1>1, <1>2, <1>3, <1>4 DEF Safe

\* decide says committed-as-expected only of this run's publication of the tarball,
\* and outside the read-back only in a later attempt.
LEMMA DecideOwn ==
  ASSUME Inv, NEW failed \in FailedVerifications, NEW exhausted \in BOOLEAN,
         decide(failed, exhausted).state = "committed-as-expected"
  PROVE  OwnPublication /\ (afterMutation \/ attempt > 1)
<1>1. /\ packument.sri # None
      /\ packument.sri = tarball
      /\ decideBundles(failed, exhausted).state = "committed-as-expected"
  BY DEF decide, Decision
<1>2. /\ afterMutation \/ attempt > 1
      /\ \E b \in attestations.bundles \ failed : matchesPublishedBundle(b)
  BY <1>1 DEF decideBundles, Decision
<1>3. PICK b \in attestations.bundles \ failed : matchesPublishedBundle(b)
  BY <1>2
<1>4. b \in Bundle /\ b.verifies
  BY DEF FailedVerifications, Inv, TypeOK, PollTypeOK, Attestations
<1>5. b = OwnBundle(tarball)
  BY <1>3, <1>4 DEF matchesPublishedBundle, OwnBundle, Bundle
<1>6. b \in version.bundles /\ version.digest = tarball
  BY <1>1 DEF Inv, ObservationsHold
<1> QED
  BY <1>2, <1>5, <1>6 DEF OwnPublication

\* At entry decide calls a version absent only on a clean packument without it.
LEMMA DecideAbsent ==
  ASSUME Inv, pc = "decide", ~afterMutation, NEW failed, NEW exhausted \in BOOLEAN,
         decide(failed, exhausted).state = "absent",
         ~decide(failed, exhausted).packageAbsent
  PROVE  ~replicatedAtEntry
<1>1. decideBundles(failed, exhausted).state # "absent"
  BY DEF decideBundles, Decision
<1>2. ~packument.err /\ packument.package /\ ~packument.version
  BY <1>1 DEF decide, Decision
<1> QED
  BY <1>2 DEF Inv, EntryReads

\* The read-back never denies the mutation, and succeeds only on its decision.
LEMMA ReadbackResults ==
  ASSUME NEW decision, NEW err \in BOOLEAN, NEW warning \in BOOLEAN,
         ReadbackOutcome(decision, err, warning)
  PROVE  /\ result'.state = "absent" => result'.id = "publish-rejected-unprocessable"
         /\ result'.state = "committed-as-expected"
              => decision.state = "committed-as-expected" /\ ~err
         /\ result'.mutationAttempted = TRUE
         /\ pc' = "done"
         /\ entryState' = entryState
<1>1. CASE failure("absent", TRUE, "publish-rejected-unprocessable", FALSE)
  BY <1>1 DEF failure, ReadbackOutcome
<1>2. CASE failure("indeterminate", TRUE, "registry-linkage-mismatch", warning)
  BY <1>2 DEF failure, ReadbackOutcome
<1>3. CASE failure("foreign-conflict", TRUE, "registry-linkage-mismatch", warning)
  BY <1>3 DEF failure, ReadbackOutcome
<1>4. CASE success(TRUE, warning) /\ decision.state = "committed-as-expected" /\ ~err
  BY <1>4 DEF success, ReadbackOutcome
<1> QED
  BY <1>1, <1>2, <1>3, <1>4 DEF ReadbackOutcome

\* Whatever classify returns, Publish draws only sound conclusions from it.
LEMMA ClassifiedSafe ==
  ASSUME Inv, pc \in {"decide", "sleep"},
         NEW decision \in Decisions, NEW err \in BOOLEAN, NEW seen \in BOOLEAN,
         decision.state = "committed-as-expected" /\ ~err
           => OwnPublication /\ (afterMutation \/ attempt > 1),
         ~afterMutation /\ ~err /\ decision.state = "absent" /\ ~decision.packageAbsent
           => ~replicatedAtEntry,
         Classified(decision, err, seen)
  PROVE  Safe'
<1> USE DEF attemptVars, registryVars, historyVars
<1>0. ~reduced'
  BY DEF Classified, LeaveClassify
<1>1. ObservationsHold'
  BY DEF Classified, LeaveClassify, Inv, ObservationsHold, Committed, NoVersion,
     NoPackument, NoAttestations
<1>2. OwnPublication' <=> OwnPublication
  BY DEF Classified, OwnPublication, OwnBundle
<1>3. (PutPending' <=> PutPending) /\ (PutCommitted' <=> PutCommitted)
  BY DEF Classified, PutPending, PutCommitted, Committed
<1>4. WritesAccounted'
  BY <1>3 DEF Classified, Inv, WritesAccounted
<1>5. CASE afterMutation
  <2> USE <1>5
  <2>0. PICK warning \in BOOLEAN : ReadbackOutcome(decision, err, warning)
    BY DEF Classified
  <2>1. pc' = "done" /\ result'.mutationAttempted = TRUE /\ entryState' = entryState
    BY <2>0, ReadbackResults
  <2>2. result'.state = "committed-as-expected" => OwnPublication
    BY <2>0, ReadbackResults
  <2>3. ~DeniesMutation'
    BY <2>0, <2>1, ReadbackResults DEF DeniesMutation
  <2>4. EntryGuards'
    BY <1>2, <2>1 DEF Classified, Inv, EntryGuards, Observing
  <2>5. EntryReads' /\ NoSecondPublish'
    BY <1>0, <2>1 DEF Classified, Inv, EntryReads, NoSecondPublish, Committed
  <2> QED
    BY <1>1, <1>2, <1>4, <2>1, <2>2, <2>3, <2>4, <2>5
    DEF Safe, AdoptsOnlyOwn, FirstAttemptNeverAdopts, DeniedMeansNoWrite
<1>6. CASE ~afterMutation
  <2> USE <1>6
  <2>1. ~npmRan
    BY DEF Inv, EntryGuards, Observing
  <2>2. ~PutPending' /\ ~PutCommitted'
    BY <1>3, <2>1 DEF Inv, WritesAccounted
  <2>3. \/ /\ pc' = "done" /\ entryState' = entryState
           /\ result'.state # "committed-as-expected"
        \/ /\ pc' = "npm-version" /\ result' = result
           /\ ~err /\ ~decision.packageAbsent /\ entryState' = decision.state
    BY DEF Classified, EntryOutcome, failure
  <2>4. EntryGuards'
    BY <1>2, <2>1, <2>3 DEF Classified, Inv, EntryGuards, Observing
  <2>5. EntryReads' /\ NoSecondPublish'
    BY <1>0, <2>1, <2>3 DEF Classified, Inv, EntryReads, NoSecondPublish, Committed
  <2>6. AdoptsOnlyOwn' /\ FirstAttemptNeverAdopts'
    BY <1>2, <2>3 DEF Classified, Inv, AdoptsOnlyOwn, FirstAttemptNeverAdopts
  <2> QED
    BY <1>1, <1>4, <2>2, <2>4, <2>5, <2>6 DEF Safe, DeniedMeansNoWrite
<1> QED BY <1>5, <1>6

\* A step that leaves the registry, the attempt and what was concluded alone.
LEMMA QuietSafe ==
  ASSUME Inv,
         UNCHANGED <<attemptVars, entryState, npmRan, version, puts, result,
                     replicatedAtEntry, afterMutation>>,
         age' = age \/ age # MaxLag, reduced' => reduced,
         pc' \in Observing \cup {"sleep"} => pc \in Observing \cup {"sleep"},
         pc' \in {"prepare", "npm-version", "mutate", "done"} => pc = pc',
         packument' \in {packument, NoPackument},
         attestations' \in {attestations, NoAttestations},
         pc' \in {"attestations", "decide"} /\ ~afterMutation
           => pc \in {"attestations", "decide"}
  PROVE  Safe'
<1>1. ObservationsHold'
  BY DEF Inv, ObservationsHold, Committed, NoVersion, NoPackument, NoAttestations
<1>2. (OwnPublication' <=> OwnPublication)
      /\ (PutPending' <=> PutPending) /\ (PutCommitted' <=> PutCommitted)
  BY DEF attemptVars, OwnPublication, OwnBundle, PutPending, PutCommitted, Committed
<1>3. WritesAccounted'
  BY <1>2 DEF attemptVars, Inv, WritesAccounted
<1>4. EntryGuards'
  BY <1>2 DEF attemptVars, Inv, EntryGuards
<1>5. EntryReads'
  BY DEF Inv, EntryReads, Committed, NoPackument
<1> QED
  BY <1>1, <1>2, <1>3, <1>4, <1>5 DEF attemptVars, Inv, Safe, AdoptsOnlyOwn,
     FirstAttemptNeverAdopts, NoSecondPublish, DeniedMeansNoWrite, DeniesMutation

\* Every step preserves the safety part.
LEMMA NextSafe == Inv /\ [Next]_vars => Safe'
<1> SUFFICES ASSUME Inv, [Next]_vars PROVE Safe'
    OBVIOUS
<1> USE DEF attemptVars, publishVars, pollVars, registryVars, historyVars
<1>0. TypeOK
  BY DEF Inv
<1>1. CASE Prepare
  <2>1. ~npmRan /\ ~PutPending /\ ~PutCommitted
    BY <1>1 DEF Prepare, Inv, EntryGuards, WritesAccounted
  <2>2. /\ OwnPublication' <=> OwnPublication
        /\ ~PutPending' /\ ~PutCommitted'
    BY <1>1, <2>1 DEF Prepare, OwnPublication, OwnBundle, PutPending, PutCommitted, Committed
  <2>3. WritesAccounted' /\ DeniedMeansNoWrite' /\ NoSecondPublish'
    BY <1>1, <2>1, <2>2 DEF Prepare, Inv, WritesAccounted, DeniedMeansNoWrite,
       NoSecondPublish
  <2>4. CASE EnterClassify(FALSE, FALSE) /\ UNCHANGED result
             /\ replicatedAtEntry' = (Committed /\ age = MaxLag)
    <3>1. ObservationsHold'
      BY <1>1, <2>4 DEF Prepare, EnterClassify, Inv, ObservationsHold, Committed, NoVersion,
         NoPackument, NoAttestations
    <3>2. entryState = "none"
      BY <1>1 DEF Prepare, Inv, EntryGuards
    <3>3. EntryGuards' /\ EntryReads'
      BY <1>1, <2>1, <2>2, <2>4, <3>2 DEF Prepare, EnterClassify, Inv, EntryGuards,
         EntryReads, Observing, Committed
    <3> QED
      BY <1>1, <2>2, <2>3, <2>4, <3>1, <3>3 DEF Prepare, Inv, Safe, AdoptsOnlyOwn,
         FirstAttemptNeverAdopts
  <2>5. CASE /\ failure("indeterminate", FALSE, "bundle-byte-format-mismatch", FALSE)
             /\ UNCHANGED <<pollVars, replicatedAtEntry>>
    <3>1. pc' = "done" /\ result'.state = "indeterminate"
      BY <2>5 DEF failure
    <3>2. ObservationsHold' /\ EntryReads'
      BY <1>1, <2>5, <3>1 DEF Prepare, Inv, ObservationsHold, EntryReads, Committed,
         NoVersion
    <3>3. EntryGuards'
      BY <1>1, <2>2, <3>1 DEF Prepare, Inv, EntryGuards, Observing
    <3> QED
      BY <2>3, <3>1, <3>2, <3>3 DEF Safe, AdoptsOnlyOwn, FirstAttemptNeverAdopts
  <2> QED BY <1>1, <2>4, <2>5 DEF Prepare
<1>2. CASE ReadPackument
  <2>1. PackumentAnswer(packument') /\ pc' = "attestations" /\ pc = "packument"
    BY <1>2 DEF ReadPackument
  <2>2. packument'.sri # None => version.digest = packument'.sri
    BY <2>1 DEF PackumentAnswer, Without, Showing, NoPackument
  <2>3. replicatedAtEntry => packument'.err \/ packument'.version \/ ~packument'.package
    BY <2>1 DEF PackumentAnswer, Without, Showing, NoPackument, Inv, EntryReads
  <2>4. ObservationsHold'
    BY <1>2, <2>2 DEF ReadPackument, Inv, ObservationsHold, Committed, NoVersion
  <2>5. /\ OwnPublication' <=> OwnPublication
        /\ PutPending' <=> PutPending
        /\ PutCommitted' <=> PutCommitted
    BY <1>2 DEF ReadPackument, OwnPublication, OwnBundle, PutPending, PutCommitted, Committed
  <2>6. EntryGuards' /\ WritesAccounted'
    BY <1>2, <2>1, <2>5 DEF ReadPackument, Inv, EntryGuards, WritesAccounted, Observing
  <2>7. EntryReads' /\ NoSecondPublish'
    BY <1>2, <2>1, <2>3 DEF ReadPackument, Inv, EntryReads, NoSecondPublish, Committed
  <2> QED
    BY <1>2, <2>1, <2>4, <2>5, <2>6, <2>7 DEF ReadPackument, Inv, Safe, AdoptsOnlyOwn,
       FirstAttemptNeverAdopts, DeniedMeansNoWrite
<1>3. CASE ReadAttestations
  <2>1. AttestationAnswer(attestations') /\ pc' = "decide" /\ pc = "attestations"
    BY <1>3 DEF ReadAttestations
  <2>2. attestations'.bundles \subseteq version.bundles
    BY <2>1 DEF AttestationAnswer, NoAttestations
  <2>3. ObservationsHold'
    BY <1>3, <2>2 DEF ReadAttestations, Inv, ObservationsHold, Committed, NoVersion
  <2>4. /\ OwnPublication' <=> OwnPublication
        /\ PutPending' <=> PutPending
        /\ PutCommitted' <=> PutCommitted
    BY <1>3 DEF ReadAttestations, OwnPublication, OwnBundle, PutPending, PutCommitted, Committed
  <2>5. EntryGuards' /\ WritesAccounted'
    BY <1>3, <2>1, <2>4 DEF ReadAttestations, Inv, EntryGuards, WritesAccounted, Observing
  <2>6. EntryReads' /\ NoSecondPublish'
    BY <1>3, <2>1 DEF ReadAttestations, Inv, EntryReads, NoSecondPublish, Committed
  <2> QED
    BY <1>3, <2>1, <2>3, <2>4, <2>5, <2>6 DEF ReadAttestations, Inv, Safe, AdoptsOnlyOwn,
       FirstAttemptNeverAdopts, DeniedMeansNoWrite
<1>4. SeenVersion \in BOOLEAN
  BY DEF SeenVersion
<1>5. CASE PollTerminal
  <2>1. PICK failed \in FailedVerifications :
          Classified(decide(failed, FALSE), FALSE, SeenVersion) /\ pc = "decide"
    BY <1>5 DEF PollTerminal
  <2> DEFINE decision == decide(failed, FALSE)
  <2>2. decision \in Decisions
    BY <1>0, DecideTypes DEF TypeOK
  <2>3. decision.state = "committed-as-expected"
          => OwnPublication /\ (afterMutation \/ attempt > 1)
    BY DecideOwn
  <2>4. ~afterMutation /\ decision.state = "absent" /\ ~decision.packageAbsent
          => ~replicatedAtEntry
    BY <2>1, DecideAbsent
  <2>5. Classified(decision, FALSE, SeenVersion) /\ pc = "decide"
    BY <2>1
  <2> HIDE DEF decision
  <2> QED
    BY <1>4, <2>2, <2>3, <2>4, <2>5, ClassifiedSafe
<1>6. CASE PollAbsenceSettled
  <2> DEFINE decision == Decision("absent", TRUE, FALSE)
  <2>1. decision \in Decisions /\ decision.state = "absent"
    BY DEF Decision, Decisions, PublishState
  <2>2. afterMutation
    BY <1>6 DEF PollAbsenceSettled, AbsenceSettled, ReducedExpired, Inv, EntryReads
  <2>3. Classified(decision, FALSE, SeenVersion) /\ pc = "decide"
    BY <1>6 DEF PollAbsenceSettled
  <2>4. /\ decision.state = "committed-as-expected"
             => OwnPublication /\ (afterMutation \/ attempt > 1)
        /\ ~afterMutation /\ decision.state = "absent" /\ ~decision.packageAbsent
             => ~replicatedAtEntry
    BY <2>1, <2>2
  <2> HIDE DEF decision
  <2> QED
    BY <1>4, <2>1, <2>3, <2>4, ClassifiedSafe
<1>7. CASE PollExhausted
  <2>1. PICK failed \in FailedVerifications :
          Classified(decide(failed, TRUE), decide(failed, TRUE).state = "indeterminate",
                     SeenVersion)
          /\ pc = "decide"
    BY <1>7 DEF PollExhausted
  <2> DEFINE decision == decide(failed, TRUE)
             err == decision.state = "indeterminate"
  <2>2. decision \in Decisions
    BY <1>0, DecideTypes DEF TypeOK
  <2>3. decision.state = "committed-as-expected"
          => OwnPublication /\ (afterMutation \/ attempt > 1)
    BY DecideOwn
  <2>4. ~afterMutation /\ decision.state = "absent" /\ ~decision.packageAbsent
          => ~replicatedAtEntry
    BY <2>1, DecideAbsent
  <2>5. err \in BOOLEAN /\ Classified(decision, err, SeenVersion) /\ pc = "decide"
    BY <2>1
  <2> HIDE DEF decision, err
  <2> QED
    BY <1>4, <2>2, <2>3, <2>4, <2>5, ClassifiedSafe
<1>8. CASE PollSleep
  BY <1>8, QuietSafe DEF PollSleep, Observing
<1>9. CASE Wake
  BY <1>9, QuietSafe DEF Wake, Observing
<1>10. CASE SleepCancelled
  <2> DEFINE decision == Decision("indeterminate", TRUE, FALSE)
  <2>1. decision \in Decisions /\ decision.state = "indeterminate"
    BY DEF Decision, Decisions, PublishState
  <2>2. Classified(decision, TRUE, sawVersion) /\ sawVersion \in BOOLEAN
    BY <1>0, <1>10 DEF SleepCancelled, TypeOK, FlagTypeOK
  <2> HIDE DEF decision
  <2> QED
    BY <1>10, <2>1, <2>2, ClassifiedSafe DEF SleepCancelled
<1>11. CASE CheckNPMVersion
  <2>1. ~npmRan /\ ~PutPending /\ ~PutCommitted /\ pc = "npm-version"
    BY <1>11 DEF CheckNPMVersion, Inv, EntryGuards, WritesAccounted
  <2>2. /\ OwnPublication' <=> OwnPublication
        /\ ~PutPending' /\ ~PutCommitted'
    BY <1>11, <2>1 DEF CheckNPMVersion, OwnPublication, OwnBundle, PutPending,
       PutCommitted, Committed
  <2>3. \/ pc' = "done" /\ result'.state = entryState
        \/ pc' = "mutate" /\ result' = result /\ entryState = "absent"
    <3>1. ASSUME NEW id, failure(entryState, FALSE, id, FALSE)
          PROVE  pc' = "done" /\ result'.state = entryState
      BY <3>1 DEF failure
    <3>2. CASE entryState = "committed-as-expected" /\ success(FALSE, FALSE)
      BY <3>2 DEF success
    <3> QED
      BY <1>11, <3>1, <3>2 DEF CheckNPMVersion
  <2>4. ObservationsHold'
    BY <1>11 DEF CheckNPMVersion, Inv, ObservationsHold, Committed, NoVersion
  <2>5. EntryGuards' /\ WritesAccounted'
    BY <1>11, <2>1, <2>2, <2>3 DEF CheckNPMVersion, Inv, EntryGuards, WritesAccounted,
       Observing
  <2>6. EntryReads' /\ NoSecondPublish'
    BY <1>11, <2>3 DEF CheckNPMVersion, Inv, EntryReads, NoSecondPublish, Committed
  <2>7. AdoptsOnlyOwn' /\ FirstAttemptNeverAdopts'
    BY <1>11, <2>2, <2>3 DEF CheckNPMVersion, Inv, EntryGuards, AdoptsOnlyOwn,
       FirstAttemptNeverAdopts
  <2> QED
    BY <2>2, <2>4, <2>5, <2>6, <2>7 DEF Safe, DeniedMeansNoWrite
<1>12. CASE StartNPM
  <2>1. /\ pc = "mutate" /\ pc' = "npm"
        /\ UNCHANGED <<attempt, tarball, entryState, result, version, age, reduced,
                       afterMutation, packument, attestations, replicatedAtEntry>>
        /\ puts' = puts \cup {[attempt |-> attempt, digest |-> tarball]}
        /\ npmRan'
    BY <1>12 DEF StartNPM
  <2>2. entryState = "absent" /\ ~replicatedAtEntry
    BY <2>1 DEF Inv, EntryGuards, EntryReads
  <2>3. OwnPublication' <=> OwnPublication
    BY <2>1 DEF OwnPublication, OwnBundle
  <2>4. WritesAccounted'
    BY <1>0, <2>1 DEF TypeOK, FrameTypeOK, Inv, WritesAccounted
  <2>5. ObservationsHold' /\ EntryReads'
    BY <2>1, <2>2 DEF Inv, ObservationsHold, EntryReads, Committed, NoVersion
  <2> QED
    BY <2>1, <2>2, <2>3, <2>4, <2>5 DEF Inv, Safe, EntryGuards, Observing, AdoptsOnlyOwn,
       FirstAttemptNeverAdopts, NoSecondPublish, DeniedMeansNoWrite
<1>13. ASSUME NEW code,
              StartReadback(code), pc \in {"mutate", "npm"},
              UNCHANGED <<attemptVars, entryState, npmRan, registryVars, replicatedAtEntry>>
       PROVE  Safe'
  <2>1. /\ pc' = "packument" /\ afterMutation' = TRUE /\ result' = result
        /\ packument' = NoPackument /\ attestations' = NoAttestations
    BY <1>13 DEF StartReadback, EnterClassify
  <2>2. /\ OwnPublication' <=> OwnPublication
        /\ PutPending' <=> PutPending
        /\ PutCommitted' <=> PutCommitted
    BY <1>13 DEF OwnPublication, OwnBundle, PutPending, PutCommitted, Committed
  <2>3. ObservationsHold'
    BY <1>13, <2>1 DEF Inv, ObservationsHold, Committed, NoVersion, NoPackument,
       NoAttestations
  <2>4. EntryGuards' /\ WritesAccounted'
    BY <1>13, <2>1, <2>2 DEF Inv, EntryGuards, WritesAccounted
  <2>5. EntryReads' /\ NoSecondPublish'
    BY <1>13, <2>1 DEF Inv, EntryReads, NoSecondPublish, Committed
  <2> QED
    BY <1>13, <2>1, <2>2, <2>3, <2>4, <2>5 DEF Inv, Safe, AdoptsOnlyOwn,
       FirstAttemptNeverAdopts, DeniedMeansNoWrite
<1>14. CASE RefuseNPM
  BY <1>13, <1>14 DEF RefuseNPM
<1>15. CASE NPMExits
  <2>1. PICK code \in NpmCodes :
          /\ NpmMayReport(code)
          /\ \/ /\ definitivePublishError(code) # ""
                /\ failure("absent", TRUE, definitivePublishError(code), FALSE)
                /\ UNCHANGED <<pollVars, publishedAtReadback>>
             \/ StartReadback(code)
    BY <1>15 DEF NPMExits
  <2>2. CASE StartReadback(code)
    BY <1>13, <1>15, <2>2 DEF NPMExits
  <2>3. CASE /\ definitivePublishError(code) # ""
             /\ failure("absent", TRUE, definitivePublishError(code), FALSE)
             /\ UNCHANGED <<pollVars, publishedAtReadback>>
    <3>1. ~PutPending /\ ~PutCommitted
      BY <2>1, <2>3 DEF NpmMayReport, definitivePublishError, DefinitiveCodes
    <3>2. /\ OwnPublication' <=> OwnPublication
          /\ ~PutPending' /\ ~PutCommitted'
      BY <1>15, <3>1 DEF NPMExits, OwnPublication, OwnBundle, PutPending, PutCommitted,
         Committed
    <3>3. pc' = "done" /\ result'.state = "absent"
      BY <2>3 DEF failure
    <3>4. ObservationsHold'
      BY <1>15, <2>3 DEF NPMExits, Inv, ObservationsHold, Committed, NoVersion
    <3>5. EntryGuards' /\ WritesAccounted'
      BY <1>15, <3>2, <3>3 DEF NPMExits, Inv, EntryGuards, WritesAccounted, Observing
    <3>6. EntryReads' /\ NoSecondPublish'
      BY <1>15, <2>3, <3>3 DEF NPMExits, Inv, EntryReads, NoSecondPublish, Committed
    <3> QED
      BY <3>2, <3>3, <3>4, <3>5, <3>6 DEF Safe, AdoptsOnlyOwn, FirstAttemptNeverAdopts,
         DeniedMeansNoWrite
  <2> QED BY <2>1, <2>2, <2>3
<1>16. CASE Tick
  <2>1. age' = age \/ age # MaxLag
    BY <1>0, <1>16, TimeAssumption DEF Tick, TypeOK, RegistryTypeOK
  <2>2. UNCHANGED <<attemptVars, entryState, npmRan, version, puts, result, pc, reduced,
                    replicatedAtEntry, afterMutation, packument, attestations>>
    BY <1>16 DEF Tick
  <2> QED
    BY <2>1, <2>2, QuietSafe
<1>17. ASSUME NEW d \in Digest, NEW bundles, NEW committer \in Nat,
              Commit(d, bundles, committer), committer <= attempt,
              committer = attempt => PutPending,
              puts' \subseteq puts,
              UNCHANGED <<attemptVars, pc, publishVars, result, pollVars, historyVars>>
       PROVE  Safe'
  <2>1. /\ version = NoVersion /\ ~replicatedAtEntry
        /\ version'.digest = d /\ version'.committer = committer
    BY <1>17 DEF Commit, Inv, ObservationsHold, EntryReads
  <2>2. ~OwnPublication
    BY <1>0, <1>17, DigestAssumption DEF Commit, Committed, OwnPublication, TypeOK,
       FrameTypeOK
  <2>3. ObservationsHold'
    <3>1. Committed' /\ packument.sri = None /\ attestations.bundles = {}
      BY <2>1, <1>17, DigestAssumption DEF Inv, ObservationsHold, NoVersion, Committed
    <3> QED
      BY <1>17, <3>1 DEF ObservationsHold
  <2>4. ~PutPending => ~PutPending' /\ ~PutCommitted'
    BY <1>17, <2>1 DEF PutPending, PutCommitted
  <2>5. WritesAccounted'
    BY <1>17, <2>1, <2>4 DEF Inv, WritesAccounted
  <2>6. EntryGuards' /\ EntryReads' /\ NoSecondPublish'
    BY <1>17, <2>1, <2>2 DEF Inv, EntryGuards, EntryReads, NoSecondPublish
  <2> QED
    BY <1>17, <2>2, <2>3, <2>4, <2>5, <2>6 DEF Inv, Safe, AdoptsOnlyOwn,
       FirstAttemptNeverAdopts, DeniedMeansNoWrite, DeniesMutation
<1>18. CASE ForeignPublish
  BY <1>0, <1>17, <1>18 DEF ForeignPublish, TypeOK, FrameTypeOK
<1>19. CASE RegistryAccepts
  <2>1. PICK p \in puts : /\ Commit(p.digest, {OwnBundle(p.digest)}, p.attempt)
                          /\ puts' = puts \ {p}
    BY <1>19 DEF RegistryAccepts
  <2>2. /\ p.digest \in Digest /\ p.attempt \in Nat /\ p.attempt <= attempt
        /\ p.attempt = attempt => PutPending
    BY <1>0 DEF TypeOK, RegistryTypeOK, Put, Inv, WritesAccounted, PutPending
  <2> QED
    BY <1>17, <1>19, <2>1, <2>2 DEF RegistryAccepts
<1>20. CASE RegistryRefuses
  <2>1. /\ puts' \subseteq puts
        /\ UNCHANGED <<attemptVars, pc, publishVars, result, pollVars, version, age,
                       historyVars>>
    BY <1>20 DEF RegistryRefuses
  <2>2. /\ OwnPublication' <=> OwnPublication
        /\ ~PutPending => ~PutPending'
        /\ PutCommitted' <=> PutCommitted
    BY <2>1 DEF OwnPublication, OwnBundle, PutPending, PutCommitted, Committed
  <2>3. ObservationsHold' /\ EntryReads'
    BY <2>1 DEF Inv, ObservationsHold, EntryReads, Committed, NoVersion
  <2>4. WritesAccounted' /\ EntryGuards'
    BY <2>1, <2>2 DEF Inv, WritesAccounted, EntryGuards
  <2> QED
    BY <2>1, <2>2, <2>3, <2>4 DEF Inv, Safe, AdoptsOnlyOwn, FirstAttemptNeverAdopts,
       NoSecondPublish, DeniedMeansNoWrite, DeniesMutation
<1>21. CASE InputsExpire
  BY <1>21, QuietSafe DEF InputsExpire
<1>22. CASE Crash
  BY <1>22, QuietSafe DEF Crash, LeaveClassify, Observing, Ended
<1>23. CASE Rerun
  <2>1. ObservationsHold'
    BY <1>23 DEF Rerun, LeaveClassify, Inv, ObservationsHold, Committed, NoVersion,
       NoPackument, NoAttestations
  <2>2. /\ attempt' = attempt + 1 /\ attempt \in Nat
        /\ version.committer \in Nat /\ \A p \in puts : p.attempt \in Nat
    BY <1>0, <1>23 DEF Rerun, TypeOK, FrameTypeOK, RegistryTypeOK, Version, Put
  <2>3. WritesAccounted'
    BY <1>23, <2>2 DEF Rerun, Inv, WritesAccounted, PutPending, PutCommitted
  <2>4. EntryGuards' /\ EntryReads' /\ NoSecondPublish'
    BY <1>23 DEF Rerun, LeaveClassify, EntryGuards, EntryReads, NoSecondPublish, Observing
  <2> QED
    BY <1>23, <2>1, <2>3, <2>4 DEF Rerun, Safe, NoResult, AdoptsOnlyOwn,
       FirstAttemptNeverAdopts, DeniedMeansNoWrite
<1>24. CASE UNCHANGED vars
  BY <1>24, QuietSafe DEF vars
<1> QED
  BY <1>1, <1>2, <1>3, <1>5, <1>6, <1>7, <1>8, <1>9, <1>10, <1>11, <1>12, <1>14,
     <1>15, <1>16, <1>18, <1>19, <1>20, <1>21, <1>22, <1>23, <1>24
  DEF Next, PublishStep, Environment

\* Inv is inductive.
THEOREM Invariance == Spec => []Inv
<1>1. Init => Inv
  BY InitTypeOK, InitSafe, InvSplit
<1>2. Inv /\ [Next]_vars => Inv'
  <2> SUFFICES ASSUME Inv, [Next]_vars PROVE TypeOK' /\ Safe'
    BY DEF Inv, Safe
  <2> QED
    BY NextTypeOK, NextSafe DEF Inv
<1> QED
  BY <1>1, <1>2, PTL DEF Spec

\* Success is claimed only for this run's own publication of this very tarball, and on a
\* first attempt only after its own mutation step.
THEOREM OnlyOwnAdopted == Spec => []SuccessIsOwn
<1>1. Inv => SuccessIsOwn
  BY DEF Inv, SuccessIsOwn
<1> QED
  BY <1>1, Invariance, PTL

\* npm is never run against a version that had replicated when the attempt began.
THEOREM PublishedOnce == Spec => []NoSecondPublish
BY Invariance, PTL DEF Inv

\* A result that denies the mutation is true, and stays true.
THEOREM DenialHolds == Spec => []DeniedMeansNoWrite
BY Invariance, PTL DEF Inv

-----------------------------------------------------------------------------
(* The read-back's clock: what the outcomes owe to lag, budgets and faults.*)

\* How long a read may lag must fit the budgets for what follows.
RejectedBudgetFits == MaxLag + RequestTicks <= RejectedBudget
PollBudgetFits     == MaxLag + RequestTicks <= PollBudget

\* A read issued now is bound to show the version: it had replicated at entry, or it was there
\* when the read-back began and the lag has passed since.
Late == replicatedAtEntry \/ (publishedAtReadback /\ MaxLag <= observedAt)

\* The read-back is under way, or over, when the history says what it found.
ReadbackBegan ==
  /\ publishedAtReadback => /\ Committed /\ afterMutation
                            /\ pc \in Observing \cup {"sleep"} \cup Ended
  /\ pc # "done" => result = NoResult
  /\ pc = "prepare" => ~replicatedAtEntry

\* One observation takes at most RequestTicks, and the version ages with the clock.
Clocks ==
  /\ pc \in Observing => observedAt <= elapsed /\ elapsed <= observedAt + RequestTicks
  /\ publishedAtReadback /\ pc \in Observing \cup {"sleep"} => age = MaxLag \/ elapsed <= age

\* What reads without the fault in question return.
CleanReads ==
  /\ CleanPackuments /\ pc \in {"attestations", "decide"}
       => ~packument.err /\ (Late => packument.version)
  /\ faults = {} /\ pc \in {"attestations", "decide"} /\ packument.version
       => Committed /\ packument.package /\ packument.named /\ packument.sri = version.digest
  /\ faults = {} /\ pc = "decide"
       => /\ ~attestations.err
          /\ attestations.bundles \in {{}, version.bundles}
          /\ Late => attestations.bundles = version.bundles

\* A re-run whose publication had replicated never gets past its first observation.
Converging == faults = {} /\ attempt > 1 /\ replicatedAtEntry /\ OwnPublication
RetryGuard ==
  Converging => /\ pc \notin {"sleep", "mutate", "npm"} /\ ~afterMutation
                /\ pc = "npm-version" => entryState = "committed-as-expected"

\* What is true of every ended attempt, given that the lag fits the budgets.
Outcomes ==
  /\ RejectedBudgetFits => DeterminateAbsence
  /\ RejectedBudgetFits /\ PollBudgetFits /\ ~Cancellable
       => ContradictionSurfaced /\ ReadbackConverges
  /\ RetryConverges

\* The inductive invariant behind the outcomes, on top of Inv.
Timely == ReadbackBegan /\ Clocks /\ CleanReads /\ RetryGuard /\ Outcomes

\* The initial state is timely.
LEMMA InitTimely == Init => Timely
<1> SUFFICES ASSUME Init PROVE Timely
    OBVIOUS
<1>1. ReadbackBegan /\ Clocks /\ CleanReads /\ RetryGuard
  BY DEF Init, ReadbackBegan, Clocks, CleanReads, RetryGuard, Converging, Observing
<1>2. Outcomes
  BY DEF Init, Outcomes, DeterminateAbsence, ContradictionSurfaced, ReadbackConverges,
     RetryConverges, NoResult
<1> QED
  BY <1>1, <1>2 DEF Timely

\* An observation that ends after the budget began after the lag.
LEMMA LateWhenSpent ==
  ASSUME TypeOK, Clocks, pc = "decide", publishedAtReadback, NEW budget \in Nat,
         MaxLag + RequestTicks <= budget, budget <= elapsed
  PROVE  Late
BY TimeAssumption DEF TypeOK, PollTypeOK, Clocks, Observing, Late

\* After the mutation decide never says absent, and stops early only on a version it saw.
LEMMA DecideReadback ==
  ASSUME afterMutation, NEW failed, NEW exhausted \in BOOLEAN
  PROVE  /\ decide(failed, exhausted).state # "absent"
         /\ ~exhausted /\ decide(failed, exhausted).terminal
              => ~packument.err /\ packument.version
<1>1. decideBundles(failed, exhausted).state # "absent"
  BY DEF decideBundles, Decision
<1> QED
  BY <1>1 DEF decide, Decision

\* Without faults decide adopts this run's publication as soon as it sees its bundles, and
\* reaches no other terminal decision about it.
LEMMA DecideAdopts ==
  ASSUME Inv, CleanReads, pc = "decide", faults = {}, OwnPublication,
         NEW failed \in FailedVerifications, NEW exhausted \in BOOLEAN,
         afterMutation \/ (attempt > 1 /\ packument.version),
         Late \/ (~exhausted /\ decide(failed, exhausted).terminal)
  PROVE  /\ decide(failed, exhausted).state = "committed-as-expected"
         /\ decide(failed, exhausted).terminal
         /\ ~decide(failed, exhausted).packageAbsent
<1>1. /\ ~packument.err /\ ~attestations.err
      /\ Late => packument.version
  BY DEF CleanReads, CleanPackuments
<1>2. packument.version
  BY <1>1, DecideReadback
<1>3. packument.package /\ packument.named /\ packument.sri = tarball /\ tarball # None
  BY <1>2, DigestAssumption DEF CleanReads, OwnPublication, Inv, TypeOK, FrameTypeOK
<1>4. decide(failed, exhausted) = decideBundles(failed, exhausted)
  BY <1>1, <1>2, <1>3 DEF decide
<1>5. CASE attestations.bundles = version.bundles
  <2>1. OwnBundle(tarball) \in attestations.bundles
    BY <1>5 DEF OwnPublication
  <2>2. OwnBundle(tarball) \notin failed
    BY <2>1 DEF FailedVerifications, OwnBundle
  <2>3. matchesPublishedBundle(OwnBundle(tarball))
    BY DEF matchesPublishedBundle, OwnBundle
  <2>4. afterMutation \/ attempt > 1
    OBVIOUS
  <2> QED
    BY <1>4, <2>1, <2>2, <2>3, <2>4 DEF decideBundles, Decision
<1>6. CASE attestations.bundles = {} /\ ~Late
  <2>1. failed = {}
    BY <1>6 DEF FailedVerifications
  <2>2. ~decideBundles(failed, exhausted).terminal
    BY <1>6, <2>1 DEF decideBundles, Decision
  <2> QED
    BY <1>4, <1>6, <2>2
<1> QED
  BY <1>5, <1>6 DEF CleanReads

\* What the read-back's conclusion carries of its decision.
LEMMA ReadbackReports ==
  ASSUME NEW decision, NEW err \in BOOLEAN, NEW warning \in BOOLEAN,
         ReadbackOutcome(decision, err, warning)
  PROVE  /\ result'.id = "publish-rejected-unprocessable" => decision.state = "absent"
         /\ decision.state # "absent" => result'.warning = warning
         /\ decision.state = "committed-as-expected" /\ ~err
              => result'.state = "committed-as-expected"
<1>1. CASE decision.state = "absent"
           /\ failure("absent", TRUE, "publish-rejected-unprocessable", FALSE)
  BY <1>1 DEF failure
<1>2. CASE /\ err \/ decision.state \notin {"foreign-conflict", "committed-as-expected"}
           /\ failure("indeterminate", TRUE, "registry-linkage-mismatch", warning)
  BY <1>2 DEF failure
<1>3. CASE decision.state = "foreign-conflict"
           /\ failure("foreign-conflict", TRUE, "registry-linkage-mismatch", warning)
  BY <1>3 DEF failure
<1>4. CASE decision.state = "committed-as-expected" /\ success(TRUE, warning)
  BY <1>4 DEF success
<1> QED
  BY <1>1, <1>2, <1>3, <1>4 DEF ReadbackOutcome

\* Publish draws the right conclusion from a decision that is right for its history.
LEMMA ClassifiedTimely ==
  ASSUME Inv, Timely, pc \in {"decide", "sleep"},
         NEW decision \in Decisions, NEW err \in BOOLEAN, NEW seen \in BOOLEAN,
         Converging => /\ decision.state = "committed-as-expected"
                       /\ ~err /\ ~decision.packageAbsent,
         RejectedBudgetFits /\ CleanPackuments /\ afterMutation /\ publishedAtReadback
           => decision.state # "absent",
         RejectedBudgetFits /\ PollBudgetFits /\ ~Cancellable /\ afterMutation
             /\ publishedAtReadback
           => /\ CleanPackuments => seen
              /\ faults = {} /\ OwnPublication
                   => decision.state = "committed-as-expected" /\ ~err,
         Classified(decision, err, seen)
  PROVE  Timely'
<1> USE DEF attemptVars, registryVars, historyVars
<1>0. /\ OwnPublication' <=> OwnPublication
      /\ Converging' <=> Converging
      /\ CleanPackuments' <=> CleanPackuments
      /\ Committed' <=> Committed
  BY DEF Classified, OwnPublication, OwnBundle, Converging, CleanPackuments, Committed
<1>1. CASE afterMutation
  <2> USE <1>1
  <2>1. ReadbackOutcome(decision, err, npmCode = "e422" /\ seen)
    BY DEF Classified
  <2>2. pc' = "done" /\ ~Converging
    BY <2>1 DEF ReadbackOutcome, failure, success, Timely, RetryGuard
  <2>3. ReadbackBegan' /\ Clocks' /\ CleanReads' /\ RetryGuard'
    BY <1>0, <2>2 DEF Classified, Timely, ReadbackBegan, Clocks, CleanReads, RetryGuard,
       Observing, Ended
  <2>4. PICK warning \in BOOLEAN : /\ ReadbackOutcome(decision, err, warning)
                                   /\ npmCode = "e422" /\ seen => warning
    BY <2>1
  <2>5. /\ result'.id = "publish-rejected-unprocessable" => decision.state = "absent"
        /\ decision.state # "absent" => result'.warning = warning
        /\ decision.state = "committed-as-expected" /\ ~err
             => result'.state = "committed-as-expected"
    BY <2>4, ReadbackReports
  <2>7. RejectedBudgetFits => DeterminateAbsence'
    BY <1>0, <2>5 DEF Classified, DeterminateAbsence
  <2>8. RejectedBudgetFits /\ PollBudgetFits /\ ~Cancellable
          => ContradictionSurfaced' /\ ReadbackConverges'
    BY <1>0, <2>4, <2>5 DEF Classified, ContradictionSurfaced, ReadbackConverges
  <2>9. RetryConverges'
    BY <1>0, <2>2 DEF RetryConverges, Converging
  <2> QED
    BY <2>3, <2>7, <2>8, <2>9 DEF Timely, Outcomes, RejectedBudgetFits, PollBudgetFits
<1>2. CASE ~afterMutation
  <2> USE <1>2
  <2>0. EntryOutcome(decision, err)
    BY DEF Classified
  <2>1. ~publishedAtReadback /\ result = NoResult
    BY DEF Timely, ReadbackBegan
  <2>2. \/ pc' = "done"
        \/ pc' = "npm-version" /\ result' = result
    BY <2>0 DEF EntryOutcome, failure
  <2>3. Converging => pc' = "npm-version" /\ entryState' = "committed-as-expected"
    BY <2>0 DEF EntryOutcome, failure
  <2>4. ReadbackBegan' /\ Clocks' /\ CleanReads'
    BY <2>1, <2>2 DEF Classified, Timely, ReadbackBegan, Clocks, CleanReads, Observing
  <2>5. RetryGuard' /\ RetryConverges'
    BY <1>0, <2>2, <2>3 DEF Classified, RetryGuard, RetryConverges, Converging
  <2>6. DeterminateAbsence' /\ ContradictionSurfaced' /\ ReadbackConverges'
    BY <2>1 DEF Classified, DeterminateAbsence, ContradictionSurfaced, ReadbackConverges
  <2> QED
    BY <2>4, <2>5, <2>6 DEF Timely, Outcomes
<1> QED BY <1>1, <1>2

\* A step that reports nothing, within the attempt: what the outcomes say is untouched.
LEMMA NoOutcome ==
  ASSUME Timely, pc' # "done", result' = NoResult
  PROVE  Outcomes'
BY DEF Outcomes, DeterminateAbsence, ContradictionSurfaced, ReadbackConverges,
   RetryConverges, NoResult

\* A step that leaves the version, the attempt, its observations and the history alone.
LEMMA QuietTimely ==
  ASSUME Timely,
         UNCHANGED <<attempt, tarball, faults, entryState, npmCode, version, age, result,
                     afterMutation, pc, elapsed, observedAt, packument, attestations,
                     replicatedAtEntry, publishedAtReadback>>
  PROVE  Timely'
<1>0. /\ OwnPublication' <=> OwnPublication
      /\ CleanPackuments' <=> CleanPackuments
      /\ Committed' <=> Committed
      /\ Late' <=> Late
  BY DEF OwnPublication, OwnBundle, CleanPackuments, Committed, Late
<1>1. Converging' <=> Converging
  BY <1>0 DEF Converging
<1>2. ReadbackBegan' /\ Clocks'
  BY <1>0 DEF Timely, ReadbackBegan, Clocks
<1>3. CleanReads'
  BY <1>0 DEF Timely, CleanReads
<1>4. RetryGuard'
  BY <1>1 DEF Timely, RetryGuard
<1>5. DeterminateAbsence' <=> DeterminateAbsence
  BY <1>0 DEF DeterminateAbsence
<1>6. /\ ContradictionSurfaced' <=> ContradictionSurfaced
      /\ ReadbackConverges' <=> ReadbackConverges
      /\ RetryConverges' <=> RetryConverges
  BY <1>0 DEF ContradictionSurfaced, ReadbackConverges, RetryConverges
<1> QED
  BY <1>2, <1>3, <1>4, <1>5, <1>6 DEF Timely, Outcomes, RejectedBudgetFits, PollBudgetFits

\* Every step preserves Timely.
LEMMA NextTimely == Inv /\ Timely /\ [Next]_vars => Timely'
<1> SUFFICES ASSUME Inv, Timely, [Next]_vars PROVE Timely'
    OBVIOUS
<1> USE DEF attemptVars, publishVars, pollVars, registryVars, historyVars
<1>0. TypeOK
  BY DEF Inv
<1>1. CASE Prepare
  <2>1. ~publishedAtReadback /\ result = NoResult /\ ~replicatedAtEntry
    BY <1>1 DEF Prepare, Timely, ReadbackBegan, Observing, Ended
  <2>2. CASE EnterClassify(FALSE, FALSE) /\ UNCHANGED result
    <3>1. pc' = "packument" /\ ~afterMutation' /\ elapsed' = 0 /\ observedAt' = 0
      BY <2>2 DEF EnterClassify
    <3>2. ReadbackBegan' /\ CleanReads' /\ RetryGuard'
      BY <1>1, <2>1, <2>2, <3>1 DEF Prepare, ReadbackBegan, CleanReads, RetryGuard
    <3>3. Clocks'
      BY <1>1, <2>1, <3>1, TimeAssumption DEF Prepare, Clocks
    <3> QED
      BY <2>1, <2>2, <3>1, <3>2, <3>3, NoOutcome DEF Timely
  <2>3. CASE /\ failure("indeterminate", FALSE, "bundle-byte-format-mismatch", FALSE)
             /\ UNCHANGED <<pollVars, replicatedAtEntry>>
    <3>1. pc' = "done" /\ ~publishedAtReadback' /\ ~replicatedAtEntry'
      BY <1>1, <2>1, <2>3 DEF Prepare, failure
    <3>2. ReadbackBegan' /\ CleanReads' /\ RetryGuard' /\ Clocks'
      BY <3>1 DEF ReadbackBegan, CleanReads, RetryGuard, Converging, Clocks, Observing
    <3>3. Outcomes'
      BY <3>1 DEF Outcomes, DeterminateAbsence, ContradictionSurfaced, ReadbackConverges,
         RetryConverges
    <3> QED
      BY <3>2, <3>3 DEF Timely
  <2> QED BY <1>1, <2>2, <2>3 DEF Prepare
<1>2. CASE ReadPackument
  <2>1. /\ pc = "packument" /\ pc' = "attestations" /\ PackumentAnswer(packument')
        /\ UNCHANGED <<attemptVars, entryState, npmCode, version, age, result, elapsed,
                       observedAt, afterMutation, historyVars>>
    BY <1>2 DEF ReadPackument
  <2>2. /\ OwnPublication' <=> OwnPublication
        /\ CleanPackuments' <=> CleanPackuments
        /\ Committed' <=> Committed
        /\ Late' <=> Late
    BY <2>1 DEF OwnPublication, OwnBundle, CleanPackuments, Committed, Late
  <2>3. Late => Committed /\ age = MaxLag
    <3>1. CASE replicatedAtEntry
      BY <3>1 DEF Inv, EntryReads
    <3>2. CASE publishedAtReadback /\ MaxLag <= observedAt
      <4>1. Committed
        BY <3>2 DEF Timely, ReadbackBegan
      <4>2. age \in 0..MaxLag /\ elapsed \in Nat /\ observedAt \in Nat /\ MaxLag \in Nat
        BY <1>0, TimeAssumption DEF TypeOK, RegistryTypeOK, PollTypeOK
      <4>3. observedAt <= elapsed /\ (age = MaxLag \/ elapsed <= age)
        BY <2>1, <3>2 DEF Timely, Clocks, Observing
      <4> QED
        BY <3>2, <4>1, <4>2, <4>3
    <3> QED BY <3>1, <3>2 DEF Late
  <2>4. CleanPackuments => ~packument'.err /\ (Late => packument'.version)
    BY <2>1, <2>3 DEF PackumentAnswer, Without, Showing, CleanPackuments
  <2>5. faults = {} /\ packument'.version
          => Committed /\ packument'.package /\ packument'.named
             /\ packument'.sri = version.digest
    BY <2>1 DEF PackumentAnswer, Without, Showing
  <2>6. CleanReads'
    BY <2>1, <2>2, <2>4, <2>5 DEF CleanReads
  <2>7. ReadbackBegan' /\ Clocks'
    BY <2>1, <2>2 DEF Timely, ReadbackBegan, Clocks, Observing
  <2>8. RetryGuard'
    BY <2>1, <2>2 DEF Timely, RetryGuard, Converging
  <2>9. result' = NoResult
    BY <2>1 DEF Timely, ReadbackBegan
  <2> QED
    BY <2>1, <2>6, <2>7, <2>8, <2>9, NoOutcome DEF Timely
<1>3. CASE ReadAttestations
  <2>1. /\ pc = "attestations" /\ pc' = "decide" /\ AttestationAnswer(attestations')
        /\ UNCHANGED <<attemptVars, entryState, npmCode, version, age, result, elapsed,
                       observedAt, afterMutation, packument, historyVars>>
    BY <1>3 DEF ReadAttestations
  <2>2. /\ OwnPublication' <=> OwnPublication
        /\ CleanPackuments' <=> CleanPackuments
        /\ Committed' <=> Committed
        /\ Late' <=> Late
    BY <2>1 DEF OwnPublication, OwnBundle, CleanPackuments, Committed, Late
  <2>3. Late => Committed /\ age = MaxLag
    <3>1. CASE replicatedAtEntry
      BY <3>1 DEF Inv, EntryReads
    <3>2. CASE publishedAtReadback /\ MaxLag <= observedAt
      <4>1. Committed
        BY <3>2 DEF Timely, ReadbackBegan
      <4>2. age \in 0..MaxLag /\ elapsed \in Nat /\ observedAt \in Nat /\ MaxLag \in Nat
        BY <1>0, TimeAssumption DEF TypeOK, RegistryTypeOK, PollTypeOK
      <4>3. observedAt <= elapsed /\ (age = MaxLag \/ elapsed <= age)
        BY <2>1, <3>2 DEF Timely, Clocks, Observing
      <4> QED
        BY <3>2, <4>1, <4>2, <4>3
    <3> QED BY <3>1, <3>2 DEF Late
  <2>4. faults = {}
          => /\ ~attestations'.err
             /\ attestations'.bundles \in {{}, version.bundles}
             /\ Late => attestations'.bundles = version.bundles
    BY <2>1, <2>3 DEF AttestationAnswer
  <2>6. CleanReads'
    BY <2>1, <2>2, <2>4 DEF Timely, CleanReads
  <2>7. ReadbackBegan' /\ Clocks'
    BY <2>1, <2>2 DEF Timely, ReadbackBegan, Clocks, Observing
  <2>8. RetryGuard'
    BY <2>1, <2>2 DEF Timely, RetryGuard, Converging
  <2>9. result' = NoResult
    BY <2>1 DEF Timely, ReadbackBegan
  <2> QED
    BY <2>1, <2>6, <2>7, <2>8, <2>9, NoOutcome DEF Timely
<1>4. /\ SeenVersion \in BOOLEAN /\ sawVersion \in BOOLEAN
      /\ RejectedBudget \in Nat /\ PollBudget \in Nat
  BY <1>0, TimeAssumption DEF SeenVersion, TypeOK, FlagTypeOK
<1>5. ASSUME Converging, pc = "decide", NEW failed \in FailedVerifications,
             NEW exhausted \in BOOLEAN
      PROVE  /\ decide(failed, exhausted).state = "committed-as-expected"
             /\ decide(failed, exhausted).terminal
             /\ ~decide(failed, exhausted).packageAbsent
  <2>1. Late /\ faults = {} /\ OwnPublication /\ attempt > 1
    BY <1>5 DEF Converging, Late
  <2>2. packument.version
    BY <1>5, <2>1 DEF Timely, CleanReads, CleanPackuments
  <2> QED
    BY <1>5, <2>1, <2>2, DecideAdopts DEF Timely
<1>6. CASE PollTerminal
  <2>1. PICK failed \in FailedVerifications :
          /\ decide(failed, FALSE).terminal
          /\ Classified(decide(failed, FALSE), FALSE, SeenVersion)
          /\ pc = "decide"
    BY <1>6 DEF PollTerminal
  <2> DEFINE decision == decide(failed, FALSE)
  <2>2. decision \in Decisions
    BY <1>0, DecideTypes DEF TypeOK
  <2>3. Converging => /\ decision.state = "committed-as-expected"
                      /\ ~decision.packageAbsent
    BY <1>5, <2>1
  <2>4. afterMutation => decision.state # "absent" /\ SeenVersion
    BY <2>1, DecideReadback DEF SeenVersion
  <2>5. afterMutation /\ faults = {} /\ OwnPublication
          => decision.state = "committed-as-expected"
    BY <2>1, DecideAdopts DEF Timely
  <2>6. Classified(decision, FALSE, SeenVersion) /\ pc = "decide"
    BY <2>1
  <2> HIDE DEF decision
  <2> QED
    BY <1>4, <2>2, <2>3, <2>4, <2>5, <2>6, ClassifiedTimely
<1>7. CASE PollAbsenceSettled
  <2> DEFINE decision == Decision("absent", TRUE, FALSE)
  <2>1. decision \in Decisions
    BY DEF Decision, Decisions, PublishState
  <2>2. /\ Classified(decision, FALSE, SeenVersion) /\ pc = "decide"
        /\ \E failed \in FailedVerifications : ~decide(failed, FALSE).terminal
        /\ AbsenceSettled
    BY <1>7 DEF PollAbsenceSettled
  <2>3. ~Converging
    BY <1>5, <2>2
  <2>4. ~(RejectedBudgetFits /\ CleanPackuments /\ publishedAtReadback)
    <3>1. RejectedBudget <= elapsed /\ ~SeenVersion
      BY <2>2 DEF AbsenceSettled, ReducedExpired
    <3>2. RejectedBudgetFits /\ publishedAtReadback => Late
      BY <1>0, <1>4, <2>2, <3>1, LateWhenSpent DEF RejectedBudgetFits, Timely
    <3> QED
      BY <2>2, <3>1, <3>2 DEF Timely, CleanReads, SeenVersion
  <2>5. faults = {} => CleanPackuments
    BY DEF CleanPackuments
  <2> HIDE DEF decision
  <2> QED
    BY <1>4, <2>1, <2>2, <2>3, <2>4, <2>5, ClassifiedTimely
<1>8. CASE PollExhausted
  <2>1. PICK failed \in FailedVerifications :
          Classified(decide(failed, TRUE), decide(failed, TRUE).state = "indeterminate",
                     SeenVersion)
    BY <1>8 DEF PollExhausted
  <2> DEFINE decision == decide(failed, TRUE)
             err == decision.state = "indeterminate"
  <2>2. pc = "decide" /\ PollBudget <= elapsed
    BY <1>8 DEF PollExhausted
  <2>3. decision \in Decisions
    BY <1>0, DecideTypes DEF TypeOK
  <2>4. Converging => /\ decision.state = "committed-as-expected"
                      /\ ~decision.packageAbsent
    BY <1>5, <2>2
  <2>5. afterMutation => decision.state # "absent"
    BY DecideReadback
  <2>6. PollBudgetFits /\ publishedAtReadback => Late
    BY <1>0, <1>4, <2>2, LateWhenSpent DEF PollBudgetFits, Timely
  <2>7. PollBudgetFits /\ publishedAtReadback /\ CleanPackuments => SeenVersion
    BY <2>2, <2>6 DEF Timely, CleanReads, SeenVersion
  <2>8. PollBudgetFits /\ publishedAtReadback /\ faults = {} /\ OwnPublication /\ afterMutation
          => decision.state = "committed-as-expected"
    BY <2>2, <2>6, DecideAdopts DEF Timely
  <2>9. /\ err \in BOOLEAN /\ Classified(decision, err, SeenVersion)
        /\ decision.state = "committed-as-expected" => ~err
    BY <2>1
  <2> HIDE DEF decision, err
  <2> QED
    BY <1>4, <2>2, <2>3, <2>4, <2>5, <2>7, <2>8, <2>9, ClassifiedTimely
<1>9. CASE PollSleep
  <2>1. /\ pc = "decide" /\ pc' = "sleep"
        /\ UNCHANGED <<attemptVars, entryState, npmCode, version, age, result, elapsed,
                       observedAt, afterMutation, historyVars>>
        /\ \E failed \in FailedVerifications : ~decide(failed, FALSE).terminal
    BY <1>9 DEF PollSleep
  <2>2. ~Converging
    BY <1>5, <2>1
  <2>3. ReadbackBegan' /\ Clocks' /\ CleanReads'
    BY <2>1 DEF Timely, ReadbackBegan, Clocks, CleanReads, Observing, Committed
  <2>4. RetryGuard'
    BY <2>1, <2>2 DEF RetryGuard, Converging, OwnPublication, OwnBundle
  <2>5. result' = NoResult
    BY <2>1 DEF Timely, ReadbackBegan
  <2> QED
    BY <2>1, <2>3, <2>4, <2>5, NoOutcome DEF Timely
<1>10. CASE Wake
  <2>1. /\ pc = "sleep" /\ pc' = "packument" /\ observedAt' = elapsed
        /\ UNCHANGED <<attemptVars, entryState, npmCode, version, age, result, elapsed,
                       afterMutation, historyVars>>
    BY <1>10 DEF Wake
  <2>2. ReadbackBegan' /\ CleanReads'
    BY <2>1 DEF Timely, ReadbackBegan, CleanReads, Observing, Committed
  <2>3. Clocks'
    BY <1>0, <2>1, TimeAssumption DEF Timely, Clocks, Observing, TypeOK, PollTypeOK
  <2>4. RetryGuard'
    BY <2>1 DEF Timely, RetryGuard, Converging, OwnPublication, OwnBundle
  <2>5. result' = NoResult
    BY <2>1 DEF Timely, ReadbackBegan
  <2> QED
    BY <2>1, <2>2, <2>3, <2>4, <2>5, NoOutcome DEF Timely
<1>11. CASE SleepCancelled
  <2> DEFINE decision == Decision("indeterminate", TRUE, FALSE)
  <2>1. decision \in Decisions /\ decision.state = "indeterminate"
    BY DEF Decision, Decisions, PublishState
  <2>2. Classified(decision, TRUE, sawVersion) /\ pc = "sleep" /\ Cancellable
    BY <1>11 DEF SleepCancelled
  <2>3. ~Converging
    BY <2>2 DEF Timely, RetryGuard
  <2> HIDE DEF decision
  <2> QED
    BY <1>4, <2>1, <2>2, <2>3, ClassifiedTimely
<1>12. CASE CheckNPMVersion
  <2>1. /\ pc = "npm-version"
        /\ UNCHANGED <<attemptVars, entryState, npmCode, version, age, elapsed,
                       observedAt, afterMutation, historyVars>>
    BY <1>12 DEF CheckNPMVersion
  <2>2. ~publishedAtReadback /\ result = NoResult
    BY <2>1 DEF Timely, ReadbackBegan, Observing, Ended
  <2>3. Converging' <=> Converging
    BY <2>1 DEF Converging, OwnPublication, OwnBundle
  <2>4. Converging => entryState = "committed-as-expected"
    BY <2>1 DEF Timely, RetryGuard
  <2>5. \/ pc' = "done" /\ result'.state = entryState
        \/ pc' = "mutate" /\ result' = result /\ entryState = "absent"
    <3>1. ASSUME NEW id, failure(entryState, FALSE, id, FALSE)
          PROVE  pc' = "done" /\ result'.state = entryState
      BY <3>1 DEF failure
    <3>2. CASE entryState = "committed-as-expected" /\ success(FALSE, FALSE)
      BY <3>2 DEF success
    <3> QED
      BY <1>12, <3>1, <3>2 DEF CheckNPMVersion
  <2>6. ReadbackBegan' /\ Clocks' /\ CleanReads'
    BY <2>1, <2>2, <2>5 DEF ReadbackBegan, Clocks, CleanReads, Observing
  <2>7. RetryGuard'
    BY <2>1, <2>3, <2>4, <2>5 DEF Timely, RetryGuard
  <2>8. RetryConverges'
    BY <2>3, <2>4, <2>5 DEF RetryConverges, Converging
  <2>9. DeterminateAbsence' /\ ContradictionSurfaced' /\ ReadbackConverges'
    BY <2>1, <2>2 DEF DeterminateAbsence, ContradictionSurfaced, ReadbackConverges
  <2> QED
    BY <2>6, <2>7, <2>8, <2>9 DEF Timely, Outcomes
<1>13. CASE StartNPM
  <2>1. /\ pc = "mutate" /\ pc' = "npm"
        /\ UNCHANGED <<attemptVars, result, version, historyVars>>
    BY <1>13 DEF StartNPM
  <2>2. ~publishedAtReadback /\ ~Converging /\ result = NoResult
    BY <2>1 DEF Timely, ReadbackBegan, RetryGuard, Observing, Ended
  <2>3. ~publishedAtReadback' /\ ~Converging' /\ result' = NoResult
    BY <2>1, <2>2 DEF Converging, OwnPublication, OwnBundle
  <2>4. ReadbackBegan' /\ Clocks' /\ CleanReads' /\ RetryGuard'
    BY <2>1, <2>3 DEF ReadbackBegan, Clocks, CleanReads, RetryGuard, Observing
  <2> QED
    BY <2>1, <2>3, <2>4, NoOutcome DEF Timely
<1>14. ASSUME NEW code, StartReadback(code), pc \in {"mutate", "npm"},
              UNCHANGED <<attemptVars, entryState, npmRan, registryVars, replicatedAtEntry>>
       PROVE  Timely'
  <2>1. /\ pc' = "packument" /\ afterMutation' = TRUE /\ result' = result
        /\ elapsed' = 0 /\ observedAt' = 0 /\ publishedAtReadback' = Committed
    BY <1>14 DEF StartReadback, EnterClassify
  <2>2. ~Converging' /\ result' = NoResult
    BY <1>14, <2>1 DEF Timely, RetryGuard, ReadbackBegan, Converging, OwnPublication, OwnBundle
  <2>3. ReadbackBegan' /\ CleanReads' /\ RetryGuard'
    BY <1>14, <2>1, <2>2 DEF ReadbackBegan, CleanReads, RetryGuard, Observing, Committed
  <2>4. Clocks'
    BY <1>0, <1>14, <2>1, TimeAssumption DEF Clocks, TypeOK, RegistryTypeOK
  <2> QED
    BY <2>1, <2>2, <2>3, <2>4, NoOutcome DEF Timely
<1>15. CASE RefuseNPM
  BY <1>14, <1>15 DEF RefuseNPM
<1>16. CASE NPMExits
  <2>1. PICK code \in NpmCodes :
          \/ /\ definitivePublishError(code) # ""
             /\ failure("absent", TRUE, definitivePublishError(code), FALSE)
             /\ UNCHANGED <<pollVars, publishedAtReadback>>
          \/ StartReadback(code)
    BY <1>16 DEF NPMExits
  <2>2. CASE StartReadback(code)
    BY <1>14, <1>16, <2>2 DEF NPMExits
  <2>3. CASE /\ failure("absent", TRUE, definitivePublishError(code), FALSE)
             /\ UNCHANGED <<pollVars, publishedAtReadback>>
    <3>1. pc = "npm" /\ pc' = "done"
      BY <1>16, <2>3 DEF NPMExits, failure
    <3>2. ~publishedAtReadback /\ ~Converging
      BY <3>1 DEF Timely, ReadbackBegan, RetryGuard, Observing, Ended
    <3>3. ~publishedAtReadback' /\ ~Converging'
      BY <1>16, <2>3, <3>2 DEF NPMExits, Converging, OwnPublication, OwnBundle
    <3>4. ReadbackBegan' /\ Clocks' /\ CleanReads' /\ RetryGuard'
      BY <3>1, <3>3 DEF ReadbackBegan, Clocks, CleanReads, RetryGuard, Observing
    <3>5. RetryConverges'
      BY <3>3 DEF RetryConverges, Converging
    <3>6. DeterminateAbsence' /\ ContradictionSurfaced' /\ ReadbackConverges'
      BY <3>3 DEF DeterminateAbsence, ContradictionSurfaced, ReadbackConverges
    <3> QED
      BY <3>4, <3>5, <3>6 DEF Timely, Outcomes
  <2> QED BY <2>1, <2>2, <2>3
<1>17. CASE Tick
  <2>1. /\ UNCHANGED <<attemptVars, entryState, npmCode, version, result, afterMutation, pc,
                       observedAt, packument, attestations, historyVars>>
        /\ age' = IF Committed /\ age < MaxLag THEN age + 1 ELSE age
    BY <1>17 DEF Tick
  <2>2. /\ OwnPublication' <=> OwnPublication
        /\ CleanPackuments' <=> CleanPackuments
        /\ Committed' <=> Committed
        /\ Late' <=> Late
    BY <2>1 DEF OwnPublication, OwnBundle, CleanPackuments, Committed, Late
  <2>3. Converging' <=> Converging
    BY <2>1, <2>2 DEF Converging
  <2>4. ReadbackBegan' /\ CleanReads' /\ RetryGuard'
    <3>1. ReadbackBegan'
      BY <2>1, <2>2 DEF Timely, ReadbackBegan
    <3>2. CleanReads'
      BY <2>1, <2>2 DEF Timely, CleanReads
    <3>3. RetryGuard'
      BY <2>1, <2>3 DEF Timely, RetryGuard
    <3> QED BY <3>1, <3>2, <3>3
  <2>5. Clocks'
    <3>1. /\ elapsed \in Nat /\ observedAt \in Nat /\ age \in 0..MaxLag
          /\ MaxLag \in Nat /\ RequestTicks \in Nat
      BY <1>0, TimeAssumption DEF TypeOK, PollTypeOK, RegistryTypeOK
    <3>2. pc \in Observing => observedAt <= elapsed' /\ elapsed' <= observedAt + RequestTicks
      <4>1. pc \in Observing
              => elapsed < observedAt + RequestTicks /\ elapsed' = elapsed + 1
        BY <1>17 DEF Tick, Observing
      <4>2. pc \in Observing => observedAt <= elapsed
        BY DEF Timely, Clocks
      <4> QED
        BY <3>1, <4>1, <4>2
    <3>3. publishedAtReadback /\ pc \in Observing \cup {"sleep"}
            => age' = MaxLag \/ elapsed' <= age'
      <4>1. pc \in Observing \cup {"sleep"} => elapsed' = elapsed + 1
        BY <1>17 DEF Tick, Observing
      <4>2. publishedAtReadback => Committed
        BY DEF Timely, ReadbackBegan
      <4>3. publishedAtReadback /\ pc \in Observing \cup {"sleep"}
              => age = MaxLag \/ elapsed <= age
        BY DEF Timely, Clocks
      <4> QED
        BY <2>1, <3>1, <4>1, <4>2, <4>3
    <3> QED
      BY <2>1, <3>2, <3>3 DEF Clocks
  <2>6. DeterminateAbsence' <=> DeterminateAbsence
    BY <2>1, <2>2 DEF DeterminateAbsence
  <2>7. /\ ContradictionSurfaced' <=> ContradictionSurfaced
        /\ ReadbackConverges' <=> ReadbackConverges
        /\ RetryConverges' <=> RetryConverges
    BY <2>1, <2>2 DEF ContradictionSurfaced, ReadbackConverges, RetryConverges
  <2> QED
    BY <2>4, <2>5, <2>6, <2>7 DEF Timely, Outcomes, RejectedBudgetFits, PollBudgetFits
<1>18. ASSUME NEW d \in Digest, NEW bundles, NEW committer,
              Commit(d, bundles, committer),
              UNCHANGED <<attemptVars, pc, publishVars, result, pollVars, historyVars>>
       PROVE  Timely'
  <2>1. ~Committed /\ version = NoVersion /\ ~replicatedAtEntry /\ ~publishedAtReadback
    BY <1>18 DEF Commit, Inv, ObservationsHold, EntryReads, Timely, ReadbackBegan
  <2>2. ~Late /\ ~Late' /\ ~replicatedAtEntry' /\ ~publishedAtReadback' /\ ~Converging'
    BY <1>18, <2>1 DEF Late, Converging
  <2>3. ReadbackBegan' /\ Clocks' /\ RetryGuard'
    BY <1>18, <2>2 DEF Timely, ReadbackBegan, Clocks, RetryGuard
  <2>4. CleanReads'
    <3>1. CleanPackuments' <=> CleanPackuments
      BY <1>18 DEF CleanPackuments
    <3>2. faults = {} /\ pc \in {"attestations", "decide"} => ~packument.version
      BY <2>1 DEF Timely, CleanReads
    <3>3. faults = {} /\ pc = "decide" => ~attestations.err /\ attestations.bundles = {}
      BY <2>1 DEF Timely, CleanReads, NoVersion
    <3> QED
      BY <1>18, <2>2, <3>1, <3>2, <3>3 DEF Timely, CleanReads
  <2>5. RetryConverges'
    BY <2>2 DEF RetryConverges
  <2>6. DeterminateAbsence' /\ ContradictionSurfaced' /\ ReadbackConverges'
    BY <2>2 DEF DeterminateAbsence, ContradictionSurfaced, ReadbackConverges
  <2> QED
    BY <2>3, <2>4, <2>5, <2>6 DEF Timely, Outcomes
<1>19. CASE ForeignPublish
  BY <1>18, <1>19 DEF ForeignPublish
<1>20. CASE RegistryAccepts
  <2>1. PICK p \in puts : Commit(p.digest, {OwnBundle(p.digest)}, p.attempt)
    BY <1>20 DEF RegistryAccepts
  <2>2. p.digest \in Digest
    BY <1>0 DEF TypeOK, RegistryTypeOK, Put
  <2> QED
    BY <1>18, <1>20, <2>1, <2>2 DEF RegistryAccepts
<1>21. CASE RegistryRefuses
  BY <1>21, QuietTimely DEF RegistryRefuses
<1>22. CASE InputsExpire
  BY <1>22, QuietTimely DEF InputsExpire
<1>23. CASE Crash
  <2>1. /\ pc \notin Ended /\ pc' = "crashed"
        /\ UNCHANGED <<attemptVars, entryState, npmCode, version, age, result, afterMutation,
                       historyVars>>
    BY <1>23 DEF Crash
  <2>2. result' = NoResult
    BY <2>1 DEF Timely, ReadbackBegan, Ended
  <2>3. ReadbackBegan' /\ Clocks' /\ CleanReads'
    BY <2>1, <2>2 DEF Timely, ReadbackBegan, Clocks, CleanReads, Observing, Ended, Committed
  <2>4. RetryGuard'
    BY <2>1 DEF Timely, RetryGuard, Converging, OwnPublication, OwnBundle
  <2> QED
    BY <2>1, <2>2, <2>3, <2>4, NoOutcome DEF Timely
<1>24. CASE Rerun
  <2>1. /\ pc' = "prepare" /\ result' = NoResult
        /\ ~replicatedAtEntry' /\ ~publishedAtReadback'
    BY <1>24 DEF Rerun
  <2>2. ReadbackBegan' /\ Clocks' /\ CleanReads' /\ RetryGuard'
    BY <2>1 DEF ReadbackBegan, Clocks, CleanReads, RetryGuard, Converging, Observing
  <2> QED
    BY <2>1, <2>2, NoOutcome DEF Timely
<1>25. CASE UNCHANGED vars
  BY <1>25, QuietTimely DEF vars
<1> QED
  BY <1>1, <1>2, <1>3, <1>6, <1>7, <1>8, <1>9, <1>10, <1>11, <1>12, <1>13, <1>15,
     <1>16, <1>17, <1>19, <1>20, <1>21, <1>22, <1>23, <1>24, <1>25
  DEF Next, PublishStep, Environment

\* Timely is an invariant: observations and the version age with the poll clock, and the
\* outcomes follow.
THEOREM ReadbackInvariance == Spec => []Timely
BY InitTimely, NextTimely, Invariance, PTL DEF Spec

\* A re-run whose publication has replicated converges, whatever the budgets are.
THEOREM RerunsConverge == Spec => []RetryConverges
<1>1. Timely => RetryConverges
  BY DEF Timely, Outcomes
<1> QED
  BY <1>1, ReadbackInvariance, PTL

\* An E422 settled as absent was absent when the read-back began, provided the registry's lag
\* and one observation fit the reduced budget.
THEOREM SettledAbsenceIsTrue ==
  ASSUME MaxLag + RequestTicks <= RejectedBudget
  PROVE  Spec => []DeterminateAbsence
<1>1. Timely => DeterminateAbsence
  BY DEF Timely, Outcomes, RejectedBudgetFits
<1> QED
  BY <1>1, ReadbackInvariance, PTL

\* When they fit both budgets and nobody cancels, a version that contradicts an E422 is
\* never reported without the committed-after-rejection warning.
THEOREM ContradictionsSurface ==
  ASSUME MaxLag + RequestTicks <= RejectedBudget, MaxLag + RequestTicks <= PollBudget,
         ~Cancellable
  PROVE  Spec => []ContradictionSurfaced
<1>1. Timely => ContradictionSurfaced
  BY DEF Timely, Outcomes, RejectedBudgetFits, PollBudgetFits
<1> QED
  BY <1>1, ReadbackInvariance, PTL

\* Under the same bounds a read-back without faults finds the publication of its own run that
\* was committed before it began.
THEOREM ReadbackFindsPublication ==
  ASSUME MaxLag + RequestTicks <= RejectedBudget, MaxLag + RequestTicks <= PollBudget,
         ~Cancellable
  PROVE  Spec => []ReadbackConverges
<1>1. Timely => ReadbackConverges
  BY DEF Timely, Outcomes, RejectedBudgetFits, PollBudgetFits
<1> QED
  BY <1>1, ReadbackInvariance, PTL

-----------------------------------------------------------------------------
(* NpmPublish implements ReleaseIntent.                                    *)

\* The initial state is one of the promise.
LEMMA InitPromise == Init => Intent!Init
BY DEF Init, Intent!Init, NoVersion, verdict, Ended

\* An attempt that goes on without writing does nothing the promise can see.
LEMMA Continues ==
  ASSUME pc \notin Ended, pc' \notin Ended,
         UNCHANGED <<attempt, tarball, npmRan, version, puts>>
  PROVE  UNCHANGED Intent!intentVars
BY DEF Intent!intentVars, verdict

\* An attempt that ends gives a verdict the promise allows, by Inv after the step.
LEMMA Ends ==
  ASSUME Inv', pc \notin Ended, pc' \in Ended,
         UNCHANGED <<attempt, tarball, npmRan, version, puts>>
  PROVE  Intent!Next
<1>1. verdict = "pending"
  BY DEF verdict
<1>2. CASE verdict' = "claim"
  <2>1. version.digest = tarball /\ OwnBundle(tarball) \in version.bundles
    BY <1>2 DEF verdict, Inv, AdoptsOnlyOwn, OwnPublication, OwnBundle
  <2> QED
    BY <1>1, <1>2, <2>1 DEF Intent!Next, Intent!Claim, Intent!Verdict
<1>3. CASE verdict' = "deny"
  <2>1. pc' = "done" /\ DeniesMutation'
    BY <1>3 DEF verdict, Ended
  <2>2. ~PutPending' /\ ~PutCommitted'
    BY <2>1 DEF Inv, DeniedMeansNoWrite
  <2>3. version.committer # attempt
    <3>1. ~Committed' => version'.committer = 0 /\ attempt' # 0
      BY DEF Inv, ObservationsHold, NoVersion, TypeOK, FrameTypeOK
    <3> QED
      BY <2>2, <3>1 DEF PutCommitted
  <2>4. ~Intent!Changed
    BY <2>2, <2>3 DEF PutPending, Intent!Changed
  <2> QED
    BY <1>1, <1>3, <2>4 DEF Intent!Next, Intent!Deny, Intent!Verdict
<1>4. CASE verdict' = "doubt"
  BY <1>1, <1>4 DEF Intent!Next, Intent!Doubt, Intent!Verdict
<1> QED
  BY <1>2, <1>3, <1>4 DEF verdict

\* Every step is a step of the promise or leaves it alone.
LEMMA StepPromise == Inv /\ Inv' /\ [Next]_vars => [Intent!Next]_Intent!intentVars
<1> SUFFICES ASSUME Inv, Inv', [Next]_vars PROVE Intent!Next \/ UNCHANGED Intent!intentVars
    OBVIOUS
<1> USE DEF attemptVars, publishVars, pollVars, registryVars, historyVars
<1>1. CASE /\ pc \notin Ended
           /\ UNCHANGED <<attempt, tarball, npmRan, version, puts>>
  BY <1>1, Continues, Ends
<1>2. ASSUME UNCHANGED <<pc, result>> PROVE verdict' = verdict
  BY <1>2 DEF verdict, DeniesMutation
<1>3. CASE Prepare \/ ReadPackument \/ ReadAttestations
  BY <1>1, <1>3 DEF Prepare, ReadPackument, ReadAttestations, Ended
<1>4. CASE PollTerminal \/ PollAbsenceSettled \/ PollExhausted \/ SleepCancelled
  <2>1. pc \notin Ended
    BY <1>4 DEF PollTerminal, PollAbsenceSettled, PollExhausted, SleepCancelled, Ended
  <2>2. \E decision, err, seen : Classified(decision, err, seen)
    BY <1>4 DEF PollTerminal, PollAbsenceSettled, PollExhausted, SleepCancelled
  <2> QED
    BY <1>1, <2>1, <2>2 DEF Classified
<1>5. CASE PollSleep \/ Wake \/ CheckNPMVersion
  BY <1>1, <1>5 DEF PollSleep, Wake, CheckNPMVersion, Ended
<1>6. CASE StartNPM
  <2>1. /\ pc = "mutate" /\ pc' = "npm" /\ npmRan' = TRUE
        /\ puts' = puts \cup {[attempt |-> attempt, digest |-> tarball]}
        /\ UNCHANGED <<attempt, tarball, version>>
    BY <1>6 DEF StartNPM
  <2>2. verdict = "pending" /\ verdict' = "pending" /\ ~npmRan
    BY <2>1 DEF verdict, Ended, Inv, EntryGuards
  <2>3. Intent!Send
    BY <2>1, <2>2 DEF Intent!Send, Intent!Write
  <2> QED BY <2>3 DEF Intent!Next
<1>7. CASE RefuseNPM \/ NPMExits \/ Crash
  BY <1>1, <1>7 DEF RefuseNPM, NPMExits, Crash, Ended
<1>8. CASE Tick \/ InputsExpire
  BY <1>2, <1>8 DEF Tick, InputsExpire, Intent!intentVars
<1>9. CASE ForeignPublish
  <2>1. verdict' = verdict
    BY <1>2, <1>9 DEF ForeignPublish
  <2>2. Intent!ForeignWrite
    BY <1>9, <2>1 DEF ForeignPublish, Commit, Committed, Intent!ForeignWrite, Intent!Hold
  <2> QED BY <2>2 DEF Intent!Next
<1>10. CASE RegistryAccepts
  <2>1. verdict' = verdict
    BY <1>2, <1>10 DEF RegistryAccepts
  <2>2. Intent!WriteLands
    BY <1>10, <2>1 DEF RegistryAccepts, Commit, Committed, Intent!WriteLands, Intent!Hold
  <2> QED BY <2>2 DEF Intent!Next
<1>11. CASE RegistryRefuses
  <2>1. verdict' = verdict
    BY <1>2, <1>11 DEF RegistryRefuses
  <2>2. Intent!WriteLost
    BY <1>11, <2>1 DEF RegistryRefuses, Intent!WriteLost
  <2> QED BY <2>2 DEF Intent!Next
<1>12. CASE Rerun
  <2>1. verdict # "pending" /\ verdict' = "pending"
    BY <1>12 DEF Rerun, verdict, Ended
  <2>2. Intent!NextAttempt
    BY <1>12, <2>1 DEF Rerun, Intent!NextAttempt
  <2> QED BY <2>2 DEF Intent!Next
<1>13. CASE UNCHANGED vars
  BY <1>2, <1>13 DEF vars, Intent!intentVars
<1> QED
  BY <1>3, <1>4, <1>5, <1>6, <1>7, <1>8, <1>9, <1>10, <1>11, <1>12, <1>13
  DEF Next, PublishStep, Environment

\* The mutation segment keeps its promise: NpmPublish implements ReleaseIntent.
THEOREM Refinement == Spec => KeepsPromise
BY InitPromise, StepPromise, Invariance, PTL DEF Spec, KeepsPromise, Intent!Spec
=============================================================================
