------------------------- MODULE BuildCommandProofs -------------------------
(***************************************************************************)
(* Theorems about the command boundary, about the remote calls, about      *)
(* npm-profile-build, which runs the one after the other, and about the    *)
(* relay of a command's stderr: for every number of attempts, with and     *)
(* without the overflow rule, and for every secret and bound.              *)
(***************************************************************************)
EXTENDS BuildCommand, StderrRelay, FiniteSetTheorems, SequenceTheorems,
        WellFoundedInduction, TLAPS

-----------------------------------------------------------------------------
(* runCommandAtBoundary, on its own.                                       *)

\* Before anything was started the invariant holds.
LEMMA InitBoundary == Init => BoundaryInv
<1>1. Init => FlagTypeOK
      BY DEF Init, FlagTypeOK
<1>2. Init => TypeOK
      BY <1>1 DEF Init, TypeOK, NoResult, Errors, Outcomes, RunErrs
<1>3. Init => NothingYet /\ ChildReaped /\ FailureKept
      BY DEF Init, NothingYet, ChildReaped, FailureKept
<1>4. Init => SuccessIsComplete /\ NoSilentSurvivors /\ BuffersAreQuiet
      BY DEF Init, SuccessIsComplete, NoSilentSurvivors, BuffersAreQuiet
<1> QED BY <1>2, <1>3, <1>4 DEF BoundaryInv

\* The logged outcome is one of the known ones.
LEMMA OutcomeType == outcome \in Outcomes
  BY DEF outcome, Outcomes

\* Every step leaves the flags Boolean.
LEMMA NextFlags == FlagTypeOK /\ [Next]_vars => FlagTypeOK'
<1> SUFFICES ASSUME FlagTypeOK, [Next]_vars PROVE FlagTypeOK'
    OBVIOUS
<1> USE DEF FlagTypeOK
<1>1. CASE Command
      BY <1>1 DEF Command, Validate, StartFails, Start, WaitProcess, WaitWatcher, AwaitCopiers,
                  WaitDelayExpires, DrainCopiers, Cleanup, Complete, worldVars, execVars
<1>2. CASE WatchKill \/ CopyEnds \/ DeadlinePasses
      BY <1>2 DEF WatchKill, CopyEnds, DeadlinePasses, worldVars, execVars
<1>3. CASE World
      BY <1>3 DEF World, ChildExits, ChildForks, DescendantEscapes, DescendantExits,
                  WritesTooMuch, StreamCloses, CallerCancels, worldVars, execVars
<1>4. CASE UNCHANGED vars
      BY <1>4 DEF vars, worldVars, execVars
<1> QED BY <1>1, <1>2, <1>3, <1>4 DEF Next

\* The command's own steps, os/exec's goroutines and the world preserve it.
LEMMA NextBoundary == BoundaryInv /\ [Next]_vars => BoundaryInv'
<1> SUFFICES ASSUME BoundaryInv, [Next]_vars PROVE BoundaryInv'
    OBVIOUS
<1>0. FlagTypeOK'
      BY NextFlags DEF BoundaryInv, TypeOK
<1> USE <1>0 DEF BoundaryInv, TypeOK, NothingYet, ChildReaped, FailureKept, SuccessIsComplete,
            NoSilentSurvivors, BuffersAreQuiet, Exited, Exits, RunErrs
<1>1. CASE Validate
      BY <1>1 DEF Validate, worldVars, execVars, Errors, Outcomes
<1>2. CASE StartFails
      BY <1>2 DEF StartFails, worldVars, execVars
<1>3. CASE Start
      BY <1>3 DEF Start, Copiers
<1>4. CASE WaitProcess
      BY <1>4 DEF WaitProcess, worldVars, execVars
<1>5. CASE WaitWatcher
      BY <1>5 DEF WaitWatcher, Keep, worldVars
<1>6. CASE AwaitCopiers \/ DrainCopiers
      BY <1>6 DEF AwaitCopiers, DrainCopiers, worldVars, execVars
<1>7. CASE WaitDelayExpires
      BY <1>7 DEF WaitDelayExpires, Keep, worldVars
<1>8. CASE Cleanup
      BY <1>8 DEF Cleanup, Keep, execVars
<1>9. CASE Complete
      BY <1>9, OutcomeType DEF Complete, worldVars, execVars, Errors
<1>10. CASE WatchKill
      BY <1>10 DEF WatchKill
<1>11. CASE CopyEnds \/ StreamCloses
      BY <1>11 DEF CopyEnds, StreamCloses, worldVars
<1>12. CASE DeadlinePasses \/ CallerCancels
      BY <1>12 DEF DeadlinePasses, CallerCancels, execVars
<1>13. CASE ChildExits \/ ChildForks
      BY <1>13 DEF ChildExits, ChildForks, execVars
<1>14. CASE DescendantEscapes \/ DescendantExits
      BY <1>14 DEF DescendantEscapes, DescendantExits, execVars
<1>15. CASE WritesTooMuch
      BY <1>15 DEF WritesTooMuch, execVars
<1>16. CASE UNCHANGED vars
      BY <1>16 DEF vars, worldVars, execVars
<1> QED BY <1>1, <1>2, <1>3, <1>4, <1>5, <1>6, <1>7, <1>8, <1>9, <1>10, <1>11, <1>12,
           <1>13, <1>14, <1>15, <1>16 DEF Next, Command, World

\* BoundaryInv is inductive.
THEOREM BoundaryInvariance == Spec => []BoundaryInv
  BY InitBoundary, NextBoundary, PTL DEF Spec

\* A command succeeds only with exit status 0 and its whole output.
THEOREM SuccessComplete == Spec => []SuccessIsComplete
<1>1. BoundaryInv => SuccessIsComplete
      BY DEF BoundaryInv
<1> QED BY <1>1, BoundaryInvariance, PTL

\* No process of the group outlives the command unnoticed.
THEOREM NoSurvivors == Spec => []NoSilentSurvivors
<1>1. BoundaryInv => NoSilentSurvivors
      BY DEF BoundaryInv
<1> QED BY <1>1, BoundaryInvariance, PTL

\* The output buffers are read only when nobody writes them.
THEOREM QuietBuffers == Spec => []BuffersAreQuiet
<1>1. BoundaryInv => BuffersAreQuiet
      BY DEF BoundaryInv
<1> QED BY <1>1, BoundaryInvariance, PTL

-----------------------------------------------------------------------------
(* The remote calls: no fault of the network or of the remote side becomes *)
(* a determinate conclusion, but for the mismatch of an identity that      *)
(* cannot be read.                                                         *)

\* Every conclusion is one the callers know.
LEMMA ConcludeType ==
  ASSUME NEW o \in Ops, NEW a \in Answers
  PROVE  Conclude(o, a) \in Conclusions
  BY DEF Conclude, Failure, Conclusions, Ops, Answers, Bodies, AllTruths

\* Giving up is never a determinate conclusion.
LEMMA FailureType ==
  ASSUME NEW o \in Ops
  PROVE  Failure(o) \in {"error", "unavailable", "indeterminate"}
  BY DEF Failure, Ops

\* A faulty answer leads to a determinate conclusion only where an identity should be in it.
LEMMA FaultsIndeterminate ==
  ASSUME op \in Ops, NEW a \in FaultyAnswers
  PROVE  Conclude(op, a) \in Determinate => Unreadable(op, a) /\ Conclude(op, a) = "mismatch"
  BY DEF FaultyAnswers, Conclude, Failure, Determinate, Unreadable, Ops

\* An honest answer leads to what is true, or to a failure.
LEMMA HonestConclusion ==
  ASSUME op \in Ops, truth[op] \in Truths(op), op = "identity" => truth[op] # "no-grant",
         NEW a \in HonestAnswers, Conclude(op, a) \in Determinate
  PROVE  truth[op] \in Means(op, Conclude(op, a))
<1>1. CASE op = "packument"
      BY <1>1 DEF HonestAnswers, Conclude, Failure, Determinate, Means, Truths
<1>2. CASE op = "attestations"
      BY <1>2 DEF HonestAnswers, Conclude, Failure, Determinate, Means, Truths
<1>3. CASE op = "identity"
      BY <1>3 DEF HonestAnswers, Conclude, Failure, Determinate, Means, Truths
<1>4. CASE op = "exchange"
      BY <1>4 DEF HonestAnswers, Conclude, Failure, Determinate, Means, Truths
<1> QED BY <1>1, <1>2, <1>3, <1>4 DEF Ops

\* What comes next remotely is of the same kind, and a grant is not taken away.
LEMMA SuccessorKind ==
  ASSUME NEW o \in Ops, NEW value \in Truths(o), NEW next \in Successors(value)
  PROVE  next \in Truths(o) /\ next # "no-grant"
<1>1. /\ value = "absent" => next \in {"no-version", "present"}
      /\ value = "none" => next = "some"
      /\ value = "denied" => next = "authorised"
      /\ value = "authorised" => next = "denied"
      /\ value = "no-version" => next = "present"
      /\ value \in {"absent", "none", "denied", "authorised", "no-version"}
      BY DEF Successors, Succession
<1> QED BY <1>1 DEF Truths, Ops

\* Truths are known values.
LEMMA TruthsKnown ==
  ASSUME NEW o \in Ops
  PROVE  Truths(o) \subseteq AllTruths
  BY DEF Truths, Ops, AllTruths

\* Initially nothing was asked or concluded.
LEMMA InitClient == CallInit => ClientInv
<1> SUFFICES ASSUME CallInit PROVE ClientInv
    OBVIOUS
<1>1. CallTypeOK
      BY RetriesAssumption, TruthsKnown
      DEF CallInit, CallTypeOK, Ops, NoAnswer, Answers, Statuses, Bodies, Conclusions
<1>2. TruthSeen /\ Granted /\ AnswerSupports /\ ConclusionWasTrue
      BY DEF CallInit, TruthSeen, Granted, AnswerSupports, ConclusionWasTrue, Determinate, Ops
<1> QED BY <1>1, <1>2 DEF ClientInv, CallInit

\* Every step of the client and of the remote side preserves it.
LEMMA NextClient == ClientInv /\ [CallNext]_clientVars => ClientInv'
<1> SUFFICES ASSUME ClientInv, [CallNext]_clientVars PROVE ClientInv'
    OBVIOUS
<1> USE RetriesAssumption DEF ClientInv, CallTypeOK, TruthSeen, Granted
<1>0. ASSUME GiveUp PROVE ClientInv'
      BY <1>0, FailureType
      DEF GiveUp, AnswerSupports, ConclusionWasTrue, Determinate, Grounded, Conclusions
<1>1. CASE Begin \/ Send
      BY <1>1 DEF Begin, Send, callVars, AnswerSupports, ConclusionWasTrue, Determinate, Grounded
<1>2. CASE BeginWithoutGrant \/ Refused \/ DelayCut
      BY <1>0, <1>2 DEF BeginWithoutGrant, Refused, DelayCut
<1>3. CASE AttemptFails
  <2>1. CASE LastAttempt
        BY <1>0, <1>3, <2>1 DEF AttemptFails
  <2>2. CASE ~LastAttempt
        BY <1>3, <2>2
        DEF AttemptFails, LastAttempt, callVars, AnswerSupports, ConclusionWasTrue, Determinate, Grounded
  <2> QED BY <2>1, <2>2
<1>4. CASE Receive
  <2>1. PICK a \in HonestAnswers \cup FaultyAnswers :
          /\ answer' = a
          /\ phase' = IF retryableHTTPStatus(a.status) /\ ~LastAttempt
                      THEN "backoff" ELSE "classify"
        BY <1>4 DEF Receive
  <2>2. a \in Answers
        BY <1>4 DEF HonestAnswers, FaultyAnswers, Answers, Statuses, Bodies
  <2>3. Conclude(op, a) \in Determinate =>
          \/ \E t \in Means(op, Conclude(op, a)) : t \in seen
          \/ Conclude(op, a) = "mismatch" /\ Unreadable(op, a)
        BY <1>4, <2>1, HonestConclusion, FaultsIndeterminate DEF Receive
  <2>4. AnswerSupports'
        BY <1>4, <2>1, <2>3 DEF Receive, AnswerSupports, Determinate, Grounded
  <2> QED BY <1>4, <2>1, <2>2, <2>4 DEF Receive, LastAttempt, ConclusionWasTrue, Determinate, Grounded
<1>5. CASE Delay
      BY <1>5 DEF Delay, AnswerSupports, ConclusionWasTrue, Determinate, Grounded
<1>6. CASE Classify
      BY <1>6, ConcludeType DEF Classify, AnswerSupports, ConclusionWasTrue, Determinate, Grounded
<1>7. CASE ThenExchange
      BY <1>7
      DEF ThenExchange, AnswerSupports, ConclusionWasTrue, Determinate, Grounded, Ops, NoAnswer, Answers,
          Statuses, Bodies
<1>8. CASE WorldChanges
  <2>1. PICK o \in Ops : \E next \in Successors(truth[o]) :
          /\ truth' = [truth EXCEPT ![o] = next]
          /\ seen' = IF o = op THEN seen \cup {next} ELSE seen
        BY <1>8 DEF WorldChanges
  <2>2. PICK next \in Successors(truth[o]) :
          /\ truth' = [truth EXCEPT ![o] = next]
          /\ seen' = IF o = op THEN seen \cup {next} ELSE seen
        BY <2>1
  <2>3. next \in Truths(o) /\ next \in AllTruths /\ next # "no-grant"
        BY SuccessorKind, TruthsKnown
  <2>4. CallTypeOK' /\ TruthSeen' /\ Granted'
        BY <1>8, <2>2, <2>3 DEF WorldChanges, callVars
  <2>5. seen \subseteq seen'
        BY <2>2
  <2>6. AnswerSupports' /\ ConclusionWasTrue'
        BY <1>8, <2>5
        DEF WorldChanges, callVars, AnswerSupports, ConclusionWasTrue, Determinate, Grounded
  <2> QED BY <1>8, <2>4, <2>6 DEF WorldChanges, callVars
<1>9. CASE RequestExpires
      BY <1>9 DEF RequestExpires, AnswerSupports, ConclusionWasTrue, Determinate, Grounded
<1>10. CASE UNCHANGED clientVars
      BY <1>10 DEF clientVars, callVars, AnswerSupports, ConclusionWasTrue, Determinate, Grounded
<1> QED BY <1>1, <1>2, <1>3, <1>4, <1>5, <1>6, <1>7, <1>8, <1>9, <1>10 DEF CallNext

\* ClientInv is inductive.
THEOREM ClientInvariance == CallSpec => []ClientInv
  BY InitClient, NextClient, PTL DEF CallSpec

\* What a call concludes was true while it ran.
THEOREM ConclusionsTrue == CallSpec => []ConclusionWasTrue
<1>1. ClientInv => ConclusionWasTrue
      BY DEF ClientInv
<1> QED BY <1>1, ClientInvariance, PTL

-----------------------------------------------------------------------------
(* npm-profile-build: the call, then the command.                          *)

\* Nothing is started before BuildPack is entered, which it is on an answer that was
\* true at some time of the call.
JobInv ==
  /\ ClientInv
  /\ BoundaryInv
  /\ building \in BOOLEAN
  /\ building => Answered /\ conclusion \in seen
  /\ ~building => ~Started

\* What a package read is told is one of the determinate conclusions.
LEMMA AnswerInSeen == ClientInv /\ Answered => conclusion \in seen
<1> SUFFICES ASSUME ClientInv, Answered PROVE conclusion \in seen
    OBVIOUS
<1>1. conclusion \in {"absent", "no-version", "present"}
      BY DEF Answered, Truths
<1>2. PICK t \in Means(op, conclusion) : t \in seen
      BY <1>1 DEF ClientInv, ConclusionWasTrue, Determinate, Grounded
<1>3. Means(op, conclusion) = {conclusion}
      BY <1>1 DEF Means
<1> QED BY <1>2, <1>3

LEMMA InitJob == JobInit => JobInv
  BY InitClient, InitBoundary DEF JobInit, JobInv, Init, Started

\* A step of the call, the entry of BuildPack and a step of its command.
LEMMA NextJob == JobInv /\ [JobNext]_jobVars => JobInv'
<1> SUFFICES ASSUME JobInv, [JobNext]_jobVars PROVE JobInv'
    OBVIOUS
<1>1. CASE Call
  <2>1. ClientInv'
        BY <1>1, NextClient DEF Call, JobInv
  <2>2. BoundaryInv'
        BY <1>1, NextBoundary DEF Call, JobInv
  <2>3. phase # "done"
        BY <1>1
        DEF Call, CallNext, Begin, BeginWithoutGrant, Send, Delay, DelayCut, Classify,
            ThenExchange, AttemptFails, Refused, Receive, WorldChanges, RequestExpires
  <2>4. ~building
        BY <2>3 DEF JobInv, Answered
  <2>5. UNCHANGED <<building, child>>
        BY <1>1 DEF Call, vars, worldVars
  <2> QED BY <2>1, <2>2, <2>4, <2>5 DEF JobInv, Started
<1>2. CASE EnterBuildPack
  <2>1. ClientInv'
    <3>1. conclusion \in seen
          BY <1>2, AnswerInSeen DEF EnterBuildPack, JobInv
    <3>2. conclusion # "mismatch"
          BY <1>2 DEF EnterBuildPack, Answered, Truths
    <3>3. ConclusionWasTrue'
          BY <1>2, <3>1, <3>2 DEF EnterBuildPack, ConclusionWasTrue, Grounded, Means
    <3> QED BY <1>2, <3>3, RetriesAssumption
        DEF EnterBuildPack, Answered, JobInv, ClientInv, CallTypeOK, TruthSeen, Granted,
            AnswerSupports, NoAnswer, Answers, Statuses, Bodies
  <2>2. BoundaryInv'
        BY <1>2, NextBoundary DEF EnterBuildPack, JobInv
  <2>3. conclusion \in seen
        BY <1>2, AnswerInSeen DEF EnterBuildPack, JobInv
  <2> QED BY <1>2, <2>1, <2>2, <2>3 DEF EnterBuildPack, JobInv, Answered
<1>3. CASE Build
  <2>1. ClientInv'
        BY <1>3, NextClient DEF Build, JobInv
  <2>2. BoundaryInv'
        BY <1>3, NextBoundary DEF Build, JobInv
  <2>3. UNCHANGED <<building, phase, op, conclusion, seen>> /\ building
        BY <1>3 DEF Build, clientVars, callVars
  <2> QED BY <2>1, <2>2, <2>3 DEF JobInv, Answered
<1>4. CASE UNCHANGED jobVars
  <2>1. UNCHANGED clientVars /\ UNCHANGED vars /\ UNCHANGED building
        BY <1>4 DEF jobVars
  <2>2. ClientInv' /\ BoundaryInv'
        BY <2>1, NextClient, NextBoundary DEF JobInv
  <2>3. UNCHANGED <<phase, op, conclusion, seen, child>>
        BY <2>1 DEF clientVars, callVars, vars, worldVars
  <2> QED BY <2>1, <2>2, <2>3 DEF JobInv, Answered, Started
<1> QED BY <1>1, <1>2, <1>3, <1>4 DEF JobNext

\* JobInv is inductive.
THEOREM JobInvariance == JobSpec => []JobInv
  BY InitJob, NextJob, PTL DEF JobSpec

\* No process of the package is started unless the registry was read, and what was
\* read was true while it was being read.
THEOREM NothingStartedBlindly == JobSpec => []StartedOnAnswer
<1>1. JobInv => StartedOnAnswer
      BY DEF JobInv, StartedOnAnswer
<1> QED BY <1>1, JobInvariance, PTL

\* BuildPack's commands are those of the command boundary: neither the call nor its end
\* moves one.
THEOREM CommandsAtBoundary == JobSpec => Spec
<1>1. JobInit => Init
      BY DEF JobInit
<1>2. [JobNext]_jobVars => [Next]_vars
      BY DEF JobNext, jobVars, Call, EnterBuildPack, Build
<1> QED BY <1>1, <1>2, PTL DEF JobSpec, Spec

\* What holds of the call and of the command alone holds of the command that runs both.
THEOREM JobKeepsBoth ==
  JobSpec => [](ConclusionWasTrue /\ SuccessIsComplete /\ NoSilentSurvivors /\ BuffersAreQuiet)
<1>1. JobInv => ConclusionWasTrue /\ SuccessIsComplete /\ NoSilentSurvivors /\ BuffersAreQuiet
      BY DEF JobInv, ClientInv, BoundaryInv
<1> QED BY <1>1, JobInvariance, PTL

-----------------------------------------------------------------------------
(* The stderr of a command: operationalStderrRelay.                        *)

\* A sequence of something.
IsText(p) == \E S : p \in Seq(S)

\* The places that count as bytes, and a marker of a workflow command, place by place.
Written(p)  == {i \in DOMAIN p : p[i] # "nl"}
NoMarker(p) ==
  ~\E i \in 1 .. Len(p) - 2 : p[i] = "#" /\ p[i + 1] = "#" /\ p[i + 2] = "["

\* What appending a rune does to a text.
LEMMA AppendedText ==
  ASSUME NEW p, IsText(p), NEW rune
  PROVE  LET q == Append(p, rune)
         IN /\ IsText(q) /\ Len(p) \in Nat /\ Len(q) = Len(p) + 1
            /\ DOMAIN p = 1 .. Len(p) /\ DOMAIN q = 1 .. Len(p) + 1
            /\ \A i \in 1 .. Len(p) : q[i] = p[i]
            /\ q[Len(p) + 1] = rune
<1>1. PICK S : p \in Seq(S)
      BY DEF IsText
<1>2. p \in Seq(S \cup {rune}) /\ Append(p, rune) \in Seq(S \cup {rune})
      BY <1>1
<1> QED BY <1>2 DEF IsText

\* The bytes of a text are finitely many; a newline adds none, any other rune one.
LEMMA AppendedBytes ==
  ASSUME NEW p, IsText(p), NEW rune
  PROVE  /\ IsFiniteSet(Written(p)) /\ Cardinality(Written(p)) \in Nat
         /\ Cardinality(Written(Append(p, rune)))
              = IF rune = "nl" THEN Cardinality(Written(p)) ELSE Cardinality(Written(p)) + 1
<1> DEFINE q == Append(p, rune)
           n == Len(p)
<1>1. /\ n \in Nat /\ DOMAIN p = 1 .. n /\ DOMAIN q = 1 .. n + 1
      /\ \A i \in 1 .. n : q[i] = p[i]
      /\ q[n + 1] = rune
      BY AppendedText
<1> HIDE DEF q, n
<1>2. Written(p) \subseteq 1 .. n /\ IsFiniteSet(1 .. n)
      BY <1>1, FS_Interval DEF Written
<1>3. IsFiniteSet(Written(p)) /\ Cardinality(Written(p)) \in Nat
      BY <1>2, FS_Subset, FS_CardinalityType
<1>4. CASE rune = "nl"
  <2>1. Written(q) = Written(p)
        BY <1>1, <1>4 DEF Written
  <2> QED BY <1>3, <1>4, <2>1 DEF q
<1>5. CASE rune # "nl"
  <2>1. Written(q) = Written(p) \cup {n + 1} /\ n + 1 \notin Written(p)
        BY <1>1, <1>5 DEF Written
  <2>2. Cardinality(Written(q)) = Cardinality(Written(p)) + 1
        BY <1>3, <2>1, FS_AddElement
  <2> QED BY <1>3, <1>5, <2>2 DEF q
<1> QED BY <1>4, <1>5

\* A text that ends with two hashes has them as its suffix.
LEMMA EndsInHashes ==
  ASSUME NEW p, IsText(p), Len(p) >= 2, p[Len(p) - 1] = "#", p[Len(p)] = "#"
  PROVE  IsSuffix(<<"#", "#">>, p)
<1> DEFINE hashes == <<"#", "#">>
           r == Reverse(hashes)
           t == Reverse(p)
<1>1. PICK S : p \in Seq(S)
      BY DEF IsText
<1>2. Len(p) \in Nat
      BY <1>1
<1>3. r = [i \in 1 .. 2 |-> "#"]
      BY DEF Reverse
<1>4. t = [i \in 1 .. Len(p) |-> p[(Len(p) - i) + 1]]
      BY DEF Reverse
<1>5. t \in Seq(S) /\ Len(t) = Len(p)
      BY <1>1, <1>2, <1>4
<1>6. t[1] = "#" /\ t[2] = "#"
      BY <1>2, <1>4
<1>7. r \in Seq({"#"}) /\ Len(r) = 2 /\ r[1] = "#" /\ r[2] = "#"
  <2> HIDE DEF r
  <2>1. r[1] = "#" /\ r[2] = "#" /\ r \in [1 .. 2 -> {"#"}]
        BY <1>3
  <2>2. r \in Seq({"#"})
        BY <2>1, SeqDef
  <2>3. Len(r) = 2
        BY <2>1, <2>2, LenProperties
  <2> QED BY <2>1, <2>2, <2>3
<1> HIDE DEF r, t
<1>8. SubSeq(r, 1, 2) = SubSeq(t, 1, 2)
  <2>1. /\ SubSeq(r, 1, 2) \in Seq({"#"}) /\ Len(SubSeq(r, 1, 2)) = 2
        /\ \A i \in 1 .. 2 : SubSeq(r, 1, 2)[i] = r[i]
        BY <1>7
  <2>2. /\ SubSeq(t, 1, 2) \in Seq(S) /\ Len(SubSeq(t, 1, 2)) = 2
        /\ \A i \in 1 .. 2 : SubSeq(t, 1, 2)[i] = t[i]
        BY <1>5
  <2>3. \A i \in 1 .. 2 : SubSeq(r, 1, 2)[i] = SubSeq(t, 1, 2)[i]
        BY <1>6, <1>7, <2>1, <2>2
  <2> QED BY <2>1, <2>2, <2>3
<1>9. IsPrefix(r, t)
      BY <1>5, <1>7, <1>8, <1>2 DEF IsPrefix
<1> QED BY <1>9 DEF IsSuffix, r, t

\* A rune appended completes no marker, unless it is a bracket behind two hashes.
LEMMA AppendedMarker ==
  ASSUME NEW p, IsText(p), NoMarker(p), NEW rune,
         ~(rune = "[" /\ IsSuffix(<<"#", "#">>, p))
  PROVE  NoMarker(Append(p, rune))
<1> DEFINE q == Append(p, rune)
           n == Len(p)
<1>1. /\ n \in Nat /\ Len(q) = n + 1
      /\ \A i \in 1 .. n : q[i] = p[i]
      /\ q[n + 1] = rune
      BY AppendedText
<1> SUFFICES ASSUME NEW i \in 1 .. Len(q) - 2, q[i] = "#", q[i + 1] = "#", q[i + 2] = "["
             PROVE  FALSE
    BY DEF NoMarker
<1> HIDE DEF q
<1>2. CASE i + 2 <= n
  <2>1. i \in 1 .. n - 2 /\ p[i] = "#" /\ p[i + 1] = "#" /\ p[i + 2] = "["
        BY <1>1, <1>2
  <2> QED BY <2>1 DEF NoMarker
<1>3. CASE i + 2 > n
  <2>1. i = n - 1
        BY <1>1, <1>3
  <2>2. n >= 2 /\ p[n - 1] = "#" /\ p[n] = "#" /\ rune = "["
        BY <1>1, <2>1
  <2> QED BY <2>2, EndsInHashes
<1> QED BY <1>1, <1>2, <1>3

\* Buffers that keep what the relay promises.
Kept(b) ==
  /\ DOMAIN b = {"payload", "bytes", "lines", "inLine", "truncated"}
  /\ IsText(b.payload) /\ NoMarker(b.payload)
  /\ b.bytes \in Nat /\ b.bytes <= MaxBytes /\ b.bytes = Cardinality(Written(b.payload))
  /\ b.lines \in Nat /\ b.lines <= MaxLines

\* collect keeps them so: it drops the rune, ends a line, gives up, or adds the rune within both
\* bounds.
LEMMA CollectKeeps ==
  ASSUME NEW b, Kept(b), NEW rune
  PROVE  Kept(collect(b, rune))
<1> DEFINE c == collect(b, rune)
<1>1. CASE b.truncated \/ rune \in Dropped \/ (rune = "[" /\ IsSuffix(<<"#", "#">>, b.payload))
           \/ (rune = "nl" /\ ~b.inLine)
  <2>1. c = b
        BY <1>1 DEF collect
  <2> QED BY <2>1
<1>2. ASSUME ~b.truncated, rune \notin Dropped,
             ~(rune = "[" /\ IsSuffix(<<"#", "#">>, b.payload)), ~(rune = "nl" /\ ~b.inLine)
      PROVE  Kept(c)
  <2>1. CASE rune = "nl"
    <3>1. c = [b EXCEPT !.payload = Append(@, "nl"), !.inLine = FALSE]
          BY <1>2, <2>1 DEF collect
    <3>2. /\ DOMAIN c = DOMAIN b /\ c.payload = Append(b.payload, "nl")
          /\ c.bytes = b.bytes /\ c.lines = b.lines
          BY <3>1 DEF Kept
    <3>3. IsText(c.payload)
          BY <3>2, AppendedText DEF Kept
    <3>4. NoMarker(c.payload)
          BY <3>2, AppendedMarker DEF Kept
    <3>5. Cardinality(Written(c.payload)) = Cardinality(Written(b.payload))
          BY <3>2, AppendedBytes DEF Kept
    <3> HIDE DEF c
    <3> QED BY <3>2, <3>3, <3>4, <3>5 DEF Kept
  <2>2. CASE rune # "nl" /\ (b.bytes + 1 > MaxBytes \/ (~b.inLine /\ b.lines = MaxLines))
    <3>1. c = [b EXCEPT !.truncated = TRUE]
          BY <1>2, <2>2 DEF collect
    <3>2. /\ DOMAIN c = DOMAIN b /\ c.payload = b.payload
          /\ c.bytes = b.bytes /\ c.lines = b.lines
          BY <3>1 DEF Kept
    <3> HIDE DEF c
    <3> QED BY <3>2 DEF Kept
  <2>3. CASE rune # "nl" /\ ~(b.bytes + 1 > MaxBytes) /\ ~(~b.inLine /\ b.lines = MaxLines)
    <3>1. c = [b EXCEPT !.payload = Append(@, rune), !.bytes = @ + 1,
                        !.lines = IF b.inLine THEN @ ELSE @ + 1, !.inLine = TRUE]
          BY <1>2, <2>3 DEF collect
    <3>2. /\ DOMAIN c = DOMAIN b /\ c.payload = Append(b.payload, rune)
          /\ c.bytes = b.bytes + 1 /\ c.lines = IF b.inLine THEN b.lines ELSE b.lines + 1
          BY <3>1 DEF Kept
    <3>3. IsText(c.payload)
          BY <3>2, AppendedText DEF Kept
    <3>4. NoMarker(c.payload)
          BY <1>2, <3>2, AppendedMarker DEF Kept
    <3>5. Cardinality(Written(c.payload)) = Cardinality(Written(b.payload)) + 1
          BY <2>3, <3>2, AppendedBytes DEF Kept
    <3>6. c.bytes \in Nat /\ c.bytes <= MaxBytes
          BY <2>3, <3>2, BoundAssumption DEF Kept
    <3>7. c.lines \in Nat /\ c.lines <= MaxLines
          BY <2>3, <3>2, BoundAssumption DEF Kept
    <3> HIDE DEF c
    <3> QED BY <3>2, <3>3, <3>4, <3>5, <3>6, <3>7 DEF Kept
  <2> QED BY <2>1, <2>2, <2>3
<1> QED BY <1>1, <1>2

\* A set of numbers that is not empty has a least one.
LEMMA Smallest ==
  ASSUME NEW T \in SUBSET Nat, T # {}
  PROVE  \E x \in T : \A y \in T : x <= y
<1>1. IsWellFoundedOn(OpToRel(<, Nat), Nat)
      BY NatLessThanWellFounded
<1>2. PICK x \in T : \A y \in T : ~(<<y, x>> \in OpToRel(<, Nat))
      BY <1>1, WFMin
<1>3. \A y \in T : ~(y < x)
      BY <1>2 DEF OpToRel
<1> QED BY <1>3

\* The buffers after each of the runes of a text.
After(b, runes, f) ==
  f = [i \in 0 .. Len(runes) |-> IF i = 0 THEN b ELSE collect(f[i - 1], runes[i])]

LEMMA AfterExists ==
  ASSUME NEW b, NEW runes, Len(runes) \in Nat
  PROVE  \E f : After(b, runes, f)
<1> DEFINE Upto(n, f) == f = [i \in 0 .. n |-> IF i = 0 THEN b ELSE collect(f[i - 1], runes[i])]
           bad == {n \in Nat : ~\E f : Upto(n, f)}
<1>1. SUFFICES bad = {}
      BY <1>1 DEF After
<1>2. SUFFICES ASSUME bad # {} PROVE FALSE
      OBVIOUS
<1>3. /\ bad \in SUBSET Nat
      /\ \A n \in Nat : n \notin bad => \E f : Upto(n, f)
      /\ \A n \in bad : \A f : ~Upto(n, f)
      OBVIOUS
<1> HIDE DEF bad
<1>4. PICK n \in bad : \A m \in bad : n <= m
      BY <1>2, <1>3, Smallest
<1>5. CASE n = 0
  <2> DEFINE f == [i \in 0 .. 0 |-> b]
  <2>1. f = [i \in 0 .. 0 |-> IF i = 0 THEN b ELSE collect(f[i - 1], runes[i])]
        OBVIOUS
  <2> QED BY <1>3, <1>5, <1>4, <2>1
<1>6. CASE n # 0
  <2>1. n \in Nat /\ n - 1 \in Nat /\ n - 1 \notin bad
        BY <1>3, <1>6, <1>4
  <2>2. PICK g : Upto(n - 1, g)
        BY <1>3, <2>1
  <2> DEFINE f == [i \in 0 .. n |-> IF i = n THEN collect(g[n - 1], runes[n]) ELSE g[i]]
  <2>3. \A i \in 0 .. n - 1 : f[i] = g[i]
        BY <2>1
  <2>4. \A i \in 0 .. n - 1 : g[i] = IF i = 0 THEN b ELSE collect(g[i - 1], runes[i])
        BY <2>2
  <2>5. \A i \in 0 .. n : f[i] = IF i = 0 THEN b ELSE collect(f[i - 1], runes[i])
    <3> SUFFICES ASSUME NEW i \in 0 .. n
                 PROVE  f[i] = IF i = 0 THEN b ELSE collect(f[i - 1], runes[i])
        OBVIOUS
    <3>1. CASE i = n
      <4>1. f[i] = collect(g[n - 1], runes[n]) /\ f[n - 1] = g[n - 1]
            BY <2>1, <2>3, <3>1
      <4> QED BY <1>6, <3>1, <4>1
    <3>2. CASE i # n
      <4>1. i \in 0 .. n - 1 /\ (i # 0 => i - 1 \in 0 .. n - 1)
            BY <2>1, <3>2
      <4> QED BY <2>3, <2>4, <4>1
    <3> QED BY <3>1, <3>2
  <2>6. f = [i \in 0 .. n |-> IF i = 0 THEN b ELSE collect(f[i - 1], runes[i])]
    <3>1. f = [i \in 0 .. n |-> f[i]]
          OBVIOUS
    <3> HIDE DEF f
    <3> QED BY <2>5, <3>1
  <2>7. Upto(n, f)
        BY <2>6
  <2> QED BY <1>3, <1>4, <2>7
<1> QED BY <1>5, <1>6

\* Kept buffers stay so, rune by rune.
LEMMA AfterKeeps ==
  ASSUME NEW b, Kept(b), NEW runes, Len(runes) \in Nat, NEW f, After(b, runes, f)
  PROVE  Kept(f[Len(runes)])
<1> DEFINE bad == {n \in 0 .. Len(runes) : ~Kept(f[n])}
<1>1. SUFFICES ASSUME bad # {} PROVE FALSE
      OBVIOUS
<1>2. PICK n \in bad : \A m \in bad : n <= m
  <2>1. bad \in SUBSET Nat
        OBVIOUS
  <2> HIDE DEF bad
  <2> QED BY <1>1, <2>1, Smallest
<1>3. f[n] = IF n = 0 THEN b ELSE collect(f[n - 1], runes[n])
      BY <1>2 DEF After
<1>4. n # 0
      BY <1>2, <1>3
<1>5. Kept(f[n - 1])
      BY <1>2, <1>4
<1> QED BY <1>2, <1>3, <1>4, <1>5, CollectKeeps

\* What the relay collects, it collects one rune after the other.
LEMMA CollectedAfter ==
  ASSUME NEW b, NEW runes, NEW g, After(b, runes, g)
  PROVE  \E f : After(b, runes, f) /\ Collected(b, runes) = f[Len(runes)]
BY Zenon DEF Collected, After

LEMMA CollectedKept ==
  ASSUME NEW b, Kept(b), NEW runes, Len(runes) \in Nat
  PROVE  Kept(Collected(b, runes))
<1>1. PICK g : After(b, runes, g)
      BY AfterExists
<1>2. PICK f : After(b, runes, f) /\ Collected(b, runes) = f[Len(runes)]
      BY <1>1, CollectedAfter
<1> QED BY <1>2, AfterKeeps

\* The relay's promise, in a form that every step keeps.
RelayInv == Kept(Buffers)

LEMMA InitRelay == RelayInit => RelayInv
<1> SUFFICES ASSUME RelayInit PROVE Kept(Buffers)
    BY DEF RelayInv
<1>1. /\ DOMAIN Buffers = {"payload", "bytes", "lines", "inLine", "truncated"}
      /\ Buffers.payload = <<>> /\ Buffers.bytes = 0 /\ Buffers.lines = 0
      BY DEF RelayInit, Buffers
<1>2. IsText(<<>>) /\ NoMarker(<<>>)
      BY DEF IsText, NoMarker
<1>3. Cardinality(Written(<<>>)) = 0
  <2>1. Written(<<>>) = {}
        BY DEF Written
  <2> QED BY <2>1, FS_EmptySet
<1> HIDE DEF Buffers
<1> QED BY <1>1, <1>2, <1>3, BoundAssumption DEF Kept

\* Only redact hands runes on, and every rune goes through collect.
LEMMA NextRelay == RelayInv /\ [RelayNext]_streamVars => RelayInv'
<1> SUFFICES ASSUME Kept(Buffers), [RelayNext]_streamVars
             PROVE  Kept(Buffers')
    BY DEF RelayInv
<1>1. ASSUME NEW runes, Len(runes) \in Nat, Collect(runes)
      PROVE  Kept(Buffers')
  <2> DEFINE b == Collected(Buffers, runes)
  <2>1. Kept(b)
        BY <1>1, CollectedKept
  <2>2. /\ payload' = b.payload /\ bytes' = b.bytes /\ lines' = b.lines
        /\ inLine' = b.inLine /\ truncated' = b.truncated
        BY <1>1 DEF Collect
  <2> HIDE DEF b
  <2>3. /\ DOMAIN Buffers' = {"payload", "bytes", "lines", "inLine", "truncated"}
        /\ Buffers'.payload = b.payload /\ Buffers'.bytes = b.bytes /\ Buffers'.lines = b.lines
        BY <2>2 DEF Buffers
  <2> HIDE DEF Buffers
  <2> QED BY <2>1, <2>3 DEF Kept
<1>2. CASE RedactSecret
  <2>1. Len(Marker) \in Nat /\ Collect(Marker)
        BY <1>2, MarkerAssumption DEF RedactSecret
  <2> QED BY <1>1, <2>1
<1>3. CASE PassByte
  <2>1. Len(<<Head(pending)>>) = 1 /\ Collect(<<Head(pending)>>)
        BY <1>3 DEF PassByte
  <2> QED BY <1>1, <2>1
<1>4. CASE WriteByte \/ Emit \/ RedactReturns \/ UNCHANGED streamVars
  <2>1. UNCHANGED relayVars
        BY <1>4 DEF WriteByte, Emit, RedactReturns, streamVars
  <2>2. Buffers' = Buffers
        BY <2>1, Zenon DEF relayVars, Buffers
  <2> QED BY <2>2
<1> QED BY <1>2, <1>3, <1>4 DEF RelayNext

\* What the relay keeps of a child's stderr stays within the bounds on bytes and lines, counts its
\* bytes rightly and holds no marker of a workflow command: for all secrets, redaction markers,
\* dropped characters and bounds, and however much the child writes.
THEOREM RelayBoundedAndInert == RelaySpec => []BoundedAndInert
<1>1. RelaySpec => []RelayInv
      BY InitRelay, NextRelay, PTL DEF RelaySpec
<1>2. RelayInv => BoundedAndInert
  <2> SUFFICES ASSUME Kept(Buffers)
               PROVE  BoundedAndInert
      BY DEF RelayInv
  <2>1. /\ IsText(payload) /\ NoMarker(payload) /\ bytes <= MaxBytes /\ lines <= MaxLines
        /\ bytes = Cardinality(Written(payload))
        BY DEF Kept, Buffers
  <2>2. ASSUME NEW i \in 1 .. Len(payload) - 2, SubSeq(payload, i, i + 2) = <<"#", "#", "[">>
        PROVE  FALSE
    <3>1. PICK S : payload \in Seq(S)
          BY <2>1 DEF IsText
    <3> DEFINE part == SubSeq(payload, i, i + 2)
    <3>2. part[1] = payload[i] /\ part[2] = payload[i + 1] /\ part[3] = payload[i + 2]
          BY <3>1
    <3> DEFINE marker == <<"#", "#", "[">>
    <3>3. marker[1] = "#" /\ marker[2] = "#" /\ marker[3] = "["
          OBVIOUS
    <3>4. part = marker
          BY <2>2
    <3> HIDE DEF part, marker
    <3> QED BY <2>1, <3>2, <3>3, <3>4 DEF NoMarker
  <2> QED BY <2>1, <2>2 DEF BoundedAndInert, Written
<1> QED BY <1>1, <1>2, PTL

\* To begin a stream is to agree with it symbol by symbol.
LEMMA LeadsByPlace ==
  ASSUME NEW S, NEW t \in Seq(S), NEW s \in Seq(S)
  PROVE  IsPrefix(t, s) <=> Len(t) <= Len(s) /\ \A i \in 1 .. Len(t) : t[i] = s[i]
<1>1. CASE Len(t) <= Len(s)
  <2>1. /\ SubSeq(t, 1, Len(t)) \in Seq(S) /\ Len(SubSeq(t, 1, Len(t))) = Len(t)
        /\ \A i \in 1 .. Len(t) : SubSeq(t, 1, Len(t))[i] = t[i]
        OBVIOUS
  <2>2. /\ SubSeq(s, 1, Len(t)) \in Seq(S) /\ Len(SubSeq(s, 1, Len(t))) = Len(t)
        /\ \A i \in 1 .. Len(t) : SubSeq(s, 1, Len(t))[i] = s[i]
        BY <1>1
  <2> QED BY <1>1, <2>1, <2>2 DEF IsPrefix
<1>2. CASE ~(Len(t) <= Len(s))
      BY <1>2 DEF IsPrefix
<1> QED BY <1>1, <1>2

\* Among the secrets a stream begins with there is a longest one.
LEMMA LongestLeads ==
  ASSUME NEW s \in Seq(Symbols), Leading(s) # {}
  PROVE  /\ LongestLeading(s) \in Leading(s)
         /\ LongestLeading(s) \in Seq(Symbols) /\ LongestLeading(s) # <<>>
         /\ Len(LongestLeading(s)) <= Len(s)
<1>1. \A t \in Leading(s) : t \in Seq(Symbols) /\ t # <<>> /\ Len(t) <= Len(s)
      BY SecretsAssumption DEF Leading, IsPrefix
<1> DEFINE T == {Len(s) - Len(t) : t \in Leading(s)}
<1>2. T \in SUBSET Nat /\ T # {}
      BY <1>1
<1>3. PICK x \in T : \A y \in T : x <= y
  <2> HIDE DEF T
  <2> QED BY <1>2, Smallest
<1>4. PICK t \in Leading(s) : x = Len(s) - Len(t)
      BY <1>3
<1>5. \A u \in Leading(s) : Len(u) <= Len(t)
  <2> SUFFICES ASSUME NEW u \in Leading(s)
               PROVE  Len(u) <= Len(t)
      OBVIOUS
  <2>1. x <= Len(s) - Len(u)
        BY <1>3
  <2>2. Len(u) \in Nat /\ Len(t) \in Nat /\ Len(s) \in Nat
        BY <1>1
  <2> QED BY <1>4, <2>1, <2>2
<1>6. LongestLeading(s) \in Leading(s)
      BY <1>5 DEF LongestLeading
<1> QED BY <1>1, <1>6

\* Every round of the scan shortens what is left.
LEMMA RestShorter ==
  ASSUME NEW s \in Seq(Symbols), s # <<>>
  PROVE  /\ Rest(s) \in Seq(Symbols) /\ Len(Rest(s)) \in Nat /\ Len(Rest(s)) < Len(s)
         /\ Out(s) \in Seq(Runes)
<1>1. CASE Leading(s) = {}
  <2>1. /\ Rest(s) = Tail(s) /\ Out(s) = <<Head(s)>>
        BY <1>1 DEF Rest, Out
  <2>2. Head(s) \in Symbols /\ Tail(s) \in Seq(Symbols) /\ Len(Tail(s)) = Len(s) - 1
        /\ Len(s) \in Nat /\ Len(s) # 0
        OBVIOUS
  <2> QED BY <2>1, <2>2 DEF Runes
<1>2. CASE Leading(s) # {}
  <2> DEFINE n == Len(LongestLeading(s))
  <2>1. n \in Nat /\ 1 <= n /\ n <= Len(s) /\ Len(s) \in Nat
        BY <1>2, LongestLeads
  <2>2. Rest(s) = SubSeq(s, n + 1, Len(s)) /\ Out(s) = Marker
        BY <1>2 DEF Rest, Out
  <2> HIDE DEF n
  <2>3. SubSeq(s, n + 1, Len(s)) \in Seq(Symbols) /\ Len(SubSeq(s, n + 1, Len(s))) = Len(s) - n
        BY <2>1
  <2>4. Marker \in Seq(Runes)
        BY MarkerAssumption, SeqMonotonic DEF Runes
  <2> QED BY <2>1, <2>2, <2>3, <2>4
<1> QED BY <1>1, <1>2

\* g redacts the streams in D, which is closed under what remains of a stream.
IsRedaction(g, D) ==
  g = [s \in D |-> IF s = <<>> THEN <<>> ELSE Out(s) \o g[Rest(s)]]

\* The streams of at most n symbols.
Short(n) == {s \in Seq(Symbols) : Len(s) <= n}

\* Two redactions agree where both are defined.
LEMMA RedactionsAgree ==
  ASSUME NEW n \in Nat, NEW m \in Nat, NEW g, NEW h,
         IsRedaction(g, Short(n)), IsRedaction(h, Short(m)),
         NEW s0 \in Seq(Symbols), Len(s0) <= n, Len(s0) <= m
  PROVE  g[s0] = h[s0]
<1> DEFINE Bad(s) == s \in Seq(Symbols) /\ Len(s) <= n /\ Len(s) <= m /\ g[s] # h[s]
           T == {k \in Nat : \E s \in Seq(Symbols) : Len(s) = k /\ Bad(s)}
<1>1. SUFFICES ASSUME Bad(s0) PROVE FALSE
      OBVIOUS
<1>2. T \in SUBSET Nat /\ T # {}
  <2>1. Len(s0) \in Nat
        OBVIOUS
  <2>2. Len(s0) \in T
        BY <1>1, <2>1
  <2> QED BY <2>2
<1>3. PICK k \in T : \A j \in T : k <= j
  <2> HIDE DEF T
  <2> QED BY <1>2, Smallest
<1>4. PICK s \in Seq(Symbols) : Len(s) = k /\ Bad(s)
      BY <1>3
<1>5. g[s] = (IF s = <<>> THEN <<>> ELSE Out(s) \o g[Rest(s)])
      BY <1>4 DEF IsRedaction, Short
<1>6. h[s] = (IF s = <<>> THEN <<>> ELSE Out(s) \o h[Rest(s)])
      BY <1>4 DEF IsRedaction, Short
<1>7. s # <<>> /\ g[Rest(s)] # h[Rest(s)]
      BY <1>4, <1>5, <1>6
<1>8. Rest(s) \in Seq(Symbols) /\ Len(Rest(s)) \in Nat /\ Len(Rest(s)) < Len(s)
      BY <1>7, RestShorter
<1>9. Len(Rest(s)) \in T
      BY <1>4, <1>7, <1>8
<1> QED BY <1>3, <1>4, <1>8, <1>9

\* There is a redaction of the streams up to any length.
LEMMA ShortRedaction ==
  ASSUME NEW n0 \in Nat
  PROVE  \E g : IsRedaction(g, Short(n0))
<1> DEFINE T == {n \in Nat : ~\E g : IsRedaction(g, Short(n))}
<1>1. SUFFICES ASSUME T # {} PROVE FALSE
      OBVIOUS
<1>2. /\ T \in SUBSET Nat
      /\ \A n \in Nat : n \notin T => \E g : IsRedaction(g, Short(n))
      /\ \A n \in T : \A g : ~IsRedaction(g, Short(n))
      OBVIOUS
<1> HIDE DEF T
<1>3. PICK n \in T : \A m \in T : n <= m
      BY <1>1, <1>2, Smallest
<1>4. CASE n = 0
  <2> DEFINE g == [s \in Short(0) |-> <<>>]
  <2>1. \A s \in Short(0) : s = <<>>
        BY DEF Short
  <2>2. g = [s \in Short(0) |-> IF s = <<>> THEN <<>> ELSE Out(s) \o g[Rest(s)]]
        BY <2>1
  <2>3. IsRedaction(g, Short(n))
        BY <1>4, <2>2 DEF IsRedaction
  <2> HIDE DEF g
  <2> QED BY <1>2, <2>3
<1>5. CASE n # 0
  <2>1. n \in Nat /\ n - 1 \in Nat /\ n - 1 \notin T
        BY <1>2, <1>3, <1>5
  <2>2. PICK h : IsRedaction(h, Short(n - 1))
        BY <1>2, <2>1
  <2> DEFINE g == [s \in Short(n) |-> IF s = <<>> THEN <<>> ELSE Out(s) \o h[Rest(s)]]
  <2>3. \A s \in Short(n) : g[s] = IF s = <<>> THEN <<>> ELSE Out(s) \o h[Rest(s)]
        OBVIOUS
  <2>4. \A s \in Short(n - 1) : s \in Short(n) /\ g[s] = h[s]
    <3>1. \A s \in Short(n - 1) : s \in Short(n)
          BY <2>1 DEF Short
    <3>2. \A s \in Short(n - 1) : h[s] = IF s = <<>> THEN <<>> ELSE Out(s) \o h[Rest(s)]
          BY <2>2 DEF IsRedaction
    <3> HIDE DEF g
    <3> QED BY <2>3, <3>1, <3>2
  <2>5. \A s \in Short(n) : s # <<>> => Rest(s) \in Short(n - 1)
    <3> SUFFICES ASSUME NEW s \in Short(n), s # <<>>
                 PROVE  Rest(s) \in Short(n - 1)
        OBVIOUS
    <3>1. s \in Seq(Symbols) /\ Len(s) <= n /\ Len(s) \in Nat
          BY DEF Short
    <3>2. Rest(s) \in Seq(Symbols) /\ Len(Rest(s)) \in Nat /\ Len(Rest(s)) < Len(s)
          BY <3>1, RestShorter
    <3> QED BY <2>1, <3>1, <3>2 DEF Short
  <2>6. \A s \in Short(n) : g[s] = IF s = <<>> THEN <<>> ELSE Out(s) \o g[Rest(s)]
    <3> HIDE DEF g
    <3> QED BY <2>3, <2>4, <2>5
  <2>7. g = [s \in Short(n) |-> g[s]]
        OBVIOUS
  <2> HIDE DEF g
  <2>8. IsRedaction(g, Short(n))
        BY <2>6, <2>7 DEF IsRedaction
  <2> QED BY <1>2, <2>8
<1> QED BY <1>4, <1>5

\* There is one of all streams.
LEMMA RedactionExists == \E g : IsRedaction(g, Seq(Symbols))
<1> DEFINE of(n) == CHOOSE g : IsRedaction(g, Short(n))
           f == [s \in Seq(Symbols) |-> of(Len(s))[s]]
<1>1. \A n \in Nat : IsRedaction(of(n), Short(n))
      BY ShortRedaction
<1>2. \A s \in Seq(Symbols) : Len(s) \in Nat /\ f[s] = of(Len(s))[s]
      OBVIOUS
<1>3. f = [s \in Seq(Symbols) |-> f[s]]
      OBVIOUS
<1> HIDE DEF of, f
<1>4. ASSUME NEW s \in Seq(Symbols)
      PROVE  f[s] = IF s = <<>> THEN <<>> ELSE Out(s) \o f[Rest(s)]
  <2>1. s \in Short(Len(s))
        BY DEF Short
  <2>2. of(Len(s))[s] = IF s = <<>> THEN <<>> ELSE Out(s) \o of(Len(s))[Rest(s)]
        BY <1>1, <1>2, <2>1 DEF IsRedaction
  <2>3. ASSUME s # <<>>
        PROVE  f[Rest(s)] = of(Len(s))[Rest(s)]
    <3>1. Rest(s) \in Seq(Symbols) /\ Len(Rest(s)) \in Nat /\ Len(Rest(s)) < Len(s)
          BY <2>3, RestShorter
    <3>2. f[Rest(s)] = of(Len(Rest(s)))[Rest(s)]
          BY <1>2, <3>1
    <3>3. /\ IsRedaction(of(Len(Rest(s))), Short(Len(Rest(s))))
          /\ IsRedaction(of(Len(s)), Short(Len(s)))
          BY <1>1, <1>2, <3>1
    <3>4. Len(Rest(s)) <= Len(Rest(s)) /\ Len(Rest(s)) <= Len(s) /\ Len(s) \in Nat
          BY <3>1
    <3>5. of(Len(Rest(s)))[Rest(s)] = of(Len(s))[Rest(s)]
          BY <3>1, <3>3, <3>4, RedactionsAgree
    <3> QED BY <3>2, <3>5
  <2> QED BY <1>2, <2>2, <2>3
<1>5. IsRedaction(f, Seq(Symbols))
      BY <1>3, <1>4 DEF IsRedaction
<1> QED BY <1>5

\* The reference is one.
LEMMA RedactedIsOne ==
  ASSUME NEW g, IsRedaction(g, Seq(Symbols))
  PROVE  IsRedaction(Redacted, Seq(Symbols))
BY Zenon DEF Redacted, IsRedaction

LEMMA RedactedUnfolds ==
  ASSUME NEW s \in Seq(Symbols)
  PROVE  Redacted[s] = IF s = <<>> THEN <<>> ELSE Out(s) \o Redacted[Rest(s)]
<1>1. IsRedaction(Redacted, Seq(Symbols))
      BY RedactionExists, RedactedIsOne
<1> QED BY <1>1 DEF IsRedaction

LEMMA RedactedType ==
  ASSUME NEW s0 \in Seq(Symbols)
  PROVE  Redacted[s0] \in Seq(Runes)
<1> DEFINE T == {k \in Nat : \E s \in Seq(Symbols) : Len(s) = k /\ Redacted[s] \notin Seq(Runes)}
<1>1. SUFFICES ASSUME Redacted[s0] \notin Seq(Runes) PROVE FALSE
      OBVIOUS
<1>2. T \in SUBSET Nat /\ T # {}
  <2>1. Len(s0) \in Nat
        OBVIOUS
  <2>2. Len(s0) \in T
        BY <1>1, <2>1
  <2> QED BY <2>2
<1>3. PICK k \in T : \A j \in T : k <= j
  <2> HIDE DEF T
  <2> QED BY <1>2, Smallest
<1>4. PICK s \in Seq(Symbols) : Len(s) = k /\ Redacted[s] \notin Seq(Runes)
      BY <1>3
<1>5. s # <<>>
  <2>1. s = <<>> => Redacted[s] = <<>>
        BY RedactedUnfolds
  <2>2. <<>> \in Seq(Runes)
        OBVIOUS
  <2> QED BY <1>4, <2>1, <2>2
<1>6. /\ Rest(s) \in Seq(Symbols) /\ Len(Rest(s)) \in Nat /\ Len(Rest(s)) < Len(s)
      /\ Out(s) \in Seq(Runes)
      BY <1>5, RestShorter
<1>7. Redacted[Rest(s)] \in Seq(Runes)
  <2>1. Len(Rest(s)) \notin T
        BY <1>3, <1>4, <1>6
  <2> QED BY <1>6, <2>1
<1>8. Redacted[s] = Out(s) \o Redacted[Rest(s)]
      BY <1>5, RedactedUnfolds
<1> QED BY <1>4, <1>6, <1>7, <1>8

\* Nothing that is still to come can lengthen a secret that p begins with, or has begun.
Decided(p, z) == z = <<>> \/ \A t \in Secrets : Len(p) < Len(t) => ~IsPrefix(p, t)

LEMMA LeadingStays ==
  ASSUME NEW p \in Seq(Symbols), NEW z \in Seq(Symbols), Decided(p, z)
  PROVE  Leading(p \o z) = Leading(p)
<1>1. /\ p \o z \in Seq(Symbols) /\ Len(p \o z) = Len(p) + Len(z)
      /\ Len(p) \in Nat /\ Len(z) \in Nat
      /\ \A i \in 1 .. Len(p) : (p \o z)[i] = p[i]
      OBVIOUS
<1> SUFFICES ASSUME NEW t \in Secrets
             PROVE  IsPrefix(t, p \o z) <=> IsPrefix(t, p)
    BY DEF Leading
<1>2. t \in Seq(Symbols) /\ Len(t) \in Nat
      BY SecretsAssumption
<1>3. IsPrefix(t, p \o z) <=>
        Len(t) <= Len(p \o z) /\ \A i \in 1 .. Len(t) : t[i] = (p \o z)[i]
  <2> DEFINE s == p \o z
  <2>1. s \in Seq(Symbols)
        BY <1>1
  <2> HIDE DEF s
  <2>2. IsPrefix(t, s) <=> Len(t) <= Len(s) /\ \A i \in 1 .. Len(t) : t[i] = s[i]
        BY <1>2, <2>1, LeadsByPlace
  <2> QED BY <2>2 DEF s
<1>4. IsPrefix(t, p) <=> Len(t) <= Len(p) /\ \A i \in 1 .. Len(t) : t[i] = p[i]
      BY <1>2, LeadsByPlace
<1>5. CASE Len(t) <= Len(p)
  <2>1. \A i \in 1 .. Len(t) : (p \o z)[i] = p[i]
        BY <1>1, <1>2, <1>5
  <2> QED BY <1>1, <1>3, <1>4, <1>5, <2>1
<1>6. CASE Len(p) < Len(t)
  <2>1. ~IsPrefix(t, p)
        BY <1>1, <1>2, <1>4, <1>6
  <2>2. ASSUME IsPrefix(t, p \o z) PROVE FALSE
    <3>1. z # <<>>
          BY <1>1, <1>2, <1>3, <1>6, <2>2
    <3>2. \A i \in 1 .. Len(p) : p[i] = t[i]
          BY <1>1, <1>2, <1>3, <1>6, <2>2
    <3>3. IsPrefix(p, t)
          BY <1>1, <1>2, <1>6, <3>2, LeadsByPlace
    <3> QED BY <1>6, <3>1, <3>3 DEF Decided
  <2> QED BY <2>1, <2>2
<1> QED BY <1>1, <1>2, <1>5, <1>6

\* Then a round of the scan over p and what comes after it looks at p alone.
LEMMA OneRound ==
  ASSUME NEW p \in Seq(Symbols), p # <<>>, NEW z \in Seq(Symbols), Decided(p, z)
  PROVE  Redacted[p \o z] = Out(p) \o Redacted[Rest(p) \o z]
<1> DEFINE s == p \o z
<1>1. /\ s \in Seq(Symbols) /\ Len(s) = Len(p) + Len(z)
      /\ Len(p) \in Nat /\ Len(p) # 0 /\ Len(z) \in Nat /\ s # <<>>
      /\ \A i \in 1 .. Len(p) + Len(z) : s[i] = IF i <= Len(p) THEN p[i] ELSE z[i - Len(p)]
      OBVIOUS
<1>2. Leading(s) = Leading(p)
      BY LeadingStays
<1>3. LongestLeading(s) = LongestLeading(p)
      BY <1>2 DEF LongestLeading
<1> HIDE DEF s
<1>4. Out(s) = Out(p)
  <2>1. Head(s) = Head(p)
        BY <1>1
  <2> QED BY <1>2, <2>1 DEF Out
<1>5. Rest(s) = Rest(p) \o z
  <2>1. CASE Leading(p) = {}
    <3>1. Rest(s) = Tail(s) /\ Rest(p) = Tail(p)
          BY <1>2, <2>1 DEF Rest
    <3>2. Tail(s) \in Seq(Symbols) /\ Tail(p) \o z \in Seq(Symbols)
          BY <1>1
    <3>3. Len(Tail(s)) = Len(Tail(p) \o z)
          BY <1>1
    <3>4. \A i \in 1 .. Len(Tail(s)) : Tail(s)[i] = (Tail(p) \o z)[i]
          BY <1>1
    <3> QED BY <3>1, <3>2, <3>3, <3>4, SeqEqual
  <2>2. CASE Leading(p) # {}
    <3> DEFINE n == Len(LongestLeading(p))
               a == SubSeq(s, n + 1, Len(s))
               b == SubSeq(p, n + 1, Len(p))
    <3>1. n \in Nat /\ n <= Len(p)
          BY <2>2, LongestLeads
    <3>2. Rest(s) = a /\ Rest(p) = b
          BY <1>2, <1>3, <2>2 DEF Rest
    <3> HIDE DEF n
    <3>3. a \in Seq(Symbols) /\ Len(a) = Len(s) - n /\ \A i \in 1 .. Len(s) - n : a[i] = s[n + i]
          BY <1>1, <3>1
    <3>4. b \in Seq(Symbols) /\ Len(b) = Len(p) - n /\ \A i \in 1 .. Len(p) - n : b[i] = p[n + i]
          BY <1>1, <3>1
    <3> HIDE DEF a, b
    <3>5. b \o z \in Seq(Symbols) /\ Len(b \o z) = Len(a)
      <4>1. b \o z \in Seq(Symbols) /\ Len(b \o z) = Len(b) + Len(z)
            BY <3>4
      <4>2. Len(a) = Len(b) + Len(z)
            BY <1>1, <3>1, <3>3, <3>4
      <4> QED BY <4>1, <4>2
    <3>6. \A i \in 1 .. Len(a) : a[i] = (b \o z)[i]
      <4> SUFFICES ASSUME NEW i \in 1 .. Len(a) PROVE a[i] = (b \o z)[i]
          OBVIOUS
      <4>1. CASE i <= Len(p) - n
        <5>1. (b \o z)[i] = b[i]
              BY <1>1, <3>1, <3>4, <4>1
        <5>2. a[i] = s[n + i] /\ b[i] = p[n + i] /\ s[n + i] = p[n + i]
              BY <1>1, <3>1, <3>3, <3>4, <4>1
        <5> QED BY <5>1, <5>2
      <4>2. CASE i > Len(p) - n
        <5>1. (b \o z)[i] = z[i - (Len(p) - n)]
              BY <1>1, <3>1, <3>3, <3>4, <4>2
        <5>2. a[i] = s[n + i] /\ s[n + i] = z[(n + i) - Len(p)]
              BY <1>1, <3>1, <3>3, <4>2
        <5>3. (n + i) - Len(p) = i - (Len(p) - n)
              BY <1>1, <3>1
        <5> QED BY <5>1, <5>2, <5>3
      <4>3. i \in Nat /\ Len(p) - n \in Nat
            BY <1>1, <3>1, <3>3
      <4>4. i <= Len(p) - n \/ i > Len(p) - n
            BY <4>3
      <4> QED BY <4>1, <4>2, <4>4, Zenon
    <3> QED BY <3>2, <3>3, <3>5, <3>6, SeqEqual
  <2> QED BY <2>1, <2>2
<1>6. Redacted[s] = Out(s) \o Redacted[Rest(s)]
      BY <1>1, RedactedUnfolds
<1> QED BY <1>4, <1>5, <1>6 DEF s

\* Three parts of a stream may be put together in either order.
LEMMA Regroup ==
  ASSUME NEW S, NEW r \in Seq(S), NEW s \in Seq(S), NEW t \in Seq(S)
  PROVE  r \o (s \o t) = (r \o s) \o t
BY ConcatAssociative

\* A stream begins with every part of it that has been handed on.
LEMMA HandedOn ==
  ASSUME NEW S, NEW r \in Seq(S), NEW t \in Seq(S)
  PROVE  IsPrefix(r, r \o t)
<1>1. r \o t \in Seq(S) /\ Len(r) <= Len(r \o t) /\ \A i \in 1 .. Len(r) : r[i] = (r \o t)[i]
      OBVIOUS
<1> QED BY <1>1, LeadsByPlace

-----------------------------------------------------------------------------
\* What may still be written: anything, until emit says that the stream has ended.
ToCome == IF mode \in {"idle", "write"} THEN Seq(Symbols) ELSE {<<>>}

\* However the stream goes on, what was handed on is the beginning of its redaction, and, unless
\* the relay has given up, the redaction of what is pending is the rest.
StreamTypes ==
  /\ input \in Seq(Symbols) /\ pending \in Seq(Symbols) /\ raw \in Seq(Runes)
  /\ mode \in {"idle", "write", "flush", "done"}
HandsOnRightly ==
  \A z \in ToCome :
    /\ IsPrefix(raw, Redacted[input \o z])
    /\ ~truncated => Redacted[input \o z] = raw \o Redacted[pending \o z]
StreamInv ==
  /\ StreamTypes /\ HandsOnRightly
  /\ mode = "done" /\ ~truncated => pending = <<>>

LEMMA InitStream == RelayInit => StreamInv
<1> SUFFICES ASSUME RelayInit PROVE StreamInv
    OBVIOUS
<1>1. input = <<>> /\ pending = <<>> /\ raw = <<>> /\ mode = "idle"
      BY DEF RelayInit
<1>2. StreamTypes
      BY <1>1 DEF StreamTypes
<1>3. ASSUME NEW z \in Seq(Symbols)
      PROVE  /\ IsPrefix(raw, Redacted[input \o z])
             /\ Redacted[input \o z] = raw \o Redacted[pending \o z]
  <2>1. input \o z \in Seq(Symbols) /\ input \o z = pending \o z
        BY <1>1
  <2>2. Redacted[input \o z] \in Seq(Runes)
        BY <2>1, RedactedType
  <2>3. raw \in Seq(Runes) /\ raw \o Redacted[input \o z] = Redacted[input \o z]
        BY <1>1, <2>2
  <2> QED BY <2>1, <2>2, <2>3, HandedOn
<1> QED BY <1>1, <1>2, <1>3 DEF StreamInv, HandsOnRightly, ToCome

\* A round of redact hands on what the reference does.
LEMMA RoundStream ==
  ASSUME StreamInv, Redacting, mode = "write" => ~Partial,
         pending' = Rest(pending), raw' = raw \o Out(pending), UNCHANGED <<input, mode>>
  PROVE  StreamInv'
<1>1. /\ input \in Seq(Symbols) /\ pending \in Seq(Symbols) /\ raw \in Seq(Runes)
      /\ pending # <<>> /\ ~truncated /\ mode \in {"write", "flush"}
      BY DEF StreamInv, StreamTypes, Redacting
<1>2. Rest(pending) \in Seq(Symbols) /\ Out(pending) \in Seq(Runes)
      BY <1>1, RestShorter
<1>3. raw' \in Seq(Runes)
      BY <1>1, <1>2
<1>4. StreamTypes'
      BY <1>1, <1>2, <1>3 DEF StreamTypes
<1>5. ASSUME NEW z \in ToCome
      PROVE  /\ IsPrefix(raw', Redacted[input \o z])
             /\ Redacted[input \o z] = raw' \o Redacted[pending' \o z]
  <2>1. z \in Seq(Symbols) /\ Rest(pending) \o z \in Seq(Symbols)
    <3>1. <<>> \in Seq(Symbols)
          OBVIOUS
    <3>2. z \in Seq(Symbols)
          BY <3>1 DEF ToCome
    <3> QED BY <1>2, <3>2
  <2>2. Decided(pending, z)
    <3>1. CASE mode = "write"
          BY <3>1 DEF Decided, Partial
    <3>2. CASE mode = "flush"
          BY <3>2 DEF Decided, ToCome
    <3> QED BY <1>1, <3>1, <3>2
  <2>3. Redacted[input \o z] = raw \o Redacted[pending \o z]
        BY <1>1 DEF StreamInv, HandsOnRightly
  <2>4. Redacted[pending \o z] = Out(pending) \o Redacted[Rest(pending) \o z]
        BY <1>1, <2>1, <2>2, OneRound
  <2>5. Redacted[Rest(pending) \o z] \in Seq(Runes)
        BY <2>1, RedactedType
  <2>6. raw \o (Out(pending) \o Redacted[Rest(pending) \o z])
          = (raw \o Out(pending)) \o Redacted[Rest(pending) \o z]
    <3> DEFINE t == Redacted[Rest(pending) \o z]
               o == Out(pending)
    <3>1. t \in Seq(Runes) /\ o \in Seq(Runes) /\ raw \in Seq(Runes)
          BY <1>1, <1>2, <2>5
    <3> HIDE DEF t, o
    <3>2. raw \o (o \o t) = (raw \o o) \o t
          BY <3>1, Regroup
    <3> QED BY <3>2 DEF t, o
  <2>7. Redacted[input \o z] = raw' \o Redacted[pending' \o z]
        BY <2>3, <2>4, <2>6
  <2> QED BY <1>3, <2>5, <2>7, HandedOn
<1>6. ToCome' = ToCome
      BY DEF ToCome
<1>7. HandsOnRightly'
      BY <1>5, <1>6 DEF HandsOnRightly
<1> QED BY <1>1, <1>4, <1>7 DEF StreamInv

\* A byte is written: what was to come begins with it.
LEMMA WriteStream == StreamInv /\ WriteByte => StreamInv'
<1> SUFFICES ASSUME StreamInv, WriteByte PROVE StreamInv'
    OBVIOUS
<1>1. PICK b \in Symbols :
        /\ input' = Append(input, b)
        /\ IF truncated THEN UNCHANGED <<pending, mode>>
           ELSE pending' = Append(pending, b) /\ mode' = "write"
      BY DEF WriteByte
<1>2. mode = "idle" /\ UNCHANGED <<raw, truncated>>
      BY DEF WriteByte, relayVars
<1>3. mode' \in {"idle", "write"} /\ (~truncated => pending' = Append(pending, b))
      /\ (truncated => pending' = pending)
      BY <1>1, <1>2
<1>4. input \in Seq(Symbols) /\ pending \in Seq(Symbols) /\ raw \in Seq(Runes)
      BY DEF StreamInv, StreamTypes
<1>5. StreamTypes'
  <2>1. Append(input, b) \in Seq(Symbols) /\ Append(pending, b) \in Seq(Symbols)
        BY <1>4
  <2>2. input' \in Seq(Symbols)
        BY <1>1, <2>1
  <2>3. pending' \in Seq(Symbols)
        BY <1>3, <1>4, <2>1
  <2>4. raw' \in Seq(Runes)
        BY <1>2, <1>4
  <2> QED BY <1>3, <2>2, <2>3, <2>4 DEF StreamTypes
<1>6. ASSUME NEW z \in Seq(Symbols)
      PROVE  /\ IsPrefix(raw', Redacted[input' \o z])
             /\ ~truncated' => Redacted[input' \o z] = raw' \o Redacted[pending' \o z]
  <2>1. <<b>> \in Seq(Symbols) /\ <<b>> \o z \in Seq(Symbols)
        OBVIOUS
  <2>2. Append(input, b) = input \o <<b>> /\ Append(pending, b) = pending \o <<b>>
        BY <1>4, AppendIsConcat
  <2>3. /\ (input \o <<b>>) \o z = input \o (<<b>> \o z)
        /\ (pending \o <<b>>) \o z = pending \o (<<b>> \o z)
    <3> DEFINE one == <<b>>
    <3>1. one \in Seq(Symbols)
          BY <2>1
    <3> HIDE DEF one
    <3>2. (input \o one) \o z = input \o (one \o z)
          BY <1>4, <3>1, Regroup
    <3>3. (pending \o one) \o z = pending \o (one \o z)
          BY <1>4, <3>1, Regroup
    <3> QED BY <3>2, <3>3 DEF one
  <2>4. <<b>> \o z \in ToCome
        BY <1>2, <2>1 DEF ToCome
  <2>5. /\ IsPrefix(raw, Redacted[input \o (<<b>> \o z)])
        /\ ~truncated => Redacted[input \o (<<b>> \o z)] = raw \o Redacted[pending \o (<<b>> \o z)]
        BY <2>4 DEF StreamInv, HandsOnRightly
  <2> QED BY <1>1, <1>2, <1>3, <2>2, <2>3, <2>5
<1>7. HandsOnRightly'
      BY <1>3, <1>6 DEF HandsOnRightly, ToCome
<1> QED BY <1>3, <1>5, <1>7 DEF StreamInv

\* emit, and the return of redact: there may be less to come.
LEMMA RestStream ==
  ASSUME StreamInv, UNCHANGED <<input, raw, pending, truncated>>,
         mode' \in {"idle", "write", "flush", "done"},
         mode' \in {"idle", "write"} => mode \in {"idle", "write"},
         mode' = "done" /\ ~truncated => pending = <<>>
  PROVE  StreamInv'
<1>1. StreamTypes'
      BY DEF StreamInv, StreamTypes
<1>2. ASSUME NEW z \in ToCome'
      PROVE  z \in ToCome
  <2>1. <<>> \in Seq(Symbols)
        OBVIOUS
  <2> QED BY <1>2, <2>1 DEF ToCome
<1>3. HandsOnRightly'
      BY <1>2 DEF StreamInv, HandsOnRightly
<1> QED BY <1>1, <1>3 DEF StreamInv

LEMMA NextStream == StreamInv /\ [RelayNext]_streamVars => StreamInv'
<1> SUFFICES ASSUME StreamInv, [RelayNext]_streamVars PROVE StreamInv'
    OBVIOUS
<1>1. CASE WriteByte
      BY <1>1, WriteStream
<1>2. CASE Emit
  <2>1. UNCHANGED <<input, raw, pending, truncated>> /\ mode' = "flush"
        BY <1>2 DEF Emit, relayVars
  <2> QED BY <2>1, RestStream
<1>3. CASE RedactReturns
  <2>1. /\ UNCHANGED <<input, raw, pending, truncated>>
        /\ mode \in {"write", "flush"}
        /\ mode' = IF mode = "flush" THEN "done" ELSE "idle"
        /\ pending = <<>> \/ truncated \/ mode = "write"
        BY <1>3 DEF RedactReturns, relayVars
  <2> QED BY <2>1, RestStream
<1>4. CASE RedactSecret
  <2>1. Leading(pending) # {} /\ Longest = LongestLeading(pending)
        BY <1>4 DEF RedactSecret, Matches, Leading, Longest, LongestLeading
  <2>2. pending' = Rest(pending) /\ raw' = raw \o Out(pending) /\ UNCHANGED <<input, mode>>
        BY <1>4, <2>1 DEF RedactSecret, Collect, Rest, Out
  <2>3. Redacting /\ (mode = "write" => ~Partial)
        BY <1>4 DEF RedactSecret
  <2> QED BY <2>2, <2>3, RoundStream
<1>5. CASE PassByte
  <2>1. Leading(pending) = {}
        BY <1>5 DEF PassByte, Matches, Leading
  <2>2. pending' = Rest(pending) /\ raw' = raw \o Out(pending) /\ UNCHANGED <<input, mode>>
        BY <1>5, <2>1 DEF PassByte, Collect, Rest, Out
  <2>3. Redacting /\ (mode = "write" => ~Partial)
        BY <1>5 DEF PassByte
  <2> QED BY <2>2, <2>3, RoundStream
<1>6. CASE UNCHANGED streamVars
  <2>1. UNCHANGED <<input, raw, pending, truncated, mode>>
        BY <1>6 DEF streamVars, relayVars
  <2>2. /\ mode \in {"idle", "write", "flush", "done"}
        /\ mode = "done" /\ ~truncated => pending = <<>>
        BY DEF StreamInv, StreamTypes
  <2> QED BY <2>1, <2>2, RestStream
<1> QED BY <1>1, <1>2, <1>3, <1>4, <1>5, <1>6 DEF RelayNext

\* Once the relay has emitted, what it handed on is what redacting the whole stream at once would
\* have given, or a prefix of it if the bounds cut it off: wherever the writes were cut, and for all
\* secrets, overlapping or contained in one another.
THEOREM RedactsLikeBatch == RelaySpec => []StreamsLikeBatch
<1>1. RelaySpec => []StreamInv
      BY InitStream, NextStream, PTL DEF RelaySpec
<1>2. StreamInv => StreamsLikeBatch
  <2> SUFFICES ASSUME StreamInv, mode = "done"
               PROVE  /\ ~truncated => raw = Redacted[input]
                      /\ IsPrefix(raw, Redacted[input])
      BY DEF StreamsLikeBatch
  <2>1. input \in Seq(Symbols) /\ pending \in Seq(Symbols) /\ raw \in Seq(Runes)
        BY DEF StreamInv, StreamTypes
  <2>2. <<>> \in ToCome
        BY DEF ToCome
  <2>3. input \o <<>> = input /\ pending \o <<>> = pending
        BY <2>1
  <2>4. /\ IsPrefix(raw, Redacted[input])
        /\ ~truncated => Redacted[input] = raw \o Redacted[pending]
        BY <2>2, <2>3 DEF StreamInv, HandsOnRightly
  <2>5. ASSUME ~truncated PROVE raw = Redacted[input]
    <3>1. pending = <<>>
          BY <2>5 DEF StreamInv
    <3>2. Redacted[pending] = <<>>
          BY <2>1, <3>1, RedactedUnfolds
    <3>3. raw \o <<>> = raw
          BY <2>1
    <3> QED BY <2>4, <2>5, <3>2, <3>3
  <2> QED BY <2>4, <2>5
<1> QED BY <1>1, <1>2, PTL
=============================================================================
