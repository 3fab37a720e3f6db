---------------------------- MODULE BuildCommand ----------------------------
(***************************************************************************)
(* npm-profile-build from its registry read to a command of the build:     *)
(* Execute asks RegistryClient.Preflight what the registry holds, and only *)
(* when it was told starts BuildPack, whose commands run at the command    *)
(* boundary.  The other remote calls (Attestations, OIDCClient.Preflight)  *)
(* are followed by no command of this job: the behaviour ends with them.   *)
(***************************************************************************)
EXTENDS RemoteClient, CommandBoundary

VARIABLE building   \* has BuildPack been entered?

jobVars == <<clientVars, vars, building>>

\* Preflight returned without an error, whatever it was told.
Answered == phase = "done" /\ op = "packument" /\ conclusion \in Truths("packument")

\* Mutant: BuildPack is entered although Preflight returned an error.
EnterAnyway ==
  /\ phase = "done" /\ op = "packument" /\ ~building
  /\ building' = TRUE
  /\ answer' = NoAnswer /\ attempt' = 0 /\ expired' = FALSE
  /\ UNCHANGED <<phase, op, conclusion, truth, seen, vars>>

\* The locals of the call go out of scope and BuildPack is entered.
EnterBuildPack ==
  /\ Answered /\ ~building
  /\ building' = TRUE
  /\ answer' = NoAnswer /\ attempt' = 0 /\ expired' = FALSE
  /\ UNCHANGED <<phase, op, conclusion, truth, seen, vars>>

Call  == CallNext /\ UNCHANGED <<vars, building>>
Build == building /\ Next /\ UNCHANGED <<clientVars, building>>

JobInit == CallInit /\ Init /\ building = FALSE
JobNext == Call \/ EnterBuildPack \/ Build

\* The program and its goroutines run and its timers fire; neither the remote side nor
\* the child owes anything.
JobSpec ==
  /\ JobInit /\ [][JobNext]_jobVars
  /\ WF_jobVars(Client /\ Call) /\ WF_jobVars(RequestExpires /\ Call)
  /\ WF_jobVars(EnterBuildPack)
  /\ WF_jobVars(Command /\ Build) /\ WF_jobVars(WatchKill /\ Build)
  /\ WF_jobVars(CopyEnds /\ Build) /\ WF_jobVars(DeadlinePasses /\ Build)

-----------------------------------------------------------------------------
(* Properties.                                                             *)

\* No process of the package is started before the registry has been read: the command
\* acts on an answer that was true at some time since the read was begun, and a read
\* that failed starts nothing (Execute returns the error).
StartedOnAnswer == Started => Answered /\ conclusion \in seen

\* The call returns although the remote side may never answer, and a command that is
\* reached returns even if its child never exits, or a descendant that left the group
\* keeps the pipes open for ever (commandTimeout, commandWaitDelay).
StepReturns == <>(phase = "done" /\ (Answered => pc = "returned"))
=============================================================================
