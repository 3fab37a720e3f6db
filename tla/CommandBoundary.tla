--------------------------- MODULE CommandBoundary --------------------------
(***************************************************************************)
(* runCommandAtBoundary of internal/npmprofile/exec_boundary.go: a child   *)
(* in a process group of its own, two goroutines that copy its output, the *)
(* goroutine that watches the context, and the wait for all of them.       *)
(*                                                                         *)
(* os/exec (Start, Wait, WaitDelay) and the operating system are external. *)
(* Descendants of the child may stay in its group or leave it, and any of  *)
(* them may keep the output pipes open.                                    *)
(***************************************************************************)
EXTENDS Naturals

CONSTANT RejectOverflow   \* rejectOutputOverflow: does too much output fail the command?

ASSUME OverflowAssumption == RejectOverflow \in BOOLEAN

Copiers == {"stdout", "stderr"}

VARIABLES
  pc,           \* where runCommandAtBoundary is
  child,        \* "none", "running", or how it exited
  groupAlive,   \* does a descendant live in the child's process group?
  escapedAlive, \* does a descendant live that has left the group?
  copying,      \* copy goroutines that still run
  pipesClosed,  \* has os/exec given up the pipes?
  overflow,     \* has the child written more than maximumOutput?
  ctx,          \* the command context: "live", "deadline" or "canceled"
  watcher,      \* os/exec's watchCtx: "off", "watching" or "killed"
  runErr,       \* error of Start, Wait or the final kill
  result        \* what the caller gets, and the logged outcome

worldVars == <<child, groupAlive, escapedAlive, overflow, ctx>>
execVars  == <<copying, pipesClosed, watcher>>
vars == <<pc, worldVars, execVars, runErr, result>>

Exits    == {"zero", "nonzero", "signal"}
RunErrs  == {"nil", "start", "exit", "context", "wait-delay", "descendants"}
Errors   == {"nil", "boundary", "timeout", "failed", "overflow"}
Outcomes == {"none", "start-failed", "timeout", "canceled", "exit", "signal"}
NoResult == [err |-> "nil", outcome |-> "none"]

FlagTypeOK ==
  /\ groupAlive \in BOOLEAN /\ escapedAlive \in BOOLEAN
  /\ pipesClosed \in BOOLEAN /\ overflow \in BOOLEAN

\* Child, goroutines, context and result of runCommandAtBoundary keep their types.
TypeOK ==
  /\ FlagTypeOK
  /\ pc \in {"validate", "start", "wait", "watch", "await", "drain", "cleanup", "complete",
             "returned"}
  /\ child \in {"none", "running"} \cup Exits
  /\ copying \subseteq Copiers
  /\ ctx \in {"live", "deadline", "canceled"}
  /\ watcher \in {"off", "watching", "killed"}
  /\ runErr \in RunErrs
  /\ result \in [err : Errors, outcome : Outcomes]

Started == child # "none"
Exited  == child \in Exits

\* The first error is kept.
Keep(err) == runErr' = IF runErr = "nil" THEN err ELSE runErr

-----------------------------------------------------------------------------
(* The command.                                                            *)

\* validateExecutableContainment: nothing is executed outside the trusted roots.
Validate ==
  /\ pc = "validate"
  /\ \/ pc' = "start" /\ UNCHANGED result
     \/ /\ pc' = "returned"
        /\ result' = [err |-> "boundary", outcome |-> "none"]
  /\ UNCHANGED <<worldVars, execVars, runErr>>

\* command.Start fails, always so under a context that has ended.
StartFails ==
  /\ pc = "start"
  /\ runErr' = "start"
  /\ pc' = "complete"
  /\ UNCHANGED <<worldVars, execVars, result>>

Start ==
  /\ pc = "start" /\ ctx = "live"
  /\ child' = "running"
  /\ copying' = Copiers
  /\ watcher' = "watching"
  /\ pc' = "wait"
  /\ UNCHANGED <<groupAlive, escapedAlive, overflow, ctx, pipesClosed, runErr, result>>

\* Wait: the child has exited and is reaped.
WaitProcess ==
  /\ pc = "wait" /\ Exited
  /\ runErr' = IF child = "zero" THEN "nil" ELSE "exit"
  /\ pc' = "watch"
  /\ UNCHANGED <<worldVars, execVars, result>>

\* Wait: the watcher is told to stop, or has killed the group in the meantime.
WaitWatcher ==
  /\ pc = "watch"
  /\ IF watcher = "killed" THEN Keep("context") ELSE UNCHANGED runErr
  /\ watcher' = "off"
  /\ pc' = "await"
  /\ UNCHANGED <<worldVars, copying, pipesClosed, result>>

\* Wait: the copy goroutines end on their own.
AwaitCopiers ==
  /\ pc = "await" /\ copying = {}
  /\ pc' = "cleanup"
  /\ UNCHANGED <<worldVars, execVars, runErr, result>>

\* Mutant: no WaitDelay is set, so only the end of the output ends the wait.
WaitDelayOff ==
  /\ pc = "await" /\ copying = {}
  /\ pc' = "drain"
  /\ UNCHANGED <<worldVars, execVars, runErr, result>>

\* Mutant: the goroutines are abandoned when the pipes are closed.
WaitDelayAbandons ==
  /\ pc = "await" /\ copying # {}
  /\ pipesClosed' = TRUE
  /\ Keep("wait-delay")
  /\ pc' = "cleanup"
  /\ UNCHANGED <<worldVars, copying, watcher, result>>

\* Wait: WaitDelay has passed, the pipes are closed under the goroutines.
WaitDelayExpires ==
  /\ pc = "await" /\ copying # {}
  /\ pipesClosed' = TRUE
  /\ Keep("wait-delay")
  /\ pc' = "drain"
  /\ UNCHANGED <<worldVars, copying, watcher, result>>

\* Wait: the goroutines end on the closed pipes.
DrainCopiers ==
  /\ pc = "drain" /\ copying = {}
  /\ pc' = "cleanup"
  /\ UNCHANGED <<worldVars, execVars, runErr, result>>

\* Mutant: the group is killed only when the command failed.
CleanupOnError ==
  /\ pc = "cleanup"
  /\ groupAlive' = (groupAlive /\ runErr = "nil")
  /\ pc' = "complete"
  /\ UNCHANGED <<child, escapedAlive, overflow, ctx, execVars, runErr, result>>

\* The group is killed once more; descendants that cannot be killed are an error.
Cleanup ==
  /\ pc = "cleanup"
  /\ \/ groupAlive' = FALSE /\ UNCHANGED runErr
     \/ groupAlive /\ Keep("descendants") /\ UNCHANGED groupAlive
  /\ pc' = "complete"
  /\ UNCHANGED <<child, escapedAlive, overflow, ctx, execVars, result>>

outcome ==
  IF ~Started THEN "start-failed"
  ELSE IF runErr # "nil" /\ ctx = "deadline" THEN "timeout"
  ELSE IF runErr # "nil" /\ ctx = "canceled" THEN "canceled"
  ELSE IF child = "signal" THEN "signal" ELSE "exit"

\* Mutant: errors other than the exit status are not returned.
CompleteByStatus ==
  /\ pc = "complete"
  /\ result' = [err |-> IF child = "zero" THEN "nil" ELSE "failed", outcome |-> outcome]
  /\ pc' = "returned"
  /\ UNCHANGED <<worldVars, execVars, runErr>>

\* The relay is emitted, the outcome logged and the command returns.
Complete ==
  /\ pc = "complete"
  /\ result' = [outcome |-> outcome,
                err |-> IF runErr # "nil" THEN IF ctx = "deadline" THEN "timeout" ELSE "failed"
                        ELSE IF RejectOverflow /\ overflow THEN "overflow"
                        ELSE "nil"]
  /\ pc' = "returned"
  /\ UNCHANGED <<worldVars, execVars, runErr>>

-----------------------------------------------------------------------------
(* os/exec's goroutines.                                                   *)

\* Cancel: the context has ended and the whole group is killed, unless Wait has
\* already stopped the watcher.  A child that has exited on its own stays as it is.
WatchKill ==
  /\ watcher = "watching" /\ ctx # "live"
  /\ child' = IF child = "running" THEN "signal" ELSE child
  /\ groupAlive' = FALSE
  /\ watcher' = "killed"
  /\ UNCHANGED <<pc, escapedAlive, overflow, ctx, copying, pipesClosed, runErr, result>>

\* A copy goroutine ends for certain when nobody is left to write to its stream, or
\* when its pipe is closed.
CopyEnds ==
  /\ \E c \in copying : copying' = copying \ {c}
  /\ pipesClosed \/ (Exited /\ ~groupAlive /\ ~escapedAlive)
  /\ UNCHANGED <<pc, worldVars, pipesClosed, watcher, runErr, result>>

-----------------------------------------------------------------------------
(* The child, its descendants and the clock (external).                    *)

ChildExits ==
  /\ child = "running"
  /\ child' \in Exits
  /\ UNCHANGED <<pc, groupAlive, escapedAlive, overflow, ctx, execVars, runErr, result>>

ChildForks ==
  /\ child = "running"
  /\ groupAlive' = TRUE
  /\ UNCHANGED <<pc, child, escapedAlive, overflow, ctx, execVars, runErr, result>>

DescendantEscapes ==
  /\ groupAlive
  /\ escapedAlive' = TRUE /\ groupAlive' \in BOOLEAN
  /\ UNCHANGED <<pc, child, overflow, ctx, execVars, runErr, result>>

DescendantExits ==
  /\ \/ groupAlive /\ groupAlive' = FALSE /\ UNCHANGED escapedAlive
     \/ escapedAlive /\ escapedAlive' = FALSE /\ UNCHANGED groupAlive
  /\ UNCHANGED <<pc, child, overflow, ctx, execVars, runErr, result>>

WritesTooMuch ==
  /\ child = "running" /\ copying # {}
  /\ overflow' = TRUE
  /\ UNCHANGED <<pc, child, groupAlive, escapedAlive, ctx, execVars, runErr, result>>

\* Whoever holds a stream's write end may close it early, and descendants may live
\* on without it.
StreamCloses ==
  /\ \E c \in copying : copying' = copying \ {c}
  /\ UNCHANGED <<pc, worldVars, pipesClosed, watcher, runErr, result>>

\* commandTimeout passes.
DeadlinePasses ==
  /\ pc # "returned" /\ ctx = "live"
  /\ ctx' = "deadline"
  /\ UNCHANGED <<pc, child, groupAlive, escapedAlive, overflow, execVars, runErr, result>>

CallerCancels ==
  /\ pc # "returned" /\ ctx = "live"
  /\ ctx' = "canceled"
  /\ UNCHANGED <<pc, child, groupAlive, escapedAlive, overflow, execVars, runErr, result>>

-----------------------------------------------------------------------------
Init ==
  /\ pc = "validate"
  /\ child = "none" /\ groupAlive = FALSE /\ escapedAlive = FALSE
  /\ overflow = FALSE /\ ctx = "live"
  /\ copying = {} /\ pipesClosed = FALSE /\ watcher = "off"
  /\ runErr = "nil" /\ result = NoResult

Command == Validate \/ StartFails \/ Start \/ WaitProcess \/ WaitWatcher \/ AwaitCopiers
           \/ WaitDelayExpires \/ DrainCopiers \/ Cleanup \/ Complete

World == ChildExits \/ ChildForks \/ DescendantEscapes \/ DescendantExits \/ WritesTooMuch
         \/ StreamCloses \/ CallerCancels

Next == Command \/ WatchKill \/ CopyEnds \/ DeadlinePasses \/ World

Spec == Init /\ [][Next]_vars

-----------------------------------------------------------------------------
(* Properties.                                                             *)

\* A command that succeeds exited with status 0 and its whole output was read: it
\* was not cut off by the context, by WaitDelay or, where that matters, by the limit.
SuccessIsComplete ==
  pc = "returned" /\ result.err = "nil" =>
    /\ child = "zero"
    /\ copying = {} /\ ~pipesClosed
    /\ RejectOverflow => ~overflow

\* No process of the child's group outlives a command that succeeds, and none
\* outlives any command without an error that says so (the final kill).
NoSilentSurvivors ==
  pc = "returned" => child # "running" /\ (groupAlive => runErr # "nil")

\* The captured output and the relay are read only after both copy goroutines have
\* ended, also when WaitDelay cut them off (no data race on the buffers).
BuffersAreQuiet == pc \in {"cleanup", "complete", "returned"} => copying = {}

-----------------------------------------------------------------------------
(* The inductive invariant.                                                *)

\* Before Start there is nothing to wait for or to kill.
NothingYet ==
  pc \in {"validate", "start"} =>
    child = "none" /\ ~groupAlive /\ copying = {} /\ ~pipesClosed /\ runErr = "nil"

\* Wait has reaped the child, and no error so far means that it exited with 0.
ChildReaped ==
  /\ pc = "wait" => runErr = "nil" /\ ~pipesClosed
  /\ pc \in {"watch", "await", "drain", "cleanup"} => Exited
  /\ pc \in {"watch", "await", "drain", "cleanup", "complete"} /\ runErr = "nil" => child = "zero"
  /\ pc = "complete" => child # "running"
  /\ pipesClosed => runErr # "nil"

\* Survivors and cut-off output leave an error behind.
FailureKept ==
  /\ pc \in {"complete", "returned"} /\ groupAlive => runErr # "nil"
  /\ pc = "returned" /\ result.err = "nil" => runErr = "nil"

\* The inductive invariant of the command boundary.
BoundaryInv ==
  /\ TypeOK
  /\ NothingYet
  /\ ChildReaped
  /\ FailureKept
  /\ SuccessIsComplete
  /\ NoSilentSurvivors
  /\ BuffersAreQuiet
=============================================================================
