-------------------------- MODULE DistributionFetch -------------------------
(***************************************************************************)
(* fetchHTTPS of internal/npmprofile/toolchain.go: one bounded download    *)
(* with three attempts under one two-minute deadline.  The provisioners    *)
(* and the distribution evidence use it one download at a time.            *)
(*                                                                         *)
(* A server may serve other bytes at every request, or a cut body that     *)
(* still reads without an error (a close-delimited response).              *)
(***************************************************************************)
EXTENDS Naturals

CONSTANTS
  Bodies,  \* what a request may be answered with, the oversize bodies apart
  Nothing  \* no value

ASSUME FetchAssumption == Nothing \notin Bodies

Attempts == 3

VARIABLES fetching, attempt, body, deadline

fetchVars == <<fetching, attempt, body, deadline>>

FetchTypeOK ==
  /\ fetching \in {"idle", "request", "backoff", "done", "failed"}
  /\ attempt \in 0 .. Attempts - 1
  /\ fetching = "backoff" => attempt < Attempts - 1
  /\ body \in Bodies \cup {Nothing}
  /\ deadline \in {"ahead", "passed"}

FetchInit == fetching = "idle" /\ attempt = 0 /\ body = Nothing /\ deadline = "ahead"

\* The caller enters fetchHTTPS.
StartFetch == fetching' = "request" /\ attempt' = 0 /\ body' = Nothing /\ deadline' = "ahead"

\* The caller takes the result.
TakeFetch == fetching' = "idle" /\ attempt' = 0 /\ body' = Nothing /\ deadline' = "ahead"

-----------------------------------------------------------------------------
\* A 200 response read to its end: returned, or refused when it is oversize
\* (the second disjunct).
Respond ==
  /\ fetching = "request" /\ deadline = "ahead"
  /\ \/ \E b \in Bodies : body' = b /\ fetching' = "done"
     \/ fetching' = "failed" /\ UNCHANGED body
  /\ UNCHANGED <<attempt, deadline>>

\* Any other status, a transport error, a read error: the error is remembered and
\* the request repeated after a pause, the last attempt apart.
RequestFails ==
  /\ fetching = "request"
  /\ fetching' = IF attempt = Attempts - 1 THEN "failed" ELSE "backoff"
  /\ UNCHANGED <<attempt, body, deadline>>

\* A proxy that cannot be resolved or carries credentials ends the download.
ProxyRefused ==
  /\ fetching = "request"
  /\ fetching' = "failed"
  /\ UNCHANGED <<attempt, body, deadline>>

\* The timer of the pause and the deadline race; both may be ready.
BackoffEnds ==
  /\ fetching = "backoff"
  /\ fetching' = "request" /\ attempt' = attempt + 1
  /\ UNCHANGED <<body, deadline>>

BackoffCut ==
  /\ fetching = "backoff" /\ deadline = "passed"
  /\ fetching' = "failed"
  /\ UNCHANGED <<attempt, body, deadline>>

\* Mutant: the deadline is watched in the pauses only.
ExpireInPause ==
  /\ fetching = "backoff" /\ deadline = "ahead"
  /\ deadline' = "passed"
  /\ UNCHANGED <<fetching, attempt, body>>

\* distributionTimeout passes.
Expire ==
  /\ fetching \in {"request", "backoff"} /\ deadline = "ahead"
  /\ deadline' = "passed"
  /\ UNCHANGED <<fetching, attempt, body>>

FetchStep == Respond \/ RequestFails \/ ProxyRefused \/ BackoffEnds \/ BackoffCut \/ Expire

\* Time passes, and a request under a passed deadline fails at once.
DeadlineBinds == Expire \/ (deadline = "passed" /\ RequestFails) \/ BackoffEnds
=============================================================================
