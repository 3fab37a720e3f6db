---------------------------- MODULE RemoteClient ----------------------------
(***************************************************************************)
(* The HTTP reads that precede and follow a publication: RegistryClient    *)
(* (Preflight, Attestations) and OIDCClient (AcquireIdentity, Exchange)    *)
(* over performBoundedRequest, which retries within one deadline.  What    *)
(* the remote side knows may change while a call runs, and its answers may *)
(* be lost, cut off, malformed, oversized or errors of its own.            *)
(***************************************************************************)
EXTENDS Naturals

CONSTANT Retries   \* remoteRequestRetries

ASSUME RetriesAssumption == Retries \in Nat \ {0}

Ops == {"packument", "attestations", "identity", "exchange"}

\* What is true remotely, for each request.
Truths(op) ==
  CASE op = "packument"    -> {"absent", "no-version", "present"}
    [] op = "attestations" -> {"none", "some"}
    [] op = "identity"     -> {"no-grant", "ours", "foreign"}
    [] op = "exchange"     -> {"denied", "authorised"}

VARIABLES
  phase,     \* where the call is
  op,        \* the request it is making
  attempt,   \* attempt of performBoundedRequest
  expired,   \* has the request context reached its deadline?
  answer,    \* the last complete answer
  conclusion, \* what the caller is told
  truth,     \* what is true remotely now
  seen       \* ... and what was at some time since the request was begun

callVars == <<op, attempt, expired, answer, conclusion>>
clientVars == <<phase, callVars, truth, seen>>

Statuses == {"ok", "unauthorized", "not-found", "throttled", "server-error", "other"}
AllTruths == {"absent", "no-version", "present", "none", "some", "no-grant", "ours", "foreign",
              "denied", "authorised"}
Bodies   == AllTruths \cup {"malformed"}
NoAnswer == [status |-> "other", body |-> "malformed"]

\* "ok" is 201 for the exchange and 200 for the others.
Answers == [status : Statuses, body : Bodies]

Conclusions == AllTruths \cup {"pending", "error", "unavailable", "mismatch", "indeterminate"}

\* The request of performBoundedRequest, its attempts and its conclusion keep their types.
CallTypeOK ==
  /\ phase \in {"call", "send", "flight", "backoff", "classify", "done"}
  /\ op \in Ops
  /\ attempt \in 0 .. Retries - 1
  /\ answer \in Answers
  /\ conclusion \in Conclusions
  /\ truth \in [Ops -> AllTruths]
  /\ seen \subseteq AllTruths

-----------------------------------------------------------------------------
(* The remote side (external).                                             *)

HonestAnswers ==
  CASE truth[op] \in {"absent", "none"} -> {[status |-> "not-found", body |-> "malformed"]}
    [] truth[op] = "denied" -> [status : {"unauthorized", "not-found"}, body : {"malformed"}]
    [] OTHER -> {[status |-> "ok", body |-> truth[op]]}

FaultyAnswers ==
  [status : {"throttled", "server-error", "other", "ok"}, body : {"malformed"}]

\* A package or an attestation appears, a trusted publisher is configured or removed.
Succession == [absent |-> {"no-version", "present"}, none |-> {"some"},
               denied |-> {"authorised"}, authorised |-> {"denied"}]
Successors(value) ==
  IF value = "no-version" THEN {"present"}
  ELSE IF value \in DOMAIN Succession THEN Succession[value] ELSE {}

WorldChanges ==
  /\ phase # "done"
  /\ \E o \in Ops : \E next \in Successors(truth[o]) :
       /\ truth' = [truth EXCEPT ![o] = next]
       /\ seen' = IF o = op THEN seen \cup {next} ELSE seen
  /\ UNCHANGED <<phase, callVars>>

-----------------------------------------------------------------------------
(* performBoundedRequest                                                   *)

LastAttempt == attempt = Retries - 1

\* The call fails without an answer: what each caller makes of an error.
Failure(o) ==
  CASE o \in {"packument", "attestations"} -> "error"
    [] o = "identity" -> "unavailable"
    [] o = "exchange" -> "indeterminate"

GiveUp ==
  /\ conclusion' = Failure(op)
  /\ phase' = "done"
  /\ UNCHANGED <<op, attempt, expired, answer, truth, seen>>

\* AcquireIdentity asks nobody without the request token of `id-token: write`.
Begin ==
  /\ phase = "call"
  /\ op = "identity" => truth[op] # "no-grant"
  /\ phase' = "send"
  /\ UNCHANGED <<callVars, truth, seen>>

BeginWithoutGrant ==
  /\ phase = "call"
  /\ op = "identity" /\ truth[op] = "no-grant"
  /\ GiveUp

\* The request is sent; under a context that has ended it fails at once.
Send ==
  /\ phase = "send"
  /\ phase' = "flight"
  /\ UNCHANGED <<callVars, truth, seen>>

\* A proxy with credentials, or an answer over the size limit: no retry.
Refused ==
  /\ phase \in {"send", "flight"}
  /\ GiveUp

\* No answer, or one whose body could not be read.
AttemptFails ==
  /\ phase = "flight"
  /\ IF LastAttempt THEN GiveUp
     ELSE phase' = "backoff" /\ UNCHANGED <<callVars, truth, seen>>

retryableHTTPStatus(status) == status \in {"throttled", "server-error"}

Receive ==
  /\ phase = "flight" /\ ~expired
  /\ \E a \in HonestAnswers \cup FaultyAnswers :
       /\ answer' = a
       /\ phase' = IF retryableHTTPStatus(a.status) /\ ~LastAttempt THEN "backoff" ELSE "classify"
  /\ UNCHANGED <<op, attempt, expired, conclusion, truth, seen>>

\* The delay before the next attempt has passed.
Delay ==
  /\ phase = "backoff"
  /\ attempt' = attempt + 1
  /\ phase' = "send"
  /\ UNCHANGED <<op, expired, answer, conclusion, truth, seen>>

\* The deadline came first.
DelayCut ==
  /\ phase = "backoff" /\ expired
  /\ GiveUp

-----------------------------------------------------------------------------
(* What the callers conclude.                                              *)

\* Mutant: every refusal of the exchange is a mismatch.
ConcludeEagerly(o, a) ==
  CASE o = "packument" /\ a.status = "not-found" -> "absent"
    [] o = "attestations" /\ a.status = "not-found" -> "none"
    [] o \in {"packument", "attestations"} /\ a.status = "ok" /\ a.body # "malformed" -> a.body
    [] o = "identity" /\ a.status = "ok" -> IF a.body = "ours" THEN "ours" ELSE "mismatch"
    [] o = "exchange" /\ a.status = "ok" /\ a.body # "malformed" -> a.body
    [] o = "exchange" /\ a.status # "ok" -> "mismatch"
    [] OTHER -> Failure(o)

\* Preflight, Attestations, AcquireIdentity and Exchange after an answer, with the
\* strict decoding of its body.
Conclude(o, a) ==
  CASE o = "packument" /\ a.status = "not-found" -> "absent"
    [] o = "attestations" /\ a.status = "not-found" -> "none"
    [] o \in {"packument", "attestations"} /\ a.status = "ok" /\ a.body # "malformed" -> a.body
    [] o = "identity" /\ a.status = "ok" -> IF a.body = "ours" THEN "ours" ELSE "mismatch"
    [] o = "exchange" /\ a.status = "ok" /\ a.body # "malformed" -> a.body
    [] o = "exchange" /\ a.status \in {"unauthorized", "not-found"} -> "mismatch"
    [] OTHER -> Failure(o)

Classify ==
  /\ phase = "classify"
  /\ ~(op = "identity" /\ Conclude(op, answer) = "ours")
  /\ conclusion' = Conclude(op, answer)
  /\ phase' = "done"
  /\ UNCHANGED <<op, attempt, expired, answer, truth, seen>>

\* OIDCClient.Preflight goes on with the exchange, under a deadline of its own.
ThenExchange ==
  /\ phase = "classify"
  /\ op = "identity" /\ Conclude(op, answer) = "ours"
  /\ op' = "exchange"
  /\ attempt' = 0 /\ expired' = FALSE /\ answer' = NoAnswer
  /\ seen' = {truth["exchange"]}
  /\ phase' = "send"
  /\ UNCHANGED <<conclusion, truth>>

\* remoteRequestTimeout passes.
RequestExpires ==
  /\ phase \in {"send", "flight", "backoff"} /\ ~expired
  /\ expired' = TRUE
  /\ UNCHANGED <<phase, op, attempt, answer, conclusion, truth, seen>>

-----------------------------------------------------------------------------
CallInit ==
  /\ phase = "call"
  /\ op \in {"packument", "attestations", "identity"}
  /\ attempt = 0 /\ expired = FALSE
  /\ answer = NoAnswer /\ conclusion = "pending"
  /\ truth \in {t \in [Ops -> AllTruths] : \A o \in Ops : t[o] \in Truths(o)}
  /\ seen = {truth[op]}

\* What the client does by itself; an attempt in flight ends for certain once its
\* context has.
Client ==
  \/ Begin \/ BeginWithoutGrant \/ Send \/ Delay \/ DelayCut \/ Classify \/ ThenExchange
  \/ (expired /\ AttemptFails)

CallNext ==
  \/ Begin \/ BeginWithoutGrant \/ Send \/ Delay \/ DelayCut \/ Classify \/ ThenExchange
  \/ AttemptFails \/ Refused \/ Receive \/ WorldChanges \/ RequestExpires

CallSpec == CallInit /\ [][CallNext]_clientVars

-----------------------------------------------------------------------------
(* Properties.                                                             *)

\* The truths a conclusion stands for: npm refuses this caller workflow, or the identity
\* GitHub gives is that of another.
Means(o, told) ==
  IF told # "mismatch" THEN {told}
  ELSE IF o = "exchange" THEN {"denied"} ELSE {"foreign"}

Determinate == {"absent", "no-version", "present", "none", "some", "authorised", "mismatch"}

\* A 200 of the identity endpoint out of which no identity can be decoded.
Unreadable(o, a) == o = "identity" /\ a = [status |-> "ok", body |-> "malformed"]

\* What there is to say so: it was true, or there was no identity to be had.
Grounded(told) ==
  \/ \E t \in Means(op, told) : t \in seen
  \/ told = "mismatch" /\ Unreadable(op, answer)

\* A determinate conclusion was true at some time while the request was made: lost, cut and
\* oversized answers, throttling and server errors of any endpoint, and malformed answers of
\* npm, never become "no such version", "no attestations" or "trusted publisher mismatch".  One
\* conclusion has another ground: AcquireIdentity reports a mismatch also of a 200 that it
\* cannot decode, for the documents count an unavailable caller workflow as a mismatch.
ConclusionWasTrue ==
  conclusion \in Determinate => Grounded(conclusion)

-----------------------------------------------------------------------------
(* The inductive invariant.                                                *)

\* What is true now was true at some time of the request.
TruthSeen ==
  /\ \A o \in Ops : truth[o] \in Truths(o)
  /\ truth[op] \in seen

\* An answer that is about to be classified supports its conclusion.
AnswerSupports ==
  phase = "classify" /\ Conclude(op, answer) \in Determinate => Grounded(Conclude(op, answer))

\* GitHub is asked for an identity only by a job that may have one.
Granted ==
  op = "identity" /\ phase \notin {"call", "done"} => truth[op] # "no-grant"

\* The inductive invariant of a call.
ClientInv ==
  /\ CallTypeOK
  /\ TruthSeen
  /\ Granted
  /\ AnswerSupports
  /\ phase = "backoff" => attempt < Retries - 1
  /\ phase # "done" => conclusion = "pending"
  /\ ConclusionWasTrue
=============================================================================
