---------------------------- MODULE SignedSource ----------------------------
(***************************************************************************)
(* From the trigger of a release to the verdict on its provenance: the     *)
(* source step, the selection on the checkout it chose, the record of the  *)
(* build, the Statement the signer makes of it, and the verification of    *)
(* the signed bundle.  Each part takes its inputs from the one before.     *)
(***************************************************************************)
EXTENDS PackageSelection, Attestation

CONSTANT Alterations  \* bound: how many things of a request for verification may be amiss

VARIABLES
  manager,    \* the manager that built, and what selected it
  facts,      \* the event, the caller's workflow file and the answers of the registry
  record,     \* the build metadata
  job,        \* what the sign job runs in
  statement,  \* the signed Statement
  request,    \* what a verifier is given
  amiss,      \* how much of it is not what it should be
  verdict     \* what the verifier said

recordVars == <<manager, facts, record, job, statement>>
verdictVars == <<request, amiss, verdict>>
releaseVars == <<sourceVars, vars, recordVars, verdictVars>>

Unset == [by |-> "nobody"]

ReleaseInit ==
  /\ Init /\ SourceInit
  /\ manager = Unset /\ facts = Unset /\ record = Unset /\ job = Unset /\ statement = Unset
  /\ request = Unset /\ amiss = 0 /\ verdict = Passed

-----------------------------------------------------------------------------
(* The build job.                                                          *)

SourceRefStep ==
  /\ ObserveSource \/ ResolveSourceRefTag \/ RefuseSourceRef
  /\ UNCHANGED <<vars, recordVars, verdictVars>>

\* Analyze, on the checkout of the built revision.
Analyze ==
  /\ stage = "selecting"
  /\ \/ ResolvePackage \/ ReadMetadata \/ RootFound \/ ReadField \/ SelectManager
     \/ ValidateLockfiles \/ InferFromLockfile \/ AnalyzeReturns
  /\ UNCHANGED <<sourceVars, recordVars, verdictVars>>

SelectionRefused ==
  /\ stage = "selecting" /\ pc = "rejected"
  /\ Refuse(failure)
  /\ UNCHANGED <<trigger, source, witnessed, vars, recordVars, verdictVars>>

CheckInput ==
  /\ pc = "analyzed" /\ CheckSourceRef
  /\ UNCHANGED <<vars, recordVars, verdictVars>>

CompareNpm ==
  /\ stage = "building"
  /\ CompareVersion \/ NothingToCompare
  /\ UNCHANGED <<sourceVars, recordVars, verdictVars>>

\* What built: the npm of the toolchain is a release, pnpm and Yarn are what was declared.
Builder ==
  [name    |-> selection.name,
   version |-> IF selection.name = "npm" THEN Origin ELSE fields[selection.source].version,
   source  |-> IF selection.source = 0 THEN "lockfile" ELSE "manifest"]

\* BuildPack returns; what it no longer needs goes out of scope.
BuildPackReturns ==
  /\ stage = "building" /\ pc = "compared"
  /\ manager' = Builder
  /\ \/ stage' = "built" /\ UNCHANGED refusal
     \/ Refuse("plain")
  /\ pc' = "packed"
  /\ fields' = [f \in Fields |-> Absent] /\ ignored' = {} /\ root' = Depth
  /\ selection' = [name |-> "other", source |-> 0]
  /\ declared' = <<>> /\ observed' = Origin /\ warned' = "no"
  /\ UNCHANGED <<trigger, source, witnessed, failure, metadata, candidate, rootRead, field, lockfiles,
                 facts, record, job, statement, verdictVars>>

\* A version is in the registry only if its package is.
Possible(f) == f.version = "present" => f.package = "present"

Finalize ==
  /\ stage = "built"
  /\ \E f \in [event : Events, caller : Callers, package : {"present", "absent"},
               version : {"present", "absent"}] :
       /\ Possible(f)
       /\ facts' = f
       /\ IF Finalizes(manager, f)
          THEN stage' = "recorded" /\ record' = Record(manager, f) /\ UNCHANGED refusal
          ELSE Refuse("plain") /\ UNCHANGED record
  /\ UNCHANGED <<trigger, source, witnessed, vars, manager, job, statement, verdictVars>>

-----------------------------------------------------------------------------
(* The sign job.                                                           *)

Statement ==
  [repository |-> "ours", record |-> record, run |-> "ours",
   builder |-> [path |-> "ours", sha |-> "ours"]]

Expectation == [claim \in Range(ClaimOrder) |-> InvocationClaims[claim]]

\* What a consumer of this release asks for: the source that was built.
Policy ==
  [repository |-> "ours", ref |-> source.ref, digest |-> source.revision, repositoryID |-> "ours",
   ownerID |-> "ours", workflowPath |-> "ours", workflowSHA |-> "ours"]

\* The bundle as it comes out of the sign job, the signer this invocation should have, and a
\* consumer's files.
Request(by, signed) ==
  [by |-> by, bundle |-> "ok", evidence |-> "ok", override |-> "none", root |-> "tuf",
   certificate |-> InvocationClaims, identity |-> Expectation, statement |-> signed,
   policyFile |-> "ok", identityFile |-> "ok", statementFile |-> "ok",
   policy |-> Policy, expected |-> signed]

\* Before the bundle leaves the job it is verified with the trust root that signed it.
Sign ==
  /\ stage = "recorded"
  /\ \E j \in [exchange : Exchanges, repository : Spellings, clock : Clocks, pin : Pins,
               sigstore : {"signs", "fails"}] :
       LET fault == SigningFault(record, source, j)
       IN /\ job' = j
          /\ IF fault = "none" /\ Verdict(Verify(Request("signer", Statement), Expectation, TRUE)) = Passed
             THEN stage' = "signed" /\ statement' = Statement /\ UNCHANGED refusal
             ELSE Refuse(fault) /\ UNCHANGED statement
  /\ UNCHANGED <<trigger, source, witnessed, vars, manager, facts, record, verdictVars>>

-----------------------------------------------------------------------------
(* Verification.                                                           *)

Signers == {"ours", "fork", "retagged", "other"}

\* The values of a part: those of another run or commit, and what cannot be a value.
Other(part) ==
  CASE part = "ref"    -> {source.ref, trigger.ref, Ref("branch", "none", "plain")}
    [] part = "digest" -> Revision
    [] part = "run"    -> {"ours", "other", "foreign"}
    [] part \in {"san", "signer"} -> Signers
    [] OTHER            -> {"ours", "other"}

Absence(part)   == IF part = "ref" THEN NoRef ELSE "missing"
Malformed(part) == IF part = "ref" THEN MalformedRef ELSE "malformed"

Altered(r, part, values) == {[r EXCEPT ![part] = v] : v \in values}

\* One claim is altered, or the certificate is one issued to another signer.
AlteredCertificates(c) ==
  UNION {Altered(c, f, Other(f) \cup {Absence(f)}) : f \in DOMAIN c}
  \cup {[c EXCEPT !.san = signer, !.signer = signer] : signer \in Signers}

AlteredIdentities(i) ==
  UNION {Altered(i, f, Other(f) \cup {Malformed(f)}) : f \in DOMAIN i}

\* A Statement of another run, repository or workflow.
AlteredStatements(s) ==
  Altered(s, "run", {"other", "foreign"}) \cup Altered(s, "repository", {"other"})
  \cup Altered(s, "builder", [path : {"ours", "other"}, sha : {"ours", "other"}])

\* The evidence in a bundle, and the trust roots of the online mode.
AlteredMaterial(r) ==
  Altered(r, "bundle", {"malformed", "duplicate"})
  \cup Altered(r, "evidence", {"no_rekor", "late", "no_sct", "bad_signature"})
  \cup Altered(r, "override", {"set"}) \cup Altered(r, "root", {"tuf_unreachable"})

\* The publish job expects the signer of its own invocation; the bundle may be its own or one
\* it found in the registry.
AlteredPublisherRequests(r) ==
  AlteredMaterial(r)
  \cup Altered(r, "certificate", AlteredCertificates(r.certificate))
  \cup Altered(r, "identity", UNION {Altered(r.identity, f, Other(f)) : f \in DOMAIN r.identity})
  \cup Altered(r, "statement", AlteredStatements(r.statement))

AlteredConsumerRequests(r) ==
  AlteredMaterial(r)
  \cup Altered(r, "certificate", AlteredCertificates(r.certificate))
  \cup Altered(r, "identity", AlteredIdentities(r.identity))
  \cup Altered(r, "policy", UNION {Altered(r.policy, f, Other(f)) : f \in DOMAIN r.policy})
  \cup Altered(r, "expected", AlteredStatements(r.expected))
  \cup Altered(r, "bundle", {"unavailable"})
  \cup Altered(r, "policyFile", {"unavailable", "malformed", "duplicate"})
  \cup Altered(r, "identityFile", {"unavailable", "malformed", "duplicate"})
  \cup Altered(r, "statementFile", {"unavailable", "malformed"})
  \cup Altered(r, "root", {"tuf_with_pinned", "pinned", "pinned_missing", "pinned_wrong", "pinned_stale"})

\* The publish job, or a consumer, has the bundle.
Present ==
  /\ stage = "signed"
  /\ stage' = "presented"
  /\ \E by \in {"publisher", "consumer"} : request' = Request(by, statement)
  /\ UNCHANGED <<trigger, source, witnessed, refusal, vars, recordVars, amiss, verdict>>

\* Something of it is not what this release made, or what this consumer should expect.
GoesAmiss ==
  /\ stage = "presented" /\ amiss < Alterations
  /\ request' \in (IF request.by = "publisher" THEN AlteredPublisherRequests(request)
                   ELSE AlteredConsumerRequests(request)) \ {request}
  /\ amiss' = amiss + 1
  /\ UNCHANGED <<sourceVars, vars, recordVars, verdict>>

Judge ==
  /\ stage = "presented"
  /\ stage' = "judged"
  /\ verdict' = Verdict(IF request.by = "publisher" THEN PublisherChecks(request)
                        ELSE ConsumerChecks(request))
  /\ UNCHANGED <<trigger, source, witnessed, refusal, vars, recordVars, request, amiss>>

ReleaseNext ==
  \/ SourceRefStep \/ Analyze \/ SelectionRefused \/ CheckInput \/ CompareNpm \/ BuildPackReturns
  \/ Finalize \/ Sign \/ Present \/ GoesAmiss \/ Judge

ReleaseSpec == ReleaseInit /\ [][ReleaseNext]_releaseVars

-----------------------------------------------------------------------------
(* Properties.                                                             *)

\* A Statement names as its source the tag of the version that the package has in the commit
\* it names, a tag GitHub or git showed at that very commit; that commit was checked out,
\* selected from and built; and the invocation it names is the one that took place, whatever
\* became of the tags in between.
SignedSourceWasTagged ==
  stage \in {"signed", "presented", "judged"} =>
    LET signed == statement.record.source
    IN /\ signed.ref = VersionTag(ManifestVersion[signed.revision])
       /\ At(signed.ref, signed.revision) \in witnessed
       /\ At(signed.ref, signed.revision) = source
       /\ SignedInvocation(signed) = At(trigger.ref, trigger.revision)

\* What the documents ask of a release before it is recorded.
Publishable ==
  /\ source.ref = VersionTag(PackageVersion)
  /\ facts.event \in {"push", "workflow_dispatch"} /\ facts.caller = "yml"
  /\ facts.package = "present" /\ facts.version = "absent"

\* No document gives these reasons, but the record refuses them: a manager selected by its
\* lockfile, and an explicit tag in a release started on a branch of an unusual name.
Unrecordable ==
  \/ manager.source = "lockfile"
  \/ trigger.input # Omitted /\ trigger.ref.form # "plain"

Signable ==
  /\ job.exchange = "accepted" /\ job.repository = "canonical" /\ job.clock # "beyond"
  /\ job.pin = "sha" /\ job.sigstore = "signs"

\* Every release that has built ends with a record and a Statement, or is refused for a reason
\* that holds: nothing the three jobs check apart from each other stops a release that
\* each of them should let through, and none lets through what another should have stopped.
RefusedForCause ==
  /\ pc = "analyzed" /\ stage = "refused" =>
       trigger.input \notin {Omitted, VersionTag(PackageVersion)}
  /\ facts # Unset /\ record = Unset => stage = "refused" /\ (~Publishable \/ Unrecordable)
  /\ record # Unset => Publishable /\ ~Unrecordable
  /\ job # Unset => (stage = "refused" <=> ~Signable)

\* The same without the exception for lockfiles: a manager that the lockfile selects, as the
\* documented matrix has it, does not stop a release that is publishable otherwise.
LockfileSelectionIsRecorded ==
  facts # Unset /\ stage = "refused" /\ manager.source = "lockfile" /\ trigger.ref.form = "plain"
    => ~Publishable

Files == {request.bundle, request.policyFile, request.identityFile, request.statementFile}

\* Evidence that binds the Statement to a certificate, under a trust root in force.
EvidenceHolds ==
  /\ request.bundle = "ok" /\ request.evidence = "ok" /\ request.override = "none"
  /\ request.root \in {"tuf", "pinned"}

\* The certificate is the one expected; a missing claim is no claim.
CertificateIs(identity) ==
  /\ request.certificate.san = identity.signer
  /\ \A claim \in DOMAIN identity : request.certificate[claim] = identity[claim]

\* The builder that the Statement names is the workflow the certificate was issued to.
BuilderSigned ==
  request.statement.builder
    = [path |-> WorkflowOf(request.certificate.signer), sha |-> request.certificate.workflowSHA]

\* The publish job takes a bundle as its release's exactly if the certificate was issued to this
\* repository's invocation of this workflow revision, in the very run the Statement names, and
\* the Statement names the same repository, invocation and builder.
PublisherVerdictIsRight ==
  stage = "judged" /\ request.by = "publisher" =>
    (verdict = Passed <=>
       /\ EvidenceHolds
       /\ validateIdentityExpectation([request.identity EXCEPT !.run = request.statement.run])
       /\ CertificateIs([request.identity EXCEPT !.run = request.statement.run])
       /\ request.statement.repository = request.certificate.repository
       /\ SignedInvocation(request.statement.record.source)
            = At(request.certificate.ref, request.certificate.digest)
       /\ BuilderSigned)

\* What a consumer asked for, met: the policy names the source that was built and the path of
\* the workflow that signed, and the certificate the invocation that built it.
PolicyMet ==
  LET signed == request.statement
  IN /\ At(request.policy.ref, request.policy.digest)
          = At(signed.record.source.ref, signed.record.source.revision)
     /\ At(request.certificate.ref, request.certificate.digest)
          = SignedInvocation(signed.record.source)
     /\ request.policy.repository = signed.repository
     /\ \A claim \in {"repository", "repositoryID", "ownerID", "workflowSHA"} :
          request.policy[claim] = request.certificate[claim]
     /\ request.policy.workflowPath = PathOf(request.certificate.signer)

\* What the command could not look at.
NotSeen ==
  "unavailable" \in Files \/ request.root \in {"pinned_missing", "tuf_with_pinned"}

\* What the documents ask besides, and the command does not look at: the run that the
\* Statement names is the one the certificate was issued to, and its builder the workflow.
SignedByItsRun ==
  request.statement.run = request.certificate.run /\ BuilderSigned

\* The consumer is told to trust a bundle only if it is the expected Statement, its evidence and
\* its signer hold and the policy is met.  Such a bundle is accepted if the Statement is also
\* that of its signer's run; nothing is asked of the command where it is not, which the documents
\* have refused and the command accepts.  The exit status is that of the diagnostic reported: 2
\* only if something could not be looked at, 1 only if something is wrong.
ConsumerVerdictIsRight ==
  stage = "judged" /\ request.by = "consumer" =>
    LET Right ==
          /\ Files \cap {"malformed", "duplicate"} = {}
          /\ EvidenceHolds /\ request.expected = request.statement
          /\ validateIdentityExpectation(request.identity) /\ CertificateIs(request.identity)
          /\ PolicyMet
    IN /\ verdict = Passed => Right /\ ~NotSeen
       /\ Right /\ SignedByItsRun /\ ~NotSeen => verdict = Passed
       /\ verdict.exit = Report(verdict.id).exit
       /\ verdict.exit = 2 => NotSeen
       /\ verdict.exit = 1 => ~(Right /\ SignedByItsRun)
=============================================================================
