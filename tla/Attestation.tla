---------------------------- MODULE Attestation ----------------------------
(***************************************************************************)
(* The verification of a signed Statement: that of attestation.Verify, by  *)
(* the publish job of a bundle it means to publish or to adopt, and by the *)
(* verify-attestation command of a consumer who brings a policy and an     *)
(* expectation of the signer.  What sigstore-go and the trust root say is  *)
(* part of the request.                                                    *)
(***************************************************************************)
EXTENDS Diagnostics, BuildRecord, FiniteSetsExt

\* The claims of a certificate in the order verifyIdentity reads them, and the mismatch each
\* one means.  The ref and the digest are a ref and a commit; every other claim is that of the
\* run that signed ("ours"), that of something else, or not there.  A signer, in the SAN and in
\* the claim, is a workflow at a ref: "fork" is the path of ours in another repository,
\* "retagged" ours at another ref, "other" has another path.
ClaimOrder ==
  <<"issuer", "signer", "workflowSHA", "runner", "repository", "digest", "ref",
    "repositoryID", "ownerID", "run">>

Mismatch ==
  [issuer |-> "issuer-mismatch", signer |-> "signer-workflow-path-mismatch",
   workflowSHA |-> "signer-workflow-sha-mismatch", runner |-> "self-hosted-runner",
   repository |-> "source-identity-mismatch", digest |-> "source-digest-mismatch",
   ref |-> "source-ref-mismatch", repositoryID |-> "source-numeric-id-mismatch",
   ownerID |-> "source-numeric-id-mismatch", run |-> "run-invocation-uri-invalid"]

\* The URI of a signer up to its "@", which is how a builder is named.
WorkflowOf(signer) == IF signer = "retagged" THEN "ours" ELSE signer

\* What a policy holds of a signer: the path within the repository.  A malformed signer is one
\* that has ours in it.
PathOf(signer) == IF signer \in {"other", "missing"} THEN signer ELSE "ours"

NoRef == Ref("missing", "none", "plain")
Missing(value) == value = "missing"
ClaimMissing(certificate, claim) ==
  IF claim = "ref" THEN certificate.ref = NoRef ELSE Missing(certificate[claim])

\* What GitHub and Fulcio vouch for in the signing job: the invocation, not the source built.
InvocationClaims ==
  [san |-> "ours", issuer |-> "ours", signer |-> "ours", workflowSHA |-> "ours", runner |-> "ours",
   repository |-> "ours", digest |-> trigger.revision, ref |-> trigger.ref,
   repositoryID |-> "ours", ownerID |-> "ours", run |-> "ours"]

-----------------------------------------------------------------------------
(* Checks in the order the code makes them; the first that fails decides.  *)

\* A check that fails ends the command with the exit status given with it.
Check(ok, id, exit) == [ok |-> ok, id |-> id, exit |-> exit]
Passed == [id |-> "accepted", exit |-> 0]

Verdict(checks) ==
  LET failed == {i \in DOMAIN checks : ~checks[i].ok}
      first  == checks[Min(failed)]
  IN IF failed = {} THEN Passed ELSE [id |-> first.id, exit |-> first.exit]

\* emitTypedVerificationFailure takes the exit status of a verification error from the registry.
Typed(ok, id) == Check(ok, id, ExitCode(id))

\* A run is one of our repository, or ("foreign") of another.
ParseRunInvocationURI(run, repository) ==
  /\ run # "malformed"
  /\ repository = IF run = "foreign" THEN "other" ELSE "ours"

MalformedRef == Ref("malformed", "none", "plain")

validateIdentityExpectation(identity) ==
  /\ identity.issuer = "ours" /\ identity.runner = "ours"
  /\ identity.ref # MalformedRef
  /\ \A claim \in DOMAIN identity \ {"ref"} : identity[claim] # "malformed"
  /\ ParseRunInvocationURI(identity.run, identity.repository)

ParseBundle(file) ==
  <<Typed(file # "duplicate", "duplicate-json-member"),
    Typed(file # "malformed", "signature-invalid")>>

acquireTrustedMaterial(root) ==
  <<Typed(root \notin {"tuf_unreachable", "pinned_wrong"}, "ungoverned-trust-root"),
    Typed(root # "pinned_stale", "stale-pinned-trust-root")>>

\* What sigstore-go makes of the bundle, as classifyVerificationError reads its errors.
Evidence(evidence, certificate, identity) ==
  <<Typed(evidence # "no_rekor", "missing-rekor-entry"),
    Typed(evidence # "late", "signature-time-violation"),
    Typed(evidence # "no_sct", "missing-sct"),
    Typed(evidence # "bad_signature", "signature-mismatch"),
    Typed(certificate.san = identity.signer /\ certificate.issuer = identity.issuer,
          "signer-identity-untrusted")>>

verifyIdentity(certificate, identity) ==
  <<Typed(certificate.san = identity.signer, Mismatch.signer)>>
  \o [i \in DOMAIN ClaimOrder |->
     LET claim == ClaimOrder[i]
     IN Typed(certificate[claim] = identity[claim],
              IF ClaimMissing(certificate, claim) THEN "signer-identity-claim-missing"
              ELSE Mismatch[claim])]

\* attestation.Verify.
Verify(request, identity, sameStatement) ==
  <<Typed(validateIdentityExpectation(identity), "policy-schema-invalid")>>
  \o ParseBundle(request.bundle)
  \o <<Typed(request.override = "none", "legacy-trust-root-override")>>
  \o acquireTrustedMaterial(request.root)
  \o Evidence(request.evidence, request.certificate, identity)
  \o verifyIdentity(request.certificate, identity)
  \o <<Typed(sameStatement, "statement-assembly-mismatch")>>

-----------------------------------------------------------------------------
(* The publish job.                                                        *)

\* What the Statement says the workflow was invoked on.
SignedInvocation(parameters) ==
  IF parameters.invocation = NoSource THEN At(parameters.ref, parameters.revision)
  ELSE parameters.invocation

\* Mutant: the signer is expected to have run on the source that was built.
identityForStatementBuilt(statement, config) ==
  <<Typed(statement.repository = config.repository, "source-identity-mismatch"),
    Typed(statement.record.source.ref = config.ref, "source-ref-mismatch"),
    Typed(statement.record.source.revision = config.digest, "source-digest-mismatch"),
    Typed(ParseRunInvocationURI(statement.run, config.repository), "run-invocation-uri-invalid")>>

identityForStatement(statement, config) ==
  <<Typed(statement.repository = config.repository, "source-identity-mismatch"),
    Typed(SignedInvocation(statement.record.source).ref = config.ref, "source-ref-mismatch"),
    Typed(SignedInvocation(statement.record.source).revision = config.digest, "source-digest-mismatch"),
    Typed(ParseRunInvocationURI(statement.run, config.repository), "run-invocation-uri-invalid")>>

validateStatement(statement, config) ==
  <<Check(statement.builder = [path |-> WorkflowOf(config.signer), sha |-> config.workflowSHA],
          "plain", 1)>>

\* The signer is expected to have run in the invocation the Statement names.
PublisherChecks(request) ==
  LET statement == request.statement
      identity == [request.identity EXCEPT !.run = statement.run]
  IN ParseBundle(request.bundle)
     \o <<Check(validateExternalParameters(statement.record), "plain", 1)>>
     \o identityForStatement(statement, request.identity)
     \o Verify(request, identity, TRUE)
     \o validateStatement(statement, request.identity)

-----------------------------------------------------------------------------
(* The verify-attestation command.                                         *)

Unavailable(ok) == Check(ok, "input-unavailable", 2)

DecodeExplicitPolicy(file) ==
  <<Typed(file # "duplicate", "duplicate-json-member"),
    Typed(file # "malformed", "policy-schema-invalid")>>

DecodeIdentity(file) ==
  <<Check(file # "duplicate", "duplicate-json-member", 1),
    Check(file # "malformed", "policy-schema-invalid", 1)>>

\* Mutant: the numeric ids of the policy, which a renamed repository keeps, are not looked at.
bindIdentityPolicyByName(parameters, policy, identity) ==
  <<Check(parameters.repository = policy.repository, "source-identity-mismatch", 1),
    Check(parameters.source.ref = policy.ref, "source-ref-mismatch", 1),
    Check(parameters.source.revision = policy.digest, "source-digest-mismatch", 1),
    Check(identity.repository = policy.repository /\ identity.workflowSHA = policy.workflowSHA,
          "policy-schema-invalid", 1),
    Check(PathOf(identity.signer) = policy.workflowPath, "policy-schema-invalid", 1),
    Check(identity.ref = SignedInvocation(parameters.source).ref, "source-ref-mismatch", 1),
    Check(identity.digest = SignedInvocation(parameters.source).revision, "source-digest-mismatch", 1)>>

\* The policy is about the source that was built, the identity about the invocation.  Of the
\* signer it has the path only, which is looked for in the URI.
bindIdentityPolicy(parameters, policy, identity) ==
  <<Check(parameters.repository = policy.repository, "source-identity-mismatch", 1),
    Check(parameters.source.ref = policy.ref, "source-ref-mismatch", 1),
    Check(parameters.source.revision = policy.digest, "source-digest-mismatch", 1),
    Check(/\ identity.repository = policy.repository
          /\ identity.workflowSHA = policy.workflowSHA
          /\ identity.runner = "ours", "policy-schema-invalid", 1),
    Check(identity.repositoryID = policy.repositoryID /\ identity.ownerID = policy.ownerID,
          "source-numeric-id-mismatch", 1),
    Check(PathOf(identity.signer) = policy.workflowPath, "policy-schema-invalid", 1),
    Check(identity.ref = SignedInvocation(parameters.source).ref, "source-ref-mismatch", 1),
    Check(identity.digest = SignedInvocation(parameters.source).revision, "source-digest-mismatch", 1)>>

PinnedRoot(root) ==
  <<Unavailable(root # "pinned_missing"),
    Check(root # "tuf_with_pinned", "verification-mode-invalid", 2)>>

ConsumerChecks(request) ==
  LET expected == [repository |-> request.expected.repository, source |-> request.expected.record.source]
  IN <<Unavailable(request.bundle # "unavailable"), Unavailable(request.policyFile # "unavailable")>>
     \o DecodeExplicitPolicy(request.policyFile)
     \o <<Unavailable(request.identityFile # "unavailable")>>
     \o DecodeIdentity(request.identityFile)
     \o <<Unavailable(request.statementFile # "unavailable"),
          Check(request.statementFile # "malformed", "statement-assembly-mismatch", 1)>>
     \o bindIdentityPolicy(expected, request.policy, request.identity)
     \o PinnedRoot(request.root)
     \o Verify(request, request.identity, request.expected = request.statement)
=============================================================================
