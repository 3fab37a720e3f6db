---------------------------- MODULE BuildRecord ----------------------------
(***************************************************************************)
(* What a build says of itself.  FinalizeWorkflowBuildMetadata records the *)
(* source, the package manager and the publish intent after the build has  *)
(* run; the signer checks the record again, in another job, and assembles  *)
(* the Statement from it.                                                  *)
(***************************************************************************)
EXTENDS SourceRef, NpmRange

-----------------------------------------------------------------------------
(* FinalizeWorkflowBuildMetadata: the parameters.                          *)

\* ref_type is that of the invocation, whatever the input.
SourceParameters ==
  IF trigger.input = Omitted
  THEN [ref |-> source.ref, revision |-> source.revision, type |-> trigger.ref.kind,
        input |-> Omitted, invocation |-> NoSource]
  ELSE [ref |-> trigger.input, revision |-> source.revision, type |-> "tag",
        input |-> trigger.input, invocation |-> At(trigger.ref, trigger.revision)]

workflowSourceParametersAccept ==
  /\ ValidateSourceRefInput(trigger.input, trigger.ref, PackageVersion)
  /\ trigger.input # Omitted => source.ref = trigger.input

\* The event and the caller's workflow file are what GitHub says they are; a reusable
\* workflow may be called by any event.
Events  == {"push", "workflow_dispatch", "schedule"}
Callers == {"yml", "yaml"}

\* Mutant: any version tag will do.
validateWorkflowRuntimeAnyTag(parameters, event) ==
  event \in {"push", "workflow_dispatch"} /\ parameters.type = "tag"

validateWorkflowRuntime(parameters, event) ==
  /\ event \in {"push", "workflow_dispatch"}
  /\ parameters.type = "tag" /\ parameters.ref = VersionTag(PackageVersion)

\* filepath.Base gives "." for the manifest path a lockfile selection does not have.  The
\* lockfile path is set by no selection but that from a lockfile.
ManagerParameters(manager) ==
  [name     |-> manager.name,
   version  |-> manager.version,
   selected |-> manager.source,
   manifest |-> IF manager.source = "lockfile" THEN "." ELSE "package.json",
   path     |-> IF manager.source = "lockfile" THEN "none" ELSE "package.json",
   lockfile |-> IF manager.source = "lockfile" THEN "set" ELSE "none",
   mode     |-> IF manager.name = "yarn" THEN "immutable" ELSE "none"]

\* What preflight found in the registry, and the event and workflow file of the caller.
Record(manager, facts) ==
  [source  |-> SourceParameters,
   package |-> PackageVersion,
   manager |-> ManagerParameters(manager),
   publish |-> [package |-> facts.package, version |-> facts.version],
   release |-> source.ref,
   caller  |-> facts.caller]

-----------------------------------------------------------------------------
(* validateExternalParameters, of the build and of everybody after it.     *)

validateSourceParameters(parameters, package) ==
  \/ parameters.input = Omitted /\ parameters.invocation = NoSource
  \/ /\ parameters.input # Omitted /\ parameters.invocation # NoSource
     /\ parameters.input = parameters.ref
     /\ ValidateSourceRefInput(parameters.input, parameters.invocation.ref, package)
     /\ validFullGitRef(parameters.invocation.ref)

selectionShape(manager) ==
  IF manager.selected = "lockfile"
  THEN manager.manifest = "none" /\ manager.path = "none" /\ manager.lockfile # "none"
  ELSE manager.manifest # "none" /\ manager.path # "none" /\ manager.lockfile = "none"

\* Mutant: the exact version has to be a release.
validatePackageManagerParametersReleased(manager) ==
  /\ manager.name \in {"npm", "pnpm", "yarn"}
  /\ manager.version.pre = 0
  /\ selectionShape(manager)
  /\ IF manager.name = "yarn"
     THEN /\ manager.selected = "manifest"
          /\ manager.version.major \in {4, 5}
          /\ manager.mode = "immutable"
     ELSE manager.mode = "none"

validatePackageManagerParameters(manager) ==
  /\ manager.name \in {"npm", "pnpm", "yarn"}
  /\ ~Less(manager.version, Origin)
  /\ selectionShape(manager)
  /\ IF manager.name = "yarn"
     THEN /\ manager.selected = "manifest"
          /\ ~Less(manager.version, Release(4, 0, 0)) /\ manager.version.major < 6
          /\ manager.mode = "immutable"
     ELSE manager.mode = "none"

validatePublishParameters(publish) == publish.package = "present" /\ publish.version = "absent"

validateExternalParameters(parameters) ==
  /\ validateSourceParameters(parameters.source, parameters.package)
  /\ parameters.source.type = "tag"
  /\ validatePackageManagerParameters(parameters.manager)
  /\ validatePublishParameters(parameters.publish)
  /\ parameters.caller = "yml"

-----------------------------------------------------------------------------
(* The resolved dependencies.                                              *)

Dependency(name, at, selected, path) ==
  [name |-> name, revision |-> at, selected |-> selected, path |-> path]

\* The lockfile descriptor copies its annotations from the selection.
workflowResolvedDependencies(manager) ==
  LET lockfile == Dependency("lockfile", source.revision, ManagerParameters(manager).selected,
                             ManagerParameters(manager).path)
      other(name) == Dependency(name, "none", "none", "none")
  IN IF manager.name = "npm"
     THEN <<lockfile, other("node-runtime"), other("runner-image")>>
     ELSE <<lockfile, other("node-runtime"), other("package-manager-distribution"), other("runner-image")>>

Named(dependencies, name) == {i \in DOMAIN dependencies : dependencies[i].name = name}

validateResolvedDependencies(dependencies, parameters) ==
  /\ \A name \in {"lockfile", "runner-image", "node-runtime"} : Cardinality(Named(dependencies, name)) = 1
  /\ Cardinality(Named(dependencies, "package-manager-distribution"))
       = IF parameters.manager.name = "npm" THEN 0 ELSE 1
  /\ \A i \in Named(dependencies, "lockfile") :
       /\ dependencies[i].revision = parameters.source.revision
       /\ dependencies[i].selected = parameters.manager.selected
       /\ dependencies[i].path = parameters.manager.path

\* Every failure of the finalization is an error without a diagnostic.
Finalizes(manager, facts) ==
  LET record == Record(manager, facts)
  IN /\ workflowSourceParametersAccept
     /\ validateWorkflowRuntime(record.source, facts.event)
     /\ validateExternalParameters(record)
     /\ validateResolvedDependencies(workflowResolvedDependencies(manager), record)

-----------------------------------------------------------------------------
(* NewProvenanceSigningInput.                                              *)

\* The signer is given the built ref and revision the source step put out.
ValidateReleaseRefEquality(record, runtime) ==
  /\ \A ref \in {record.source.ref, record.release, runtime.ref} : ValidateReleaseRef(ref)
  /\ record.source.ref = record.release /\ record.source.ref = runtime.ref
  /\ record.source.revision = runtime.revision

\* How the clock of the runner moved between the start and the end of the build: forward,
\* backward by at most five seconds, or further.
Clocks == {"forward", "within", "beyond"}

\* GITHUB_REPOSITORY keeps the case its owner gave it, the record has the canonical spelling;
\* and the caller may name the workflow by a tag.
Spellings == {"canonical", "mixed"}
Pins == {"sha", "tag"}

\* What the early exchange of the job's OIDC identity with npm comes to (OIDCClient.Preflight).
Exchanges ==
  {"accepted", "oidc-capability-unavailable", "trusted-publisher-mismatch",
   "npm-oidc-exchange-indeterminate"}

\* The first check that fails names the diagnostic of the refusal.  The signer's own token is
\* looked at last, and what Fulcio and Rekor answer makes an error without a diagnostic.
SigningFault(record, runtime, job) ==
  IF ~validateExternalParameters(record) THEN "plain"
  ELSE IF job.exchange # "accepted" THEN job.exchange
  ELSE IF ~ValidateReleaseRefEquality(record, runtime) THEN "release-ref-mismatch"
  ELSE IF job.repository # "canonical" THEN "run-invocation-uri-invalid"
  ELSE IF job.clock = "beyond" THEN "timestamp-ordering-invalid"
  ELSE IF job.pin # "sha" \/ job.sigstore = "fails" THEN "plain"
  ELSE "none"
=============================================================================
