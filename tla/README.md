# A formal model of slsa-builder's npm release profile

slsa-builder is a reusable GitHub Actions workflow and the command line tool behind it. A
caller's run builds one npm package, signs SLSA provenance for it and publishes both to the npm
registry. This directory holds TLA+ modules of the parts of it that are hard to test, the TLC
configurations that check them on small instances, and proofs that TLAPS checks for every value
of the constants. Every definition that models code has its source lines in `PROJECT.json`
(`map`); that file also lists every run, the mutants that each property is known to detect, the
hazards the properties are for, and the main theorems.

## 1. Inventory of the system

### Jobs, commands and how they interact

The workflow `.github/workflows/js-ts-npm-package-slsa3.yml` has three jobs. Each runs commands
of `cmd/slsa-builder-internal`, one process each, one after another:

| job | commands | reads | writes |
| --- | --- | --- | --- |
| build | npm-profile-source-ref, -provision-node, -toolchain-assert, -build (which selects the package as npm-profile-select does) | the checkout, nodejs.org, npm or Yarn registries | tarball and build metadata as workflow artifacts, their digests as job outputs |
| provenance-sign | npm-profile-provision-node, -toolchain-assert, -sign | the two artifacts, the digests | the Sigstore bundle as an artifact, its digest as a job output |
| publish | npm-profile-provision-node, -toolchain-assert, -provision-npm, -publish, -report | tarball, bundle, digests, the registry, the OIDC endpoint | the registry; an outcome report, uploaded by an `always()` step |

Within a command there is little concurrency. It is found in `exec_boundary.go` (a child process,
two copy goroutines, the context watcher). The other concurrency is between processes and
machines: workflow runs that share a concurrency group or race for a version, other publishers,
a registry whose reads lag behind its writes, processes that a build script leaves behind, and a
runner that disappears. `main` uses `context.Background()` and installs no signal handler, so a
command ends by returning, by a deadline of its own, or by being killed.

### Components

| component | state it keeps | operations | what is hard | when it is correct |
| --- | --- | --- | --- | --- |
| publish state machine (`publish.go`, `publish_verifier.go`) | the observations of one classification, the deadline, what npm said | Publish, classify, observe, decide, runNPM | two reads that are no snapshot, lag, lost responses, rejected publishes, re-runs | claims only its own publication, never publishes twice, never denies a write that happened, ends |
| release workflow | job statuses, artifacts, outputs, concurrency queues | the three jobs, cancellation, re-run of all or of failed jobs | `needs`, `always()`, names that carry the attempt, groups | reports are true, mutations of one ref do not overlap, runs complete |
| artifact chain (`build_pack.go`, `packed.go`, `handoff`, `signing`, build, sign and publish commands) | tarball, metadata, statement, bundle, digests | build, pack, inspect, record, verify, sign, publish | files re-read after they were checked, scripts, storage | what was inspected is what is signed and published |
| atomic output files (`command/io.go`) | target, temporary file, what the disk holds | WriteFileAtomic | failing calls, kills, power loss | readers see whole files; success is durable |
| outcome report (publish, report and provisioning commands) | the report file, step outputs, the log | the steps of the publish job | a second writer, partial failures | the uploaded report is honest and keeps the diagnosis |
| command boundary (`exec_boundary.go`) | child, group, pipes, buffers, context | runCommandAtBoundary | the race of exit, deadline, goroutines and WaitDelay | success is complete and leaves nobody behind; it returns |
| stderr relay (`exec_boundary_relay.go`) | pending bytes, payload and its counters | Write, emit | secrets split over writes, bounds | as redacting the whole stream; bounded; no runner commands |
| remote clients (`http_client.go`, `registry_client.go`, `oidc_client.go`) | attempt, deadline, last answer | Preflight, Attestations, AcquireIdentity, Exchange | retries, cut answers, a changing world | conclusions were true; it returns |
| toolchain provisioning (`provision_*.go`, `toolchain_assert.go`) | private directory, path, launcher, outputs | provision-node, provision-npm, assertion | failures half-way, a node of the runner's own | only the pinned toolchain runs |
| build toolchain (`toolchain.go`, `declared_digest.go`) | evidence of the package manager | Corepack, metadata, comparison, rebind | a second download of what already ran | the evidence is about the bytes that ran |
| package selection (`selection.go`, `workspace.go`, `descriptor.go`, `semver_range.go`) | what was read of the manifests | Analyze, npmDeclaredVersionWarning | nearest root, precedence, boundaries of ranges | the documented decision matrix |
| source reference (`source_ref.go`) | the built ref and commit | resolve and peel a tag, observe the invocation, check again with the version | tags that move between two looks | what is signed was tagged, seen and built |
| provenance validation (`workflow_metadata.go`, `provenance_validate.go`, `provenance_input.go`) | the record of the build | finalize, validate in three jobs, assemble the Statement | rules of several jobs that must agree | refuses exactly what must not be released |
| attestation verification (`attestation`, `identity`, `publish_verifier.go`, `verify_attestation.go`) | nothing | Verify, identityForStatement, bindIdentityPolicy | invocation and source are two refs; policy, expectation, certificate and Statement name them all | trusts a bundle exactly if everything fits; exit status true |
| diagnostics (`diagnostic`) | a registry of identifiers | Build | many identifiers | exit status and primary identifier |
| policy intersection, failure recognizer, canonical JSON, workflow and pin checks, fixtures, dispatcher | a decoded document, or nothing | one pass each | many cases, no ordering | not modelled; see section 6 |

## 2. Modules

| module | models | remarks |
| --- | --- | --- |
| `ReleaseIntent` | the promise of the mutation segment | abstract: at most one write per attempt; claim, deny or doubt |
| `NpmPublish` | `publish.go` against the registry | implements `ReleaseIntent` (`KeepsPromise`) |
| `ReleasePipeline` | the workflow, several runs, one registry | publish is what `ReleaseIntent` promises of it |
| `AtomicRegister` | the promise of WriteFileAtomic | abstract: an atomic register with durable acknowledged writes |
| `AtomicFile` | WriteFileAtomic, one system call a step | implements `AtomicRegister` (`ImplementsRegister`) |
| `OutcomeReport` | the publish job's writers of the report | extends `AtomicFile`: every write goes through its calls |
| `CommandBoundary` | `runCommandAtBoundary` | `os/exec` and the kernel are external |
| `StderrRelay` | `operationalStderrRelay` | compared with the redaction of the whole stream (`Redacted`) |
| `ArtifactChain` | build, sign and publish of one attempt's files | |
| `RemoteClient` | `performBoundedRequest` and its callers | |
| `BuildCommand` | npm-profile-build from its registry read to a command of the build | composes `RemoteClient` and `CommandBoundary` |
| `DistributionFetch` | `fetchHTTPS` | shared by the next two |
| `Provisioning` | Node.js and npm provisioning | extends `DistributionFetch` |
| `DistributionEvidence` | Corepack and its evidence | extends `DistributionFetch` |
| `Toolchain` | both, in the order of the jobs | composes the last three |
| `NpmRange` | `semver_range.go`, and what node-semver means by the same tokens | operators, no state |
| `PackageSelection` | Analyze and the version warning | extends `NpmRange` |
| `SourceRef` | npm-profile-source-ref and the check of its result | |
| `BuildRecord` | the finalization of the build's record, its validation, the checks of the signer | operators; extends `SourceRef`, `NpmRange` |
| `Diagnostics` | exit status of an identifier, the report of one entry | operators |
| `Attestation` | `attestation.Verify`, the publish job's verifier, verify-attestation | operators; extends the last two |
| `SignedSource` | a release from its trigger to the verdict on its provenance | composes `SourceRef`, `PackageSelection`, `BuildRecord`, `Attestation` |
| `MC*` | instances for TLC | values of the constants, symmetry, reference definitions |
| `*Proofs` | theorems | see section 4 |

State and actions follow the code. In `NpmPublish`, `pc` is the function that runs
(`prepare` preparePublish, `packument`/`attestations` the two reads of observe, `decide`, `sleep`,
`npm-version` validateNPMVersion, `mutate` and `npm` runNPM), the variables of the classify frame
have the names of the Go variables, and Publish's two calls of classify are told apart by
`afterMutation`. Decisions are operators with the names of the Go functions (`decide`,
`decideBundles`, `matchesPublishedBundle`, `definitivePublishError`), so a change of one of them
is a change of one definition. The registry is a set of PUTs under way, the committed version and
its age; a read may miss a version younger than `MaxLag`. In `ReleasePipeline` an artifact is a
pair of kind and attempt, because its name carries the attempt, while `built` is the attempt whose
job outputs are still in force. In `AtomicFile`, `onDisk` is the set of contents that may remain
after a power loss: synchronising the file and then its directory shrink it. In `CommandBoundary`
the goroutines of `os/exec` have steps of their own. In `PackageSelection` what a directory, a
field or a lockfile holds is chosen when the code reads it. In `SignedSource` the `stage` is how
far the release has come (which job, and what of it), each job's output is a variable of its own,
and `witnessed` is a history: every ref and commit that GitHub or git named together. A command
that makes checks one after another is a sequence of them, each with the diagnostic and the exit
status it ends the command with (`Verify`, `ConsumerChecks`, `PublisherChecks`); `Verdict` takes
the first that fails. A `request` for verification is first what the release made, then up to
`Alterations` parts of it are replaced (`GoesAmiss`), then it is judged.

Identities of data are kept and their text is not. A tarball is a model value or a record of what
an inspection can see, a digest is a pair of its algorithm and the content it is of, a bundle is
the run its invocation names, the subject it is about and whether it verifies. A version keeps its
three numbers and the rank of its prerelease. A ref keeps its kind, the version it names and whether
git, Go and the checks take its form; a claim of a certificate is that of the run ("ours"), of
something else, or missing. A signer also keeps apart another path, another repository and another
ref.

## 3. What is checked

Run a configuration with `tlc -config X.cfg Module`. The figures are of one machine with two
workers.

| run | module, configuration | question | bounds |
| --- | --- | --- | --- |
| `publish_safety` | MCNpmPublish, `_safety` | May an attempt claim what is not its own, publish again, deny a write, or break its promise? | two attempts, two tarballs, every registry and verifier fault in every attempt, the sleep cancellable |
| `publish_outcome` | MCNpmPublish, `_outcome` | Do read-backs and re-runs converge, are rejections contradicted later surfaced, does it end? | two attempts, lag and oversleep of one tick, budgets of three and four polls; an attempt without faults or with faults of verification and metadata (992,000 states) |
| `publish_conflict` | MCNpmPublish, `_conflict` | finding 1 | no faults |
| `pipeline` | MCReleasePipeline | Are reports true, segments serialized, do runs complete? | two runs, one re-run, same ref or two refs (466,000 states) |
| `pipeline_rerun` | MCReleasePipeline, `_rerun` | finding 2 | as above |
| `outcome_report` | OutcomeReport | Does the report survive failures, kills and power loss, and is it honest? | no bound: the state space is finite |
| `stderr_relay` | MCStderrRelay | Is redaction on the fly that of the whole stream, and bounded? | six symbols, three overlapping secrets, streams of at most six symbols, five bytes, two lines |
| `build_command` | BuildCommand | Is every conclusion of a remote call true, does nothing start on a failed read, what does the success of a command mean, does the step return? | three attempts, as in the code; one child, any number of descendants as two flags (306,000 states) |
| `artifact_chain` | MCArtifactChain | Is what was inspected what is published? | two identities, registries, tags and tarball variants, symmetric |
| `toolchain` | MCToolchain | Does only the pinned toolchain run, with true evidence? | three archives, six pairs of pins, three entries per archive (81,000 states) |
| `signed_source` | MCSignedSource | Are root, manager and warning the right ones; does what is signed name the tagged commit that was built; does every job refuse what it must and nothing else; are both verdicts right? | a package two levels deep, 36 contents of the two metadata files, 16 declarations or none per field, 235 ranges, eight observed versions; two commits with a version each, five inputs, three invocation refs; four signers; two things amiss in a request, a certificate issued to another signer being one of them (2,243,000 states) |
| `signed_source_lockfile` | MCSignedSource, `_lockfile` | finding 3 | as above, nothing amiss |

Why these bounds are enough to be interesting:

* Two attempts are the least at which adoption, lost responses and re-runs matter: the second
  meets a registry with the first one's PUT applied, pending or lost. The proofs of the safety
  properties cover any number.
* One tick of lag and of oversleep puts every commit before, between and after every poll and
  deadline. Budgets are a few polls rather than thousands; only their order matters
  (`RejectedBudget < PollBudget`).
* Six symbols hold every proper prefix, overlap and nesting of the three secrets and both bounds
  can be reached.
* A workspace pattern is laid over at most two segments, with `**` at either end and in the
  middle; the declarations include both sides of every boundary of the supported versions.
* Two commits with different versions let a tag move to a commit it is not the tag of. The inputs
  are: none, the tag of one version, a tag in white space, a malformed tag and a branch; the invocations a
  tag, a branch, and a branch whose name git takes and `validFullGitRef` does not.
* Two parts of a request that are wrong together are enough for one wrong part to mask another:
  the order of the checks, and the pairs that are compared with each other rather than with the
  expectation (certificate and identity, identity and policy, policy and Statement).

Liveness needs fairness, and each specification states as little as the code justifies:
`NpmPublish` assumes that the process is scheduled and clocks advance (requests have timeouts of
their own), and nothing of the registry; `ReleasePipeline` that a job the platform has started
gets on, as each command and step is bounded; `CommandBoundary` that the program's own goroutines
run and the context's deadline fires, and nothing of the child or its descendants;
`BuildCommand` composes it with `RemoteClient`, of which it assumes that the program runs and its
timer fires, and nothing of the remote side;
`Toolchain` that the deadline of a download passes and local steps end. Crashes, kills,
cancellations and faults are never fair, so no property depends on their happening or stopping.

Deadlock checking is off in these configurations because every modelled program ends: a final
state has no step. The liveness properties say where it may stop.

That each property can fail was tested by a mutant: `PROJECT.json` names, for every property, a
definition of the code and a plausible bug in it (a dropped guard, a missing reset, a comparison
that forgets a field) under which TLC finds the property violated.

### What the runs found

1. `publish_conflict`: `js-ts-npm-provenance-publish.md` lines 1903–1904 say that for a new run
   id `EPUBLISHCONFLICT` is a hard foreign conflict and must never be adopted. The code does not
   tell that answer apart from an inconclusive failure: it reads the registry back and adopts a
   bundle of its own run. The run shows a first attempt that ends in success after the conflict.
   (It is that attempt's own publication, so `SuccessIsOwn` still holds.)
2. `pipeline_rerun`: ADR 0067 makes re-running failed jobs the supported retry and relies on the
   state of prior attempts. The names of the handoff artifacts carry the current attempt, so a
   publish job that is re-run alone looks for artifacts nobody uploaded. It fails before the
   mutation, and its report says so: no property of safety is lost.

3. `signed_source_lockfile`: the decision matrix of `js-ts-npm-build-pack.md` (line 455) selects npm
   from a lone package-lock.json and lines 472–474 say how it is recorded. `filepath.Base("")` is
   `"."`, so `workflow_metadata.go:309` records the manifest `"."`, and `provenance_validate.go:313`
   refuses a lockfile selection that has one. Such a release is built and then always refused by
   the finalization of its own record. `RefusedForCause` holds with this exception stated.

Other disagreements met while modelling have no run of their own. The models follow the code:

* The comment above npmDeclaredMatchesActual (`semver_range.go:26-29`) says that an unparseable arm
  makes a whole declaration unmatchable; a comparator set is read only up to its first comparator
  that fails (`semver_range.go:315-320`). The effect is one warning that is not given (`ArmVerdict`).
* Several commands of the jobs return ErrVerificationFailure, exit status 1, with a report whose
  `exit_code` is 2 (`npm_profile_publish.go:104`, and sign, provision and assertion alike), where
  `verification-policy-and-fixtures.md` (lines 1326–1345) wants 2. `verify-attestation` has it right.
* What is fixed at the trigger is refused only late: a repository whose name is not lower case and
  a caller that names the workflow by a tag stop the signer, a caller's `.yaml` file and an
  invocation of an explicit tag on a branch like `a./b` stop the finalization (`Signable`, `Publishable`,
  `Unrecordable`).
* Likewise the answer of the registry that the package is absent, or the version present, does not
  stop the build; the finalization refuses it.
* `verify-attestation` does not compare the Statement's invocation id with the run of the
  certificate, nor its builder with the signer: an identity file that names another run
  is followed. The documents have that refused (`slsa-provenance-v1.md:551`,
  `verification-policy-and-fixtures.md:329`, lines 1764–1769); the publish job refuses it. The model
  follows the code, and `ConsumerVerdictIsRight` takes no side: it demands that a bundle be accepted
  only where certificate and Statement agree (`SignedByItsRun`), and says of every bundle that is
  accepted what was looked at.
* A policy holds the bare path of the signer's workflow, and `verify-attestation` looks for it within
  the signer's URI (`verify_attestation.go:152`), so the repository and the ref are those of the
  identity file; `verification-policy-and-fixtures.md:343` wants the exact workflow that the policy
  selects. In the model a signer of the same path in another repository ("fork") or at another ref
  ("retagged") passes that check (`PathOf`), and is accepted if the identity file names it.
* A 200 of GitHub's identity endpoint that cannot be decoded is reported as a trusted-publisher
  mismatch (`oidc_client.go:124-131`), as `verification-policy-and-fixtures.md:530` has it of an
  unavailable caller filename. It is the one malformed answer that becomes a determinate conclusion,
  and `ConclusionWasTrue` names it (`Unreadable`); a malformed answer to the exchange stays
  indeterminate.
* The verifier stops at the first check that fails, where `verification-policy-and-fixtures.md` (lines
  1304–1324) asks for every diagnostic that can be proved independently.
* The warnings about stale lockfiles reach the record of the build but not its passing report
  (`npm_profile_build.go:104-108`).

## 4. What is proved

TLAPS checks eight modules of theorems, for all values of the constants that satisfy the
assumptions named in the modules (positive bounds, values that stand for nothing being no
values). TLC evaluates those assumptions in the runs. Every safety property and both refinements
that the runs check are stated by a theorem; what is left to TLC is liveness.

* **`NpmPublishProofs`**. `TypeCorrect`, then `Invariance`: `Inv`, the inductive invariant, for
  any number of attempts, tarballs, faults and any lag. The properties of `publish_safety` follow
  from it; none is inductive alone. Beside them it needs that what the program holds of the
  registry is still true, because versions are immutable (`ObservationsHold`); that every write
  is an attempt's own, and that an attempt that has not run npm has none (`WritesAccounted`);
  that npm runs only after a clean absence at entry (`EntryGuards`); and that a version
  replicated at entry stays visible to every clean read (`EntryReads`). `NextSafe` has a step
  per action. `Refinement` proves `KeepsPromise`: the initial states map to initial states and
  under `Inv` every step is a step of `ReleaseIntent` or none.
  `ReadbackInvariance` is about time. `Timely` says that the version is at least as old as the
  poll clock since the read-back began, so that a clean observation that ends with the budget
  began after the lag and saw it. `RerunsConverge` needs no bound.
  `SettledAbsenceIsTrue` assumes that the registry's lag and one request fit the reduced budget
  (60 s in the code), `ContradictionsSurface` and `ReadbackFindsPublication` that they fit both
  budgets (the other is five minutes) and that the sleep is not cancelled, as in this program,
  whose context is the background. Without the assumption about the lag these properties are
  false: the code cannot tell a lag beyond its budget from an absence.
* **`ReleasePipelineProofs`**. `IInv`, for any runs, refs, assignment of refs to runs and numbers of
  attempts, follows a publish job through its life: it is in its group's queue from when its needs
  are done until it has concluded, once, and first while it runs (`QueueInv`); needs that are done do
  not change before the next attempt (`NeedsSettled`); a green publish job has a passing report
  (`GreenInv`); and a passing report was written over the version that the registry holds (`PassInv`).
  Types, the truth of reports, `SuccessHasReport` and the serialization of segments follow.
* **`OutcomeReportProofs`**. `FileInv`: from the write on, the temporary file has the data, and it is
  synchronised before it is renamed. From it follow that the target is never torn, that an
  acknowledged write is durable, and that WriteFileAtomic implements `AtomicRegister`. The job's
  steps are WriteFileAtomic's or leave the file alone (`JobWritesAtomically`), so all this holds
  within the job. `ReportInv` adds where the job is and what it has persisted: a
  file that is there is the persisted one, it is a passing one only if Publish passed, and a job that
  has not failed has come by every step. The three properties follow.
* **`BuildCommandProofs`**. `BoundaryInv` relates `pc` to what has already ended: after the wait
  the child is reaped; after the copiers, nobody copies; success was concluded only from a clean
  exit. `ClientInv`: an answer in hand reports something that was true since the request began, or an
  error of the remote side, or holds no identity that can be read; every determinate conclusion was
  therefore true, but for the mismatch reported of such an identity, for any number of retries. `JobInv` is their conjunction with the order of the two: nothing is started before the
  answer (`NothingStartedBlindly`). The composed program implements the command boundary
  (`CommandsAtBoundary`) and keeps all that was proved of the parts.
  The same module has the stderr relay. `Kept` is what every rune leaves true of its buffers: the bounds, the
  count of bytes, and that no `##[` stands in the payload; dropped characters and markers put in by the
  redaction are runes like any other. `StreamInv` says that *however the stream goes on*, what was handed on is
  the beginning of its redaction and the redaction of what is pending is the rest. It is
  the quantifier over what is still to come that makes it inductive: the relay may decide a prefix
  only when no secret can still grow over it (`Decided`, `OneRound`). `RedactsLikeBatch` follows.
* **`ArtifactChainProofs`**. `ChainInv` says at each step what the files, outputs and the store must
  be, whatever a left-over process or the store does. The proof rests on two lemmas: digests are
  injective, and a verified file is the one whose digest was recorded. Three theorems follow, from
  inspection to publication.
* **`ToolchainProofs`**. The invariant is the conjunction of those of the three modules that
  `Toolchain` composes: the download's (`FetchTypeOK`), the provisioner's (`ProvisionInv`: what is
  on disk comes from the pinned archive, a phase has what it needs, a finished step stays
  finished) and the evidence's (`EvidenceInv`). Lemmas show which steps leave which part alone.
* **`PackageSelectionProofs`**. `TokensMean` and `HyphensMean`: for all released versions and partial
  versions, the interval that the code computes contains a version exactly if node-semver's meaning
  of the token does, where that meaning is stated without intervals. The lemmas are about the order
  of versions (`PrecedenceTotal`) and about the completion of the lower and upper ends (`LowEnd`,
  `HighEnd`, `FullEnd`). `MatchIsSound` and `MatchIsComplete` carry this to arms and unions: the code
  never accepts a version that no arm means, and if all arms parse it accepts all that are meant.
  `WarningAlwaysRight` follows from them and the invariant that a warning, once the build has made
  the comparison, is its result, and that nothing was reported before (`WarningInv`). It assumes
  that the npm of the toolchain reports a release whose numbers npm itself admits
  (`RangeAssumption`).
  `RootIsNearest` rests on `WalkInv`: the directories passed so far neither claim the package nor stop
  the search, for any depth; and on `MatcherMeaning`, which relates the table that
  MatchWorkspacePattern fills to what a pattern with `**` means. `SelectionIsRight` rests on `SelectionInv`: the fields
  read so far agree, and a refusal is one of the matrix.
* **`SignedSourceProofs`**. `SourceInv`: from the source step on the source is a ref and a commit that
  were named together; from the record on it is the version tag of the commit and the record names
  the invocation; the Statement carries the record. The step that matters is the finalization
  (`FinalizedSource`): its checks are what excludes a source that is not the version's tag, and an
  explicit input without an invocation. `SignedSourceIsTagged` follows, for any number of commits,
  versions and refs and however tags move. `ReleaseSelects` carries the theorems of the selection over
  to the release.
  `CauseInv` says at each stage which conditions have been checked so far; `RefusalsHaveCause` is its last
  conjunct. The proof that a record is accepted exactly if the release is publishable goes through the
  lists of checks: a list passes exactly if each of its parts does (`ListOfParts` and the lemmas
  after it), and each check is one condition of the property.
  `VerdictInv` ties the verdict to the request; the requests that can come about (`Askable`) are
  what the release made with any parts replaced. From there the two verdicts are theorems about the
  lists of checks and about nothing else: that they pass exactly if everything they look at fits, and for the consumer that
  the first check that fails has the right exit status. `ConsumerExactly` says of `verify-attestation`
  exactly what it accepts; the property asks for acceptance only where the documents do.

The library's induction theorems cannot be used with the installed provers, so induction over data is
done by the least counterexample: a set of bad numbers that is not empty has a least member
(`Least`, `Smallest`, from the well-foundedness of the naturals), which is then refuted.
That recursive functions over tables, runes and streams exist is proved the same way (`AfterExists`, `RedactionExists`).

Only model-checked: the liveness properties `PublishReturns`, `RunCompletes`, `StepReturns` and
`ToolchainSettles`, as the prover does neither fairness nor ENABLED.

## 5. Assumptions

* Digests do not collide, and Sigstore's verdict on a bundle is right or an error.
* Job outputs arrive as they were set; artifacts need not.
* The registry commits a version at most once and never changes it. How long its reads lag is a
  constant; faults, conflicts and other publishers are arbitrary.
* In the theorems about the read-back, that this lag and one request fit the budgets; in the others the
  lag is arbitrary.
* What a build script leaves running writes to the pack destination only. The checkout is not
  written to while a package is selected, before any script runs.
* A symbol of the relay is a byte and a rune at once, so a multi-byte rune split over two writes
  is not represented.
* The signing job provisions Node.js as the build job does; `Provisioning` has the build and the
  publish job.
* Reading a local file that exists does not fail in npm-profile-report, a process id is not
  reused within a command, and a killed process dies (none is stuck in the kernel).
* A tag is the commit it pointed to when git was asked; a commit is its contents, so the manifest of
  a commit has one version (`ManifestVersion`). The revision a job checks out is the one it was given.
* sigstore-go checks a bundle in a fixed order of its own, of which `Evidence` keeps what
  `classifyVerificationError` can tell apart; a trust root is in force, stale, wrong or missing.
* What stands for nothing is not something: no run is called `"none"` (`RunsNamed`), no report is the absent
  file (`NoReport`), no commit has a word for no commit (`SourceAssumption`). Paths and patterns are
  sequences of segments (`PathAssumption`); a descriptor is malformed, a bare name or a name with a version
  (`DescriptorAssumption`); an invocation is of a tag or a branch (`InvocationAssumption`); the
  redaction marker is a text (`MarkerAssumption`).
* The three jobs of a run see the same event and the same caller.
* Corepack records the hash of the bytes it runs. The capture of the runner image is one choice
  between success and failure.
* Bounds introduced by the models are `MaxAttempts` (both modules), `MaxLag`, `RequestTicks`,
  `Oversleep`, `MaxInput`, `Entries` and `Alterations`; `Retries`, the poll budgets, `MaxBytes`, `MaxLines` and
  `MaxComponent` are constants of the code with small values.

## 6. Not modelled

* The **failure recognizer** (`publish_diagnostics.go`) and **policy intersection** have no caller
  outside their tests. They have no behaviour in the system yet.
* **Diagnostics** beyond the exit status and the report of one entry: no modelled command reports two
  failing entries, so the order among them has no producer, and rendering is wording.
* Of **provenance validation and attestation verification**: the shapes of JSON members, URIs and
  digests, the declared minimums of Node.js and npm, SPDX and repository fields of a policy, and the
  cryptography and policy of sigstore-go.
* **Canonical JSON, fixtures, workflow and pin checks, the dispatcher**: conversions, test data,
  static analysis and glue, without state.
* Within modelled components: the resolution of a package directory through symbolic links and
  letter case, the bytes of archives and YAML, TLS, redirects and proxies, and wording.

## 7. Plan

Done, in this order, the mutation segment first because it is the only irreversible step:

1. `ReleaseIntent`, `NpmPublish` and the refinement between them.
2. `ReleasePipeline` on top of the promise.
3. `AtomicFile`, `OutcomeReport`; `StderrRelay`; `CommandBoundary`.
4. `ArtifactChain`, `RemoteClient`.
5. `Provisioning`, `DistributionEvidence`, composed in `Toolchain`.
6. `NpmRange`, `PackageSelection`.
7. `SourceRef`, `BuildRecord`, `Diagnostics`, `Attestation`, composed with the selection in
   `SignedSource`; `BuildCommand`.

8. Proofs: the promise of the publish state machine, then the files, the command boundary, the chain,
   the toolchain and the ranges; then the workflow, the outcome report, the read-back, the walk and
   the matrix, the relay, and the causes and verdicts of a release.

Next: what the proofs leave to TLC is liveness only. What can still be proved is the ground under
it, that a state that has not ended has a step (`NpmPublish`, `Toolchain`: the guards of the
program's actions cover every `pc`), and that the measures behind the budgets decrease.

More of the system, once production code calls it: the failure recognizer, and the intersection of
policies as a meet (commutative, associative, idempotent, and no weaker than either side).
