--------------------------- MODULE ArtifactChain ----------------------------
(***************************************************************************)
(* One attempt's artifacts, from the checked-out package to the registry:  *)
(* npm-profile-build selects, builds, packs and inspects a tarball and     *)
(* describes it in build metadata; npm-profile-sign signs a statement      *)
(* about it; npm-profile-publish hands it to npm.  Files travel between    *)
(* the jobs as workflow artifacts, digests as job outputs.                 *)
(*                                                                         *)
(* The package's own scripts run in the build job: they may edit           *)
(* package.json, and may leave a process behind that goes on writing to    *)
(* the pack destination.  Artifact storage may lose, rename or alter what  *)
(* it carries.  Job outputs are reliable.                                  *)
(***************************************************************************)
EXTENDS Naturals

CONSTANTS
  Identities,  \* name@version pairs
  Registries,  \* registry roots
  Tags,        \* distribution tags
  Variants,    \* tells tarballs of the same package apart
  None         \* nothing there yet

Manifests == [identity : Identities, registry : Registries, tag : Tags]

\* env: does the tarball contain a .corepack.env?
Tarballs  == [identity : Identities, env : BOOLEAN, variant : Variants]

\* The digests; they stand for the bytes (no collisions).
SHA256(content) == <<"sha256", content>>
SHA512(content) == <<"sha512", content>>

\* externalParameters, and the {} that BuildPack writes before they are known.
Parameters      == Manifests
NoParameters    == None
Metadata(tarball, parameters) ==
  [sha256 |-> SHA256(tarball), sha512 |-> SHA512(tarball), parameters |-> parameters]

ASSUME NoneAssumption ==
  /\ None \notin Tarballs
  /\ None \notin Registries
  /\ None \notin Parameters

VARIABLES
  pc,         \* the step of the chain that runs next
  manifest,   \* package.json as it is now
  selected,   \* the identity that Analyze selected
  intent,     \* the registry resolved, and read, before the build
  daemon,     \* has a script left a process behind?
  packages,   \* tarballs in the pack destination
  packed,     \* the tarball inspectTarball read
  metadata,   \* build-metadata.json on the build runner
  outs,       \* outputs of the build job
  store,      \* the uploaded artifacts
  input,      \* the directories a later job downloaded them to
  statement,  \* the statement to sign
  bundle,     \* the provenance bundle in the signer's output directory
  signOuts,   \* digest of the bundle, output of the signing job
  published   \* what npm was told to publish

buildVars == <<manifest, selected, intent, daemon, packages, packed, metadata, outs>>
signVars  == <<statement, bundle, signOuts>>
vars == <<pc, buildVars, store, input, signVars, published>>

Artifacts == {"tarball", "metadata", "bundle"}

BuildSteps == {"analyze", "preflight", "install", "build", "pack", "inspect", "finalize",
               "record", "upload-tarball", "upload-metadata"}
SignSteps  == {"download-signing", "verify-signing", "sign", "upload-bundle"}
PublishSteps == {"download-publish", "verify-publish", "publish"}

-----------------------------------------------------------------------------
(* npm-profile-build                                                       *)

\* Analyze has passed and names the package.
Analyze ==
  /\ pc = "analyze"
  /\ selected' = manifest.identity
  /\ pc' = "preflight"
  /\ UNCHANGED <<manifest, intent, daemon, packages, packed, metadata, outs, store, input,
                 signVars, published>>

\* The publish intent is resolved from the manifest and that registry is read.
RegistryPreflight ==
  /\ pc = "preflight"
  /\ intent' = manifest.registry
  /\ pc' = "install"
  /\ UNCHANGED <<manifest, selected, daemon, packages, packed, metadata, outs, store, input,
                 signVars, published>>

\* runManagerCommand: a command succeeded; its scripts could do what they liked.
RunScripts ==
  /\ manifest' \in Manifests
  /\ daemon' \in {daemon, TRUE}

\* Install, then the build script if the package had one before the install.
Install ==
  /\ pc = "install"
  /\ RunScripts
  /\ pc' \in {"build", "pack"}
  /\ UNCHANGED <<selected, intent, packages, packed, metadata, outs, store, input, signVars,
                 published>>

Build ==
  /\ pc = "build"
  /\ RunScripts
  /\ pc' = "pack"
  /\ UNCHANGED <<selected, intent, packages, packed, metadata, outs, store, input, signVars,
                 published>>

\* The manager packs what the manifest says by then, its own scripts included.
Pack ==
  /\ pc = "pack"
  /\ RunScripts
  /\ \E t \in Tarballs : t.identity = manifest'.identity /\ packages' = packages \cup {t}
  /\ pc' = "inspect"
  /\ UNCHANGED <<selected, intent, packed, metadata, outs, store, input, signVars, published>>

\* Mutant: the file is opened once to check it and once more to hash it.
InspectThenHash ==
  /\ pc = "inspect"
  /\ \E t \in packages, u \in Tarballs :
       /\ packages = {t} /\ (u = t \/ daemon)
       /\ t.identity = selected
       /\ ~t.env
       /\ packed' = u
       /\ metadata' = Metadata(u, NoParameters)
       /\ packages' = {u}
  /\ pc' = "finalize"
  /\ UNCHANGED <<manifest, selected, intent, daemon, outs, store, input, signVars, published>>

\* oneTarball, inspectTarball: one tarball is read once, its digests are those of the
\* bytes inspected.  The first build metadata holds no parameters.
Inspect ==
  /\ pc = "inspect"
  /\ \E t \in packages :
       /\ packages = {t}
       /\ t.identity = selected
       /\ ~t.env
       /\ packed' = t
       /\ metadata' = Metadata(t, NoParameters)
  /\ pc' = "finalize"
  /\ UNCHANGED <<manifest, selected, intent, daemon, packages, outs, store, input, signVars,
                 published>>

\* FinalizeWorkflowBuildMetadata reads the publish intent again and the metadata
\* file is replaced.
Finalize ==
  /\ pc = "finalize"
  /\ metadata' = Metadata(packed, [manifest EXCEPT !.identity = selected])
  /\ pc' = "record"
  /\ UNCHANGED <<manifest, selected, intent, daemon, packages, packed, outs, store, input,
                 signVars, published>>

\* WriteGitHubOutputs: the registry is the one resolved before the build.
RecordOutputs ==
  /\ pc = "record"
  /\ outs' = [identity |-> selected, registry |-> intent, sha256 |-> SHA256(packed),
              sha512 |-> SHA512(packed), metadata |-> SHA256(metadata)]
  /\ pc' = "upload-tarball"
  /\ UNCHANGED <<manifest, selected, intent, daemon, packages, packed, metadata, store, input,
                 signVars, published>>

\* upload-artifact takes the file as it is now.
UploadTarball ==
  /\ pc = "upload-tarball"
  /\ \E t \in packages : store' = [store EXCEPT !["tarball"] = t]
  /\ pc' = "upload-metadata"
  /\ UNCHANGED <<buildVars, input, signVars, published>>

UploadMetadata ==
  /\ pc = "upload-metadata"
  /\ store' = [store EXCEPT !["metadata"] = metadata]
  /\ pc' = "download-signing"
  /\ UNCHANGED <<buildVars, input, signVars, published>>

\* A process that survived its command writes to the pack destination.
DaemonWrites ==
  /\ pc \in BuildSteps /\ daemon
  /\ packages' \in {{}} \cup {{t} : t \in Tarballs}
  /\ UNCHANGED <<pc, manifest, selected, intent, daemon, packed, metadata, outs, store, input,
                 signVars, published>>

-----------------------------------------------------------------------------
(* The handoff.                                                            *)

\* What a downloaded directory may hold: files, each of the expected name and kind
\* (a regular file) or not.
File(content) == [content |-> content, expected |-> TRUE]
Damage(artifact, content) ==
  CASE artifact = "tarball"  -> Tarballs
    [] artifact = "metadata" -> {Metadata(t, content.parameters) : t \in Tarballs}
                                \cup {[content EXCEPT !.parameters = p] : p \in Parameters}
    [] artifact = "bundle"   -> {[content EXCEPT !.valid = FALSE]}
                                \cup {[content EXCEPT !.statement.parameters.tag = t] : t \in Tags}

Delivered(artifact) ==
  LET c == store[artifact]
  IN  {{}, {File(c)}, {[File(c) EXCEPT !.expected = FALSE]},
       {File(c), [File(c) EXCEPT !.expected = FALSE]}}
      \cup {{File(d)} : d \in Damage(artifact, c)}

\* VerifyOneFile: exactly one entry, regular, of the expected name and digest.
VerifyOneFile(directory, digest) ==
  \E f \in directory :
    /\ directory = {f}
    /\ f.expected
    /\ SHA256(f.content) = digest

Payload(directory) == (CHOOSE f \in directory : TRUE).content

-----------------------------------------------------------------------------
(* npm-profile-sign                                                        *)

DownloadForSigning ==
  /\ pc = "download-signing"
  /\ \E t \in Delivered("tarball"), m \in Delivered("metadata") :
       input' = [input EXCEPT !["tarball"] = t, !["metadata"] = m]
  /\ pc' = "verify-signing"
  /\ UNCHANGED <<buildVars, store, signVars, published>>

\* Mutant: the registry of the metadata is not compared with the build's output.
VerifyForSigningAnyRegistry ==
  /\ pc = "verify-signing"
  /\ LET m == Payload(input["metadata"])
         t == Payload(input["tarball"])
     IN  /\ VerifyOneFile(input["metadata"], outs.metadata)
         /\ VerifyOneFile(input["tarball"], outs.sha256)
         /\ m.sha256 = outs.sha256 /\ m.sha512 = SHA512(t)
         /\ m.parameters \in Parameters
         /\ m.parameters.identity = outs.identity
         /\ statement' = [sha256 |-> m.sha256, sha512 |-> m.sha512, parameters |-> m.parameters]
  /\ pc' = "sign"
  /\ UNCHANGED <<buildVars, store, input, bundle, signOuts, published>>

\* Both files are verified and compared with each other and with the outputs; then
\* NewProvenanceSigningInput assembles the statement.
VerifyForSigning ==
  /\ pc = "verify-signing"
  /\ LET m == Payload(input["metadata"])
         t == Payload(input["tarball"])
     IN  /\ VerifyOneFile(input["metadata"], outs.metadata)
         /\ VerifyOneFile(input["tarball"], outs.sha256)
         /\ m.sha256 = outs.sha256 /\ m.sha512 = SHA512(t)
         /\ m.parameters \in Parameters
         /\ m.parameters.identity = outs.identity /\ m.parameters.registry = outs.registry
         /\ statement' = [sha256 |-> m.sha256, sha512 |-> m.sha512, parameters |-> m.parameters]
  /\ pc' = "sign"
  /\ UNCHANGED <<buildVars, store, input, bundle, signOuts, published>>

\* SignGitHubActions: the bundle Sigstore returns is verified to hold exactly the
\* statement, is written, and its digest is put out.
Sign ==
  /\ pc = "sign"
  /\ bundle' = [statement |-> statement, valid |-> TRUE]
  /\ signOuts' = SHA256(bundle')
  /\ pc' = "upload-bundle"
  /\ UNCHANGED <<buildVars, store, input, statement, published>>

UploadBundle ==
  /\ pc = "upload-bundle"
  /\ store' = [store EXCEPT !["bundle"] = bundle]
  /\ pc' = "download-publish"
  /\ UNCHANGED <<buildVars, input, signVars, published>>

-----------------------------------------------------------------------------
(* npm-profile-publish                                                     *)

DownloadForPublish ==
  /\ pc = "download-publish"
  /\ \E t \in Delivered("tarball"), b \in Delivered("bundle") :
       input' = [input EXCEPT !["tarball"] = t, !["bundle"] = b]
  /\ pc' = "verify-publish"
  /\ UNCHANGED <<buildVars, store, signVars, published>>

VerifyForPublish ==
  /\ pc = "verify-publish"
  /\ VerifyOneFile(input["tarball"], outs.sha256)
  /\ VerifyOneFile(input["bundle"], signOuts)
  /\ pc' = "publish"
  /\ UNCHANGED <<buildVars, store, input, signVars, published>>

\* Mutant: npm is not told the tag.
PublishUntagged ==
  /\ pc = "publish"
  /\ LET t == Payload(input["tarball"])
         b == Payload(input["bundle"])
     IN  /\ SHA256(t) = outs.sha256 /\ SHA512(t) = outs.sha512
         /\ SHA256(b) = signOuts
         /\ b.statement.parameters.registry = outs.registry
         /\ \E tag \in Tags :
              published' = [tarball |-> t, bundle |-> b,
                            registry |-> b.statement.parameters.registry, tag |-> tag]
  /\ pc' = "done"
  /\ UNCHANGED <<buildVars, store, input, signVars>>

\* preparePublish and validatePreparedBindings: both files are read once more, the
\* bundle is verified and its statement compared with tarball and registry; npm then
\* publishes the files to the registry and under the tag that were signed.
PublishPrepared ==
  /\ pc = "publish"
  /\ LET t == Payload(input["tarball"])
         b == Payload(input["bundle"])
     IN  /\ SHA256(t) = outs.sha256 /\ SHA512(t) = outs.sha512
         /\ SHA256(b) = signOuts
         /\ b.valid
         /\ b.statement.parameters.registry = outs.registry
         /\ b.statement.sha256 = outs.sha256 /\ b.statement.sha512 = outs.sha512
         /\ published' = [tarball |-> t, bundle |-> b,
                          registry |-> b.statement.parameters.registry,
                          tag |-> b.statement.parameters.tag]
  /\ pc' = "done"
  /\ UNCHANGED <<buildVars, store, input, signVars>>

-----------------------------------------------------------------------------
\* A failing step of BuildPack removes the output directories.
BuildPackFails ==
  /\ pc \in {"install", "build", "pack", "inspect"}
  /\ packages' = {}
  /\ pc' = "failed"
  /\ UNCHANGED <<manifest, selected, intent, daemon, packed, metadata, outs, store, input,
                 signVars, published>>

\* Any other step may fail and ends the attempt.
StepFails ==
  /\ pc \in (BuildSteps \cup SignSteps \cup PublishSteps) \ {"install", "build", "pack", "inspect"}
  /\ pc' = "failed"
  /\ UNCHANGED <<buildVars, store, input, signVars, published>>

Init ==
  /\ pc = "analyze"
  /\ manifest \in Manifests
  /\ selected = None /\ intent = None /\ daemon = FALSE
  /\ packages = {} /\ packed = None /\ metadata = None /\ outs = None
  /\ store = [a \in Artifacts |-> None] /\ input = [a \in Artifacts |-> {}]
  /\ statement = None /\ bundle = None /\ signOuts = None /\ published = None

BuildJob   == Analyze \/ RegistryPreflight \/ Install \/ Build \/ Pack \/ Inspect \/ Finalize
              \/ RecordOutputs \/ UploadTarball \/ UploadMetadata
SignJob    == DownloadForSigning \/ VerifyForSigning \/ Sign \/ UploadBundle
PublishJob == DownloadForPublish \/ VerifyForPublish \/ PublishPrepared

Next == BuildJob \/ SignJob \/ PublishJob \/ DaemonWrites \/ BuildPackFails \/ StepFails

Spec == Init /\ [][Next]_vars

-----------------------------------------------------------------------------
(* Properties.                                                             *)

\* The manifest, the selection and the files of every job of the chain keep their types.
TypeOK ==
  /\ pc \in BuildSteps \cup SignSteps \cup PublishSteps \cup {"done", "failed"}
  /\ manifest \in Manifests
  /\ selected \in Identities \cup {None}
  /\ intent \in Registries \cup {None}
  /\ packages \subseteq Tarballs
  /\ packed \in Tarballs \cup {None}
  /\ DOMAIN store = Artifacts /\ DOMAIN input = Artifacts

\* The statement that is signed is about the tarball that was inspected, says what the
\* build's final metadata says and names the registry that was read before the build,
\* whatever storage delivered, whoever wrote to the pack destination in the meantime and
\* whichever script edited publishConfig.
SignedAsBuilt ==
  statement # None =>
    /\ statement.sha256 = SHA256(packed) /\ statement.sha512 = SHA512(packed)
    /\ statement.parameters = metadata.parameters
    /\ statement.parameters.registry = intent

\* npm publishes the bytes that were inspected, together with the bundle that was
\* signed about them, to the registry and under the tag that were signed.
PublishedAsInspected ==
  published # None =>
    /\ published.tarball = packed
    /\ published.bundle = bundle
    /\ published.registry = intent
    /\ published.tag = metadata.parameters.tag

\* No published tarball contains a .corepack.env or another package than the selected
\* one (rejectPackedCorepackEnvironment, the packed identity).
OnlyCheckedContents ==
  published # None => ~published.tarball.env /\ published.tarball.identity = selected

-----------------------------------------------------------------------------
(* The inductive invariant.                                                *)

BeforeInspected == {"analyze", "preflight", "install", "build", "pack", "inspect"}
BeforeRecorded  == BeforeInspected \cup {"finalize", "record"}
BeforeSigned    == BuildSteps \cup {"download-signing", "verify-signing"}
Recorded == {"upload-tarball", "upload-metadata"} \cup SignSteps \cup PublishSteps
Assembled == {"sign", "upload-bundle"} \cup PublishSteps

\* Nothing exists before the step that makes it.
NothingEarly ==
  /\ pc \in BeforeInspected => packed = None /\ metadata = None
  /\ pc \in BeforeRecorded => outs = None
  /\ pc \in BeforeSigned => statement = None
  /\ pc \in BeforeSigned \cup {"sign"} => bundle = None /\ signOuts = None
  /\ published # None => pc = "done"

\* The tarball that was inspected passed the checks, and the metadata is about it.
MetadataOfPacked ==
  pc \notin BeforeInspected \cup {"failed"} =>
    /\ ~packed.env /\ packed.identity = selected
    /\ metadata.sha256 = SHA256(packed) /\ metadata.sha512 = SHA512(packed)

\* The job outputs stand for the inspected tarball and the final metadata.
OutputsOfBuild ==
  pc \in Recorded =>
    /\ outs.sha256 = SHA256(packed) /\ outs.sha512 = SHA512(packed)
    /\ outs.metadata = SHA256(metadata)
    /\ outs.registry = intent

\* The statement and the bundle are what the signing job made of them.
BundleOfStatement ==
  /\ pc \in Assembled => statement.parameters = metadata.parameters
  /\ pc \in Assembled \ {"sign"} =>
       /\ bundle = [statement |-> statement, valid |-> TRUE]
       /\ signOuts = SHA256(bundle)

\* The inductive invariant of the artifact chain.
ChainInv ==
  /\ NothingEarly
  /\ MetadataOfPacked
  /\ OutputsOfBuild
  /\ BundleOfStatement
  /\ SignedAsBuilt
  /\ PublishedAsInspected
  /\ OnlyCheckedContents
=============================================================================
