------------------------ MODULE ArtifactChainProofs -------------------------
(***************************************************************************)
(* What is inspected is what is signed and published: the safety of the    *)
(* artifact chain for every set of packages, registries, tags and tarballs.*)
(***************************************************************************)
EXTENDS ArtifactChain, TLAPS

\* Equal digests mean equal contents.
LEMMA DigestInjective ==
  ASSUME NEW x, NEW y, SHA256(x) = SHA256(y)
  PROVE  x = y
  BY DEF SHA256

\* A directory that VerifyOneFile accepts yields contents of the expected digest.
LEMMA VerifiedPayload ==
  ASSUME NEW directory, NEW digest, VerifyOneFile(directory, digest)
  PROVE  SHA256(Payload(directory)) = digest
<1>1. PICK f \in directory : directory = {f} /\ SHA256(f.content) = digest
      BY DEF VerifyOneFile
<1>2. (CHOOSE g \in directory : TRUE) = f
      BY <1>1
<1> QED BY <1>1, <1>2 DEF Payload

\* Nothing was built, signed or published at first.
LEMMA InitChain == Init => ChainInv
  BY DEF Init, ChainInv, NothingEarly, MetadataOfPacked, OutputsOfBuild, BundleOfStatement,
         SignedAsBuilt, PublishedAsInspected, OnlyCheckedContents,
         BeforeInspected, Recorded, Assembled, SignSteps, PublishSteps

\* Every step of the three jobs, of a left-over process and every failure preserves it.
LEMMA NextChain == ChainInv /\ [Next]_vars => ChainInv'
<1> SUFFICES ASSUME ChainInv, [Next]_vars PROVE ChainInv'
    OBVIOUS
<1> USE DEF ChainInv, NothingEarly, MetadataOfPacked, OutputsOfBuild, BundleOfStatement,
            SignedAsBuilt, PublishedAsInspected, OnlyCheckedContents,
            BeforeInspected, BeforeRecorded, BeforeSigned, Recorded, Assembled,
            BuildSteps, SignSteps, PublishSteps
<1>1. CASE Analyze
      BY <1>1 DEF Analyze, signVars
<1>2. CASE RegistryPreflight
      BY <1>2 DEF RegistryPreflight, signVars
<1>3. CASE Install \/ Build \/ Pack
      BY <1>3 DEF Install, Build, Pack, signVars
<1>4. CASE Inspect
      BY <1>4 DEF Inspect, Metadata, signVars
<1>5. CASE Finalize
      BY <1>5 DEF Finalize, Metadata, signVars
<1>6. CASE RecordOutputs
      BY <1>6 DEF RecordOutputs, signVars
<1>7. CASE UploadTarball \/ UploadMetadata \/ UploadBundle
      BY <1>7 DEF UploadTarball, UploadMetadata, UploadBundle, buildVars, signVars
<1>8. CASE DownloadForSigning \/ DownloadForPublish
      BY <1>8 DEF DownloadForSigning, DownloadForPublish, buildVars, signVars
<1>9. CASE VerifyForSigning
  <2> DEFINE m == Payload(input["metadata"])
  <2>1. m = metadata
        BY <1>9, VerifiedPayload, DigestInjective DEF VerifyForSigning
  <2>2. /\ statement'.sha256 = metadata.sha256 /\ statement'.sha512 = metadata.sha512
        /\ statement'.parameters = metadata.parameters
        /\ metadata.parameters.registry = outs.registry
        BY <1>9, <2>1 DEF VerifyForSigning
  <2> QED BY <1>9, <2>2 DEF VerifyForSigning, buildVars
<1>10. CASE Sign
      BY <1>10 DEF Sign, buildVars
<1>11. CASE VerifyForPublish
      BY <1>11 DEF VerifyForPublish, buildVars, signVars
<1>12. CASE PublishPrepared
  <2>1. /\ Payload(input["tarball"]) = packed /\ Payload(input["bundle"]) = bundle
        BY <1>12, DigestInjective DEF PublishPrepared
  <2>2. /\ published'.tarball = packed /\ published'.bundle = bundle
        /\ published'.registry = bundle.statement.parameters.registry
        /\ published'.tag = bundle.statement.parameters.tag
        /\ bundle.statement.parameters.registry = outs.registry
        BY <1>12, <2>1 DEF PublishPrepared
  <2> QED BY <1>12, <2>2 DEF PublishPrepared, buildVars, signVars
<1>13. CASE DaemonWrites
      BY <1>13 DEF DaemonWrites, signVars
<1>14. CASE BuildPackFails \/ StepFails
      BY <1>14 DEF BuildPackFails, StepFails, buildVars, signVars
<1>15. CASE UNCHANGED vars
      BY <1>15 DEF vars, buildVars, signVars
<1> QED BY <1>1, <1>2, <1>3, <1>4, <1>5, <1>6, <1>7, <1>8, <1>9, <1>10, <1>11, <1>12, <1>13,
           <1>14, <1>15 DEF Next, BuildJob, SignJob, PublishJob

\* ChainInv is inductive.
THEOREM ChainInvariance == Spec => []ChainInv
  BY InitChain, NextChain, PTL DEF Spec

\* The signed statement is about the inspected tarball, the final metadata and the registry
\* resolved before the build.
THEOREM SignedIsBuilt == Spec => []SignedAsBuilt
<1>1. ChainInv => SignedAsBuilt
      BY DEF ChainInv
<1> QED BY <1>1, ChainInvariance, PTL

\* What npm publishes is what was inspected, with the bundle that was signed.
THEOREM PublishedIsInspected == Spec => []PublishedAsInspected
<1>1. ChainInv => PublishedAsInspected
      BY DEF ChainInv
<1> QED BY <1>1, ChainInvariance, PTL

\* What npm publishes passed the content checks of the build.
THEOREM ContentsChecked == Spec => []OnlyCheckedContents
<1>1. ChainInv => OnlyCheckedContents
      BY DEF ChainInv
<1> QED BY <1>1, ChainInvariance, PTL
=============================================================================
