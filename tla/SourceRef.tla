----------------------------- MODULE SourceRef -----------------------------
(***************************************************************************)
(* The source of a release.  npm-profile-source-ref turns the caller's     *)
(* source-ref input into a ref and a commit before anything is checked     *)
(* out; the build checks the input again once it knows the version of the  *)
(* package.  Tags of the repository move as their owner likes: a tag is    *)
(* what it pointed to when somebody looked.                                *)
(***************************************************************************)
EXTENDS Integers, Sequences, FiniteSets

CONSTANTS
  Version,          \* the versions of the package
  Revision,         \* the commits of the caller's repository
  ManifestVersion,  \* the version the selected manifest has in each commit
  InputRefs,        \* what callers pass as source-ref
  InvocationRefs    \* the refs GitHub starts the workflow on

\* The words for what is no commit name none.
ASSUME SourceAssumption ==
  /\ ManifestVersion \in [Revision -> Version]
  /\ {"none", "missing", "malformed"} \cap Revision = {}

\* A ref as far as the checks can tell: a tag or a branch, the version a tag names, and
\* whether git takes it ("plain", or "dotted": a component other than the last ends in a
\* dot), git refuses it ("malformed"), or white space surrounds it ("padded").
Ref(kind, version, form) == [kind |-> kind, version |-> version, form |-> form]
VersionTag(v) == Ref("tag", v, "plain")
Omitted == Ref("omitted", "none", "plain")

validTagName(ref) == ref.form \in {"plain", "dotted"}
validFullGitRef(ref) == ref.form = "plain"
ValidateReleaseRef(ref) == ref.kind = "tag" /\ validTagName(ref)

\* GitHub starts a workflow on a branch or a tag.
ASSUME InvocationAssumption == \A ref \in InvocationRefs : ref.kind \in {"tag", "branch"}

\* The version is "unknown" before the checkout.
ValidateSourceRefInput(input, invocation, version) ==
  \/ input = Omitted
  \/ /\ input.form # "padded"
     /\ input.kind = "tag" /\ validTagName(input)
     /\ invocation.kind = "tag" => input = invocation
     /\ version # "unknown" => input = VersionTag(version)

VARIABLES
  stage,      \* how far the release has come
  trigger,    \* the source-ref input, and the ref and commit GitHub started it on
  source,     \* the built ref and revision, outputs of the step
  witnessed,  \* every ref and commit GitHub or git named together
  refusal     \* why the release stopped: a diagnostic, or "plain" for an error without one

sourceVars == <<stage, trigger, source, witnessed, refusal>>

At(ref, revision) == [ref |-> ref, revision |-> revision]
NoSource == At(Omitted, "none")

SourceInit ==
  /\ stage = "triggered"
  /\ trigger \in [input : InputRefs, ref : InvocationRefs, revision : Revision]
  /\ source = NoSource
  /\ witnessed = {At(trigger.ref, trigger.revision)}
  /\ refusal = "none"

Refuse(why) == stage' = "refused" /\ refusal' = why

\* Without an input, the source is what GitHub started the workflow on.
ObserveSource ==
  /\ stage = "triggered" /\ trigger.input = Omitted
  /\ source' = At(trigger.ref, trigger.revision)
  /\ stage' = "selecting"
  /\ UNCHANGED <<trigger, witnessed, refusal>>

\* The tag is fetched into a repository of its own and peeled to a commit.
ResolveSourceRefTag ==
  /\ stage = "triggered" /\ trigger.input # Omitted
  /\ ValidateSourceRefInput(trigger.input, trigger.ref, "unknown")
  /\ \E target \in Revision :
       /\ source' = At(trigger.input, target)
       /\ witnessed' = witnessed \cup {At(trigger.input, target)}
  /\ stage' = "selecting"
  /\ UNCHANGED <<trigger, refusal>>

\* The input is no tag, contradicts the tag of the invocation, or its tag is missing, out of
\* reach for 30 seconds, or no commit.
RefuseSourceRef ==
  /\ stage = "triggered" /\ trigger.input # Omitted
  /\ Refuse("source-ref-invalid")
  /\ UNCHANGED <<trigger, source, witnessed>>

PackageVersion == ManifestVersion[source.revision]

\* The build, once it knows the version of the package it was given.
CheckSourceRef ==
  /\ stage = "selecting"
  /\ IF ValidateSourceRefInput(trigger.input, trigger.ref, PackageVersion)
     THEN stage' = "building" /\ UNCHANGED refusal
     ELSE Refuse("source-ref-invalid")
  /\ UNCHANGED <<trigger, source, witnessed>>
=============================================================================
