------------------------- MODULE SignedSourceProofs -------------------------
(***************************************************************************)
(* A signed Statement names the tagged commit that was built, and the      *)
(* invocation that built it, for any number of commits, versions and refs. *)
(* Within a release the selection keeps its promises, and a release that   *)
(* is refused is refused for a cause.  The verifiers accept a bundle       *)
(* exactly if it is what they were to accept.                              *)
(***************************************************************************)
EXTENDS SignedSource, PackageSelectionProofs

\* From the source step on, the source is a ref and a commit named together: those of the
\* invocation, or the input's.
NamedTogether(s) ==
  /\ s = At(s.ref, s.revision) /\ s \in witnessed
  /\ IF trigger.input = Omitted THEN s = At(trigger.ref, trigger.revision)
     ELSE s.ref = trigger.input

\* What a record that was accepted says of it.
Recorded(parameters) ==
  /\ parameters.ref = source.ref /\ parameters.revision = source.revision
  /\ source.ref = VersionTag(ManifestVersion[source.revision])
  /\ SignedInvocation(parameters) = At(trigger.ref, trigger.revision)

Signing == {"signed", "presented", "judged"}

\* The inductive invariant: a source observed, then recorded, then signed; what is known of it
\* stays known.
SourceInv ==
  /\ stage = "triggered" => At(trigger.ref, trigger.revision) \in witnessed
  /\ stage \in {"selecting", "building", "built", "recorded"} \cup Signing => NamedTogether(source)
  /\ stage \in {"recorded"} \cup Signing => Recorded(record.source)
  /\ stage \in Signing => statement.record = record

LEMMA ReleaseInitSource == ReleaseInit => SourceInv
  BY DEF ReleaseInit, SourceInit, SourceInv, Signing

\* The finalization accepts a record only if its source is the version tag of the commit, and
\* its invocation the one that took place.
LEMMA FinalizedSource ==
  ASSUME NamedTogether(source), NEW m, NEW f, Finalizes(m, f)
  PROVE  Recorded(Record(m, f).source)
<1> DEFINE parameters == Record(m, f).source
<1>1. parameters = SourceParameters
      BY DEF Record
<1>2. /\ validateWorkflowRuntime(parameters, f.event)
      /\ validateSourceParameters(parameters, Record(m, f).package)
      BY DEF Finalizes, validateExternalParameters
<1>3. parameters.ref = VersionTag(PackageVersion)
      BY <1>2 DEF validateWorkflowRuntime
<1>4. CASE trigger.input = Omitted
  <2>1. /\ parameters.ref = source.ref /\ parameters.revision = source.revision
        /\ parameters.invocation = NoSource
        BY <1>1, <1>4 DEF SourceParameters
  <2>2. SignedInvocation(parameters) = At(source.ref, source.revision)
        BY <2>1 DEF SignedInvocation
  <2> QED BY <1>3, <1>4, <2>1, <2>2 DEF Recorded, NamedTogether, PackageVersion
<1>5. CASE trigger.input # Omitted
  <2>1. /\ parameters.ref = source.ref /\ parameters.revision = source.revision
        /\ parameters.input = trigger.input
        /\ parameters.invocation = At(trigger.ref, trigger.revision)
        BY <1>1, <1>5 DEF SourceParameters, NamedTogether
  <2>2. parameters.invocation # NoSource
        BY <1>2, <1>5, <2>1 DEF validateSourceParameters
  <2>3. SignedInvocation(parameters) = At(trigger.ref, trigger.revision)
        BY <2>1, <2>2 DEF SignedInvocation
  <2> QED BY <1>3, <2>1, <2>3 DEF Recorded, PackageVersion
<1> QED BY <1>4, <1>5

\* A step that leaves the source alone and does not reach a new stage.
LEMMA SourceKept ==
  ASSUME SourceInv, UNCHANGED <<trigger, source, witnessed, record, statement>>,
         stage' = stage \/ stage' = "refused" \/ (stage = "selecting" /\ stage' = "building")
           \/ (stage = "building" /\ stage' = "built") \/ (stage \in Signing /\ stage' \in Signing)
  PROVE  SourceInv'
  BY DEF SourceInv, NamedTogether, Recorded, SignedInvocation, Signing

LEMMA ReleaseNextSource == SourceInv /\ [ReleaseNext]_releaseVars => SourceInv'
<1> SUFFICES ASSUME SourceInv, [ReleaseNext]_releaseVars PROVE SourceInv'
    OBVIOUS
<1>1. CASE SourceRefStep
  <2>0. UNCHANGED <<record, statement>>
        BY <1>1 DEF SourceRefStep, recordVars
  <2>1. CASE ObserveSource
        BY <2>0, <2>1 DEF ObserveSource, SourceInv, NamedTogether, At, Signing
  <2>2. CASE ResolveSourceRefTag
        BY <2>0, <2>2 DEF ResolveSourceRefTag, SourceInv, NamedTogether, At, Signing
  <2>3. CASE RefuseSourceRef
        BY <2>0, <2>3, SourceKept DEF RefuseSourceRef, Refuse
  <2> QED BY <1>1, <2>1, <2>2, <2>3 DEF SourceRefStep
<1>2. CASE Analyze
      BY <1>2, SourceKept DEF Analyze, sourceVars, recordVars
<1>3. CASE SelectionRefused
      BY <1>3, SourceKept DEF SelectionRefused, Refuse, recordVars
<1>4. CASE CheckInput
      BY <1>4, SourceKept DEF CheckInput, CheckSourceRef, Refuse, recordVars
<1>5. CASE CompareNpm
      BY <1>5, SourceKept DEF CompareNpm, sourceVars, recordVars
<1>6. CASE BuildPackReturns
      BY <1>6, SourceKept DEF BuildPackReturns, Refuse
<1>7. CASE Finalize
  <2>1. UNCHANGED <<trigger, source, witnessed, statement>> /\ stage = "built"
        BY <1>7 DEF Finalize
  <2>2. NamedTogether(source) /\ NamedTogether(source)'
        BY <2>1 DEF SourceInv, NamedTogether
  <2>3. \/ stage' = "refused"
        \/ \E f : Finalizes(manager, f) /\ stage' = "recorded" /\ record' = Record(manager, f)
        BY <1>7 DEF Finalize, Refuse
  <2>4. CASE stage' = "refused"
        BY <2>4 DEF SourceInv, Signing
  <2>5. ASSUME NEW f, Finalizes(manager, f), stage' = "recorded", record' = Record(manager, f)
        PROVE  SourceInv'
    <3>1. Recorded(record'.source)
          BY <2>2, <2>5, FinalizedSource
    <3>2. Recorded(record.source)'
          BY <2>1, <3>1 DEF Recorded, SignedInvocation
    <3> QED BY <2>2, <2>5, <3>2 DEF SourceInv, Signing
  <2> QED BY <2>3, <2>4, <2>5
<1>8. CASE Sign
  <2>1. UNCHANGED <<trigger, source, witnessed, record>> /\ stage = "recorded"
        BY <1>8 DEF Sign
  <2>2. stage' = "refused" \/ (stage' = "signed" /\ statement' = Statement)
        BY <1>8 DEF Sign, Refuse
  <2>3. NamedTogether(source)' /\ Recorded(record.source)'
        BY <2>1 DEF SourceInv, NamedTogether, Recorded, SignedInvocation
  <2> QED BY <2>1, <2>2, <2>3 DEF SourceInv, Signing, Statement
<1>9. CASE Present
      BY <1>9, SourceKept DEF Present, recordVars, Signing
<1>10. CASE GoesAmiss
      BY <1>10, SourceKept DEF GoesAmiss, sourceVars, recordVars
<1>11. CASE Judge
      BY <1>11, SourceKept DEF Judge, recordVars, Signing
<1>12. CASE UNCHANGED releaseVars
      BY <1>12, SourceKept DEF releaseVars, sourceVars, recordVars
<1> QED BY <1>1, <1>2, <1>3, <1>4, <1>5, <1>6, <1>7, <1>8, <1>9, <1>10, <1>11, <1>12 DEF ReleaseNext

LEMMA SourceIsTagged == SourceInv => SignedSourceWasTagged
<1> SUFFICES ASSUME SourceInv, stage \in Signing PROVE SignedSourceWasTagged
    BY DEF SignedSourceWasTagged, Signing
<1>1. /\ NamedTogether(source) /\ Recorded(statement.record.source)
      BY DEF SourceInv
<1> QED BY <1>1 DEF SignedSourceWasTagged, NamedTogether, Recorded

\* Whatever becomes of the tags and however the jobs are interleaved with their moves, a signed
\* Statement names the version tag of the commit that was checked out and built, a tag somebody
\* saw at that commit, and the invocation that took place.
THEOREM SignedSourceIsTagged == ReleaseSpec => []SignedSourceWasTagged
<1>1. ReleaseSpec => []SourceInv
      BY ReleaseInitSource, ReleaseNextSource, PTL DEF ReleaseSpec
<1> QED BY <1>1, SourceIsTagged, PTL

-----------------------------------------------------------------------------
(* The selection, as a part of the release.                                *)

\* What the proofs about the selection need of it, on its own or within a release.
SelectionKnown == WalkInv /\ SelectionInv /\ WarningInv

LEMMA InitKnown == ReleaseInit => SelectionKnown
  BY InitWalk, InitSelection, InitWarning DEF ReleaseInit, SelectionKnown

\* The end of the build forgets the selection; every other step is one of the selection or
\* leaves it alone.
LEMMA NextKnown == SelectionKnown /\ [ReleaseNext]_releaseVars => SelectionKnown'
<1> SUFFICES ASSUME SelectionKnown, [ReleaseNext]_releaseVars PROVE SelectionKnown'
    OBVIOUS
<1>1. [Next]_vars => SelectionKnown'
      BY NextWalk, NextSelection, NextWarning DEF SelectionKnown
<1>2. CASE Analyze \/ CompareNpm
      BY <1>1, <1>2 DEF Analyze, CompareNpm, Next
<1>3. CASE BuildPackReturns
  <2>1. /\ pc = "compared" /\ pc' = "packed"
        /\ UNCHANGED <<metadata, candidate>> /\ warned' = "no"
        /\ fields' = [f \in Fields |-> Absent]
        BY <1>3 DEF BuildPackReturns
  <2>2. WalkInv'
        BY <2>1, WalkKept DEF SelectionKnown
  <2>3. fields' \in [Fields -> Descriptors \cup {Absent}]
        BY <2>1
  <2>4. SelectionInv'
        BY <2>1, <2>3 DEF SelectionInv, SelectionFollowsMatrix
  <2>5. WarningInv'
        BY <2>1 DEF WarningInv, WarningMade
  <2> QED BY <2>2, <2>4, <2>5 DEF SelectionKnown
<1>4. CASE SourceRefStep \/ SelectionRefused \/ CheckInput \/ Finalize \/ Sign \/ Present
           \/ GoesAmiss \/ Judge
      BY <1>1, <1>4 DEF SourceRefStep, SelectionRefused, CheckInput, Finalize, Sign, Present,
         GoesAmiss, Judge
<1>5. CASE UNCHANGED releaseVars
      BY <1>1, <1>5 DEF releaseVars
<1> QED BY <1>2, <1>3, <1>4, <1>5 DEF ReleaseNext

\* Within a release, with the source step before it and the sign job behind it, the selection
\* keeps its promises: the nearest claiming root, the decision matrix, the right warning.
THEOREM ReleaseSelects ==
  ReleaseSpec => [](NearestClaimingRoot /\ SelectionFollowsMatrix /\ WarningIsRight)
<1>1. ReleaseSpec => []SelectionKnown
      BY InitKnown, NextKnown, PTL DEF ReleaseSpec
<1>2. SelectionKnown => NearestClaimingRoot /\ SelectionFollowsMatrix /\ WarningIsRight
      BY MadeIsRight DEF SelectionKnown, WalkInv, SelectionInv
<1> QED BY <1>1, <1>2, PTL

-----------------------------------------------------------------------------
(* Lists of checks.                                                        *)

\* A sequence of something.
IsList(s) == \E S : s \in Seq(S)

\* What a list of two parts holds.
LEMMA ListOfParts ==
  ASSUME NEW s, NEW t, IsList(s), IsList(t)
  PROVE  IsList(s \o t) /\ Range(s \o t) = Range(s) \cup Range(t)
<1>1. PICK S : s \in Seq(S)
      BY DEF IsList
<1>2. PICK T : t \in Seq(T)
      BY DEF IsList
<1>3. s \in Seq(S \cup T) /\ t \in Seq(S \cup T)
      BY <1>1, <1>2
<1>4. /\ s \o t \in Seq(S \cup T) /\ Len(s \o t) = Len(s) + Len(t)
      /\ Len(s) \in Nat /\ Len(t) \in Nat
      /\ DOMAIN s = 1 .. Len(s) /\ DOMAIN t = 1 .. Len(t) /\ DOMAIN (s \o t) = 1 .. Len(s) + Len(t)
      BY <1>3
<1>5. \A i \in 1 .. Len(s) + Len(t) :
        (s \o t)[i] = IF i <= Len(s) THEN s[i] ELSE t[i - Len(s)]
      BY <1>3, <1>4
<1>6. ASSUME NEW c \in Range(s \o t)
      PROVE  c \in Range(s) \cup Range(t)
  <2>1. PICK i \in 1 .. Len(s) + Len(t) : c = (s \o t)[i]
        BY <1>4, <1>6 DEF Range
  <2>2. CASE i <= Len(s)
        BY <1>4, <1>5, <2>1, <2>2 DEF Range
  <2>3. CASE i > Len(s)
    <3>1. i - Len(s) \in 1 .. Len(t) /\ c = t[i - Len(s)]
          BY <1>4, <1>5, <2>1, <2>3
    <3> QED BY <1>4, <3>1 DEF Range
  <2> QED BY <1>4, <2>2, <2>3
<1>7. ASSUME NEW c \in Range(s)
      PROVE  c \in Range(s \o t)
  <2>1. PICK i \in 1 .. Len(s) : c = s[i]
        BY <1>4, <1>7 DEF Range
  <2>2. i \in 1 .. Len(s) + Len(t) /\ c = (s \o t)[i]
        BY <1>4, <1>5, <2>1
  <2> QED BY <1>4, <2>2 DEF Range
<1>8. ASSUME NEW c \in Range(t)
      PROVE  c \in Range(s \o t)
  <2>1. PICK i \in 1 .. Len(t) : c = t[i]
        BY <1>4, <1>8 DEF Range
  <2>2. Len(s) + i \in 1 .. Len(s) + Len(t) /\ ~(Len(s) + i <= Len(s)) /\ (Len(s) + i) - Len(s) = i
        BY <1>4
  <2>3. c = (s \o t)[Len(s) + i]
        BY <1>5, <2>1, <2>2
  <2> QED BY <1>4, <2>2, <2>3 DEF Range
<1> QED BY <1>4, <1>6, <1>7, <1>8 DEF IsList

\* What a list of one, written out, holds.
LEMMA ListOfOne ==
  ASSUME NEW a
  PROVE  IsList(<<a>>) /\ Range(<<a>>) = {a}
<1> DEFINE list == <<a>>
<1>1. list \in Seq({a}) /\ DOMAIN list = {1}
      OBVIOUS
<1>2. list[1] = a
      OBVIOUS
<1> HIDE DEF list
<1>3. IsList(list) /\ Range(list) = {a}
      BY <1>1, <1>2 DEF IsList, Range
<1> QED BY <1>3 DEF list

\* The same of a list of two.
LEMMA ListOfTwo ==
  ASSUME NEW a, NEW b
  PROVE  IsList(<<a, b>>) /\ Range(<<a, b>>) = {a, b}
<1> DEFINE list == <<a, b>>
<1>1. list \in Seq({a, b}) /\ DOMAIN list = {1, 2}
      OBVIOUS
<1>2. list[1] = a /\ list[2] = b
      OBVIOUS
<1> HIDE DEF list
<1>3. IsList(list) /\ Range(list) = {a, b}
      BY <1>1, <1>2 DEF IsList, Range
<1> QED BY <1>3 DEF list

\* The same of a list of four.
LEMMA ListOfFour ==
  ASSUME NEW a, NEW b, NEW c, NEW d
  PROVE  IsList(<<a, b, c, d>>) /\ Range(<<a, b, c, d>>) = {a, b, c, d}
<1> DEFINE list == <<a, b, c, d>>
<1>1. list \in Seq({a, b, c, d}) /\ DOMAIN list = {1, 2, 3, 4}
      OBVIOUS
<1>2. list[1] = a /\ list[2] = b /\ list[3] = c /\ list[4] = d
      OBVIOUS
<1> HIDE DEF list
<1>3. IsList(list) /\ Range(list) = {a, b, c, d}
      BY <1>1, <1>2 DEF IsList, Range
<1> QED BY <1>3 DEF list

\* The same of a list of five.
LEMMA ListOfFive ==
  ASSUME NEW a, NEW b, NEW c, NEW d, NEW e
  PROVE  IsList(<<a, b, c, d, e>>) /\ Range(<<a, b, c, d, e>>) = {a, b, c, d, e}
<1> DEFINE list == <<a, b, c, d, e>>
<1>1. list \in Seq({a, b, c, d, e}) /\ DOMAIN list = {1, 2, 3, 4, 5}
      OBVIOUS
<1>2. list[1] = a /\ list[2] = b /\ list[3] = c /\ list[4] = d /\ list[5] = e
      OBVIOUS
<1> HIDE DEF list
<1>3. IsList(list) /\ Range(list) = {a, b, c, d, e}
      BY <1>1, <1>2 DEF IsList, Range
<1> QED BY <1>3 DEF list

\* The same of a list of eight.
LEMMA ListOfEight ==
  ASSUME NEW a, NEW b, NEW c, NEW d, NEW e, NEW f, NEW g, NEW h
  PROVE  /\ IsList(<<a, b, c, d, e, f, g, h>>)
         /\ Range(<<a, b, c, d, e, f, g, h>>) = {a, b, c, d, e, f, g, h}
<1> DEFINE list == <<a, b, c, d, e, f, g, h>>
<1>1. list \in Seq({a, b, c, d, e, f, g, h}) /\ DOMAIN list = {1, 2, 3, 4, 5, 6, 7, 8}
      OBVIOUS
<1>2. /\ list[1] = a /\ list[2] = b /\ list[3] = c /\ list[4] = d /\ list[5] = e /\ list[6] = f
      /\ list[7] = g /\ list[8] = h
      OBVIOUS
<1> HIDE DEF list
<1>3. IsList(list) /\ Range(list) = {a, b, c, d, e, f, g, h}
      BY <1>1, <1>2 DEF IsList, Range
<1> QED BY <1>3 DEF list

\* A verdict is that of a check that failed, unless all succeed.
LEMMA VerdictMeaning ==
  ASSUME NEW checks, IsList(checks)
  PROVE  \/ (\A c \in Range(checks) : c.ok) /\ Verdict(checks) = Passed
         \/ \E c \in Range(checks) : ~c.ok /\ Verdict(checks) = [id |-> c.id, exit |-> c.exit]
<1> DEFINE failed == {i \in DOMAIN checks : ~checks[i].ok}
<1>1. PICK S : checks \in Seq(S)
      BY DEF IsList
<1>2. failed \in SUBSET Nat
      BY <1>1
<1>3. CASE failed = {}
  <2>1. Verdict(checks) = Passed
        BY <1>3 DEF Verdict
  <2>2. \A c \in Range(checks) : c.ok
        BY <1>3 DEF Range
  <2> QED BY <2>1, <2>2
<1>4. CASE failed # {}
  <2>1. Min(failed) \in failed
    <3> HIDE DEF failed
    <3>1. \E x \in failed : \A y \in failed : x <= y
          BY <1>2, <1>4, Least
    <3> QED BY <3>1 DEF Min
  <2>2. Verdict(checks) = [id |-> checks[Min(failed)].id, exit |-> checks[Min(failed)].exit]
        BY <1>4 DEF Verdict
  <2>3. checks[Min(failed)] \in Range(checks) /\ ~checks[Min(failed)].ok
        BY <2>1 DEF Range
  <2> QED BY <2>2, <2>3
<1> QED BY <1>3, <1>4


\* All checks of a list succeed.
AllOk(s) == \A c \in Range(s) : c.ok

\* A list of checks each of which, if it fails, says that something seen is wrong.
Refusals(s) == IsList(s) /\ \A c \in Range(s) : c.exit = 1 /\ Report(c.id).exit = 1

\* Lists of checks put one behind the other.
LEMMA BothLists ==
  ASSUME NEW s, NEW t, Refusals(s), Refusals(t)
  PROVE  Refusals(s \o t) /\ (AllOk(s \o t) <=> AllOk(s) /\ AllOk(t))
<1>1. IsList(s \o t) /\ Range(s \o t) = Range(s) \cup Range(t)
      BY ListOfParts DEF Refusals
<1> QED BY <1>1 DEF Refusals, AllOk

\* A diagnostic of the exit status 1.
Refusing(id) == Report(id).exit = 1 /\ ExitCode(id) = 1

\* The diagnostics the verifiers report, none of them in either list of the registry.
LEMMA RefusingIds ==
  \A id \in {"policy-schema-invalid", "duplicate-json-member", "signature-invalid",
             "legacy-trust-root-override", "ungoverned-trust-root", "stale-pinned-trust-root",
             "missing-rekor-entry", "signature-time-violation", "missing-sct",
             "signature-mismatch", "signer-identity-untrusted", "statement-assembly-mismatch",
             "source-identity-mismatch", "source-ref-mismatch", "source-digest-mismatch",
             "run-invocation-uri-invalid", "source-numeric-id-mismatch", "plain",
             "issuer-mismatch", "signer-workflow-path-mismatch", "signer-workflow-sha-mismatch",
             "self-hosted-runner", "signer-identity-claim-missing"} : Refusing(id)
  BY DEF Refusing, Report, ExitCode, Warnings, InvocationFailures

\* A list of one check.
LEMMA OneCheck ==
  ASSUME NEW c, c.exit = 1, Report(c.id).exit = 1
  PROVE  Refusals(<<c>>) /\ (AllOk(<<c>>) <=> c.ok)
<1>1. IsList(<<c>>) /\ Range(<<c>>) = {c}
      BY ListOfOne
<1> QED BY <1>1 DEF Refusals, AllOk

\* ParseBundle accepts what is neither malformed nor has a member twice.
LEMMA BundleChecks ==
  ASSUME NEW file
  PROVE  /\ Refusals(ParseBundle(file))
         /\ AllOk(ParseBundle(file)) <=> file # "duplicate" /\ file # "malformed"
<1> DEFINE a == Typed(file # "duplicate", "duplicate-json-member")
           b == Typed(file # "malformed", "signature-invalid")
<1>1. Refusing("duplicate-json-member") /\ Refusing("signature-invalid")
      BY RefusingIds
<1>2. /\ a.ok <=> file # "duplicate"
      /\ a.exit = 1 /\ Report(a.id).exit = 1
      BY <1>1 DEF Typed, Check, Refusing
<1>3. /\ b.ok <=> file # "malformed"
      /\ b.exit = 1 /\ Report(b.id).exit = 1
      BY <1>1 DEF Typed, Check, Refusing
<1>4. ParseBundle(file) = <<a, b>>
      BY DEF ParseBundle
<1> HIDE DEF a, b
<1>5. IsList(<<a, b>>) /\ Range(<<a, b>>) = {a, b}
      BY ListOfTwo
<1> QED BY <1>2, <1>3, <1>4, <1>5 DEF Refusals, AllOk

\* acquireTrustedMaterial accepts a root that can be had and is in force.
LEMMA RootChecks ==
  ASSUME NEW r
  PROVE  /\ Refusals(acquireTrustedMaterial(r))
         /\ AllOk(acquireTrustedMaterial(r))
              <=> r \notin {"tuf_unreachable", "pinned_wrong", "pinned_stale"}
<1> DEFINE a == Typed(r \notin {"tuf_unreachable", "pinned_wrong"}, "ungoverned-trust-root")
           b == Typed(r # "pinned_stale", "stale-pinned-trust-root")
<1>1. Refusing("ungoverned-trust-root") /\ Refusing("stale-pinned-trust-root")
      BY RefusingIds
<1>2. /\ a.ok <=> r \notin {"tuf_unreachable", "pinned_wrong"}
      /\ a.exit = 1 /\ Report(a.id).exit = 1
      BY <1>1 DEF Typed, Check, Refusing
<1>3. /\ b.ok <=> r # "pinned_stale"
      /\ b.exit = 1 /\ Report(b.id).exit = 1
      BY <1>1 DEF Typed, Check, Refusing
<1>4. acquireTrustedMaterial(r) = <<a, b>>
      BY DEF acquireTrustedMaterial
<1> HIDE DEF a, b
<1>5. IsList(<<a, b>>) /\ Range(<<a, b>>) = {a, b}
      BY ListOfTwo
<1>6. Refusals(acquireTrustedMaterial(r)) /\ (AllOk(acquireTrustedMaterial(r)) <=> a.ok /\ b.ok)
      BY <1>2, <1>3, <1>4, <1>5 DEF Refusals, AllOk
<1> QED BY <1>2, <1>3, <1>6

\* The evidence in the bundle holds, and its certificate is of the signer and issuer expected.
LEMMA EvidenceChecks ==
  ASSUME NEW evidence, NEW certificate, NEW identity
  PROVE  /\ Refusals(Evidence(evidence, certificate, identity))
         /\ AllOk(Evidence(evidence, certificate, identity))
              <=> /\ evidence \notin {"no_rekor", "late", "no_sct", "bad_signature"}
                  /\ certificate.san = identity.signer /\ certificate.issuer = identity.issuer
<1> DEFINE a == Typed(evidence # "no_rekor", "missing-rekor-entry")
           b == Typed(evidence # "late", "signature-time-violation")
           c == Typed(evidence # "no_sct", "missing-sct")
           d == Typed(evidence # "bad_signature", "signature-mismatch")
           e == Typed(certificate.san = identity.signer /\ certificate.issuer = identity.issuer,
                      "signer-identity-untrusted")
<1>1. /\ Refusing("missing-rekor-entry") /\ Refusing("signature-time-violation")
      /\ Refusing("missing-sct") /\ Refusing("signature-mismatch")
      /\ Refusing("signer-identity-untrusted")
      BY RefusingIds
<1>2. (a.ok <=> evidence # "no_rekor") /\ a.exit = 1 /\ Report(a.id).exit = 1
      BY <1>1 DEF Typed, Check, Refusing
<1>3. (b.ok <=> evidence # "late") /\ b.exit = 1 /\ Report(b.id).exit = 1
      BY <1>1 DEF Typed, Check, Refusing
<1>4. (c.ok <=> evidence # "no_sct") /\ c.exit = 1 /\ Report(c.id).exit = 1
      BY <1>1 DEF Typed, Check, Refusing
<1>5. (d.ok <=> evidence # "bad_signature") /\ d.exit = 1 /\ Report(d.id).exit = 1
      BY <1>1 DEF Typed, Check, Refusing
<1>6. /\ e.ok <=> certificate.san = identity.signer /\ certificate.issuer = identity.issuer
      /\ e.exit = 1 /\ Report(e.id).exit = 1
      BY <1>1 DEF Typed, Check, Refusing
<1>7. Evidence(evidence, certificate, identity) = <<a, b, c, d, e>>
      BY DEF Evidence
<1> HIDE DEF a, b, c, d, e
<1>8. IsList(<<a, b, c, d, e>>) /\ Range(<<a, b, c, d, e>>) = {a, b, c, d, e}
      BY ListOfFive
<1>9. /\ Refusals(Evidence(evidence, certificate, identity))
      /\ AllOk(Evidence(evidence, certificate, identity)) <=> a.ok /\ b.ok /\ c.ok /\ d.ok /\ e.ok
      BY <1>2, <1>3, <1>4, <1>5, <1>6, <1>7, <1>8 DEF Refusals, AllOk
<1> QED BY <1>2, <1>3, <1>4, <1>5, <1>6, <1>9

\* verifyIdentity compares every claim, and reports one that is missing as missing.
LEMMA IdentityChecks ==
  ASSUME NEW certificate, NEW identity
  PROVE  /\ Refusals(verifyIdentity(certificate, identity))
         /\ AllOk(verifyIdentity(certificate, identity))
              <=> /\ certificate.san = identity.signer
                  /\ \A claim \in Range(ClaimOrder) : certificate[claim] = identity[claim]
<1> DEFINE signer == <<Typed(certificate.san = identity.signer, Mismatch.signer)>>
           id(claim) == IF ClaimMissing(certificate, claim) THEN "signer-identity-claim-missing"
                        ELSE Mismatch[claim]
           check(claim) == Typed(certificate[claim] = identity[claim], id(claim))
           claims == [i \in DOMAIN ClaimOrder |-> check(ClaimOrder[i])]
<1>1. verifyIdentity(certificate, identity) = signer \o claims
      BY DEF verifyIdentity
<1>2. Refusals(signer) /\ (AllOk(signer) <=> certificate.san = identity.signer)
  <2> DEFINE c == Typed(certificate.san = identity.signer, Mismatch.signer)
  <2>1. Refusing(Mismatch.signer)
        BY RefusingIds DEF Mismatch
  <2>2. /\ c.ok <=> certificate.san = identity.signer
        /\ c.exit = 1 /\ Report(c.id).exit = 1
        BY <2>1 DEF Typed, Check, Refusing
  <2>3. signer = <<c>>
        OBVIOUS
  <2> HIDE DEF c, signer
  <2> QED BY <2>2, <2>3, OneCheck
<1>3. DOMAIN ClaimOrder = 1 .. 10
      BY DEF ClaimOrder
<1>4. \A claim \in Range(ClaimOrder) :
        claim \in {"issuer", "signer", "workflowSHA", "runner", "repository", "digest", "ref",
                   "repositoryID", "ownerID", "run"}
      BY <1>3 DEF ClaimOrder, Range
<1>5. \A claim \in Range(ClaimOrder) : Refusing(Mismatch[claim])
      BY <1>4, RefusingIds DEF Mismatch
<1>6. \A claim \in Range(ClaimOrder) : Refusing(id(claim))
      BY <1>5, RefusingIds
<1>7. \A claim \in Range(ClaimOrder) :
        /\ check(claim).ok <=> certificate[claim] = identity[claim]
        /\ check(claim).exit = 1 /\ Report(check(claim).id).exit = 1
  <2> SUFFICES ASSUME NEW claim \in Range(ClaimOrder)
               PROVE  /\ check(claim).ok <=> certificate[claim] = identity[claim]
                      /\ check(claim).exit = 1 /\ Report(check(claim).id).exit = 1
      OBVIOUS
  <2>1. Refusing(id(claim))
        BY <1>6
  <2> HIDE DEF id
  <2> QED BY <2>1 DEF Typed, Check, Refusing
<1> HIDE DEF check
<1>8. claims \in Seq({check(claim) : claim \in Range(ClaimOrder)})
      BY <1>3 DEF Range
<1>9. Range(claims) = {check(claim) : claim \in Range(ClaimOrder)}
      BY DEF Range
<1>10. /\ Refusals(claims)
       /\ AllOk(claims) <=> \A claim \in Range(ClaimOrder) : certificate[claim] = identity[claim]
  <2> HIDE DEF claims
  <2> QED BY <1>7, <1>8, <1>9 DEF Refusals, AllOk, IsList
<1> HIDE DEF signer, claims
<1> QED BY <1>1, <1>2, <1>10, BothLists

\* What attestation.Verify asks for.
Verifies(r, identity) ==
  /\ validateIdentityExpectation(identity)
  /\ r.bundle # "duplicate" /\ r.bundle # "malformed"
  /\ r.override = "none"
  /\ r.root \notin {"tuf_unreachable", "pinned_wrong", "pinned_stale"}
  /\ r.evidence \notin {"no_rekor", "late", "no_sct", "bad_signature"}
  /\ r.certificate.san = identity.signer /\ r.certificate.issuer = identity.issuer
  /\ \A claim \in Range(ClaimOrder) : r.certificate[claim] = identity[claim]

\* Verify asks for all of it, and that the Statement is the one it is given.
LEMMA VerifyChecks ==
  ASSUME NEW r, NEW identity, NEW same
  PROVE  /\ Refusals(Verify(r, identity, same))
         /\ AllOk(Verify(r, identity, same)) <=> Verifies(r, identity) /\ same
<1> DEFINE s1 == <<Typed(validateIdentityExpectation(identity), "policy-schema-invalid")>>
           s2 == ParseBundle(r.bundle)
           s3 == <<Typed(r.override = "none", "legacy-trust-root-override")>>
           s4 == acquireTrustedMaterial(r.root)
           s5 == Evidence(r.evidence, r.certificate, identity)
           s6 == verifyIdentity(r.certificate, identity)
           s7 == <<Typed(same, "statement-assembly-mismatch")>>
<1>0. /\ Refusing("policy-schema-invalid") /\ Refusing("legacy-trust-root-override")
      /\ Refusing("statement-assembly-mismatch")
      BY RefusingIds
<1>1. Refusals(s1) /\ (AllOk(s1) <=> validateIdentityExpectation(identity))
  <2> DEFINE c == Typed(validateIdentityExpectation(identity), "policy-schema-invalid")
  <2>1. (c.ok <=> validateIdentityExpectation(identity)) /\ c.exit = 1 /\ Report(c.id).exit = 1
        BY <1>0 DEF Typed, Check, Refusing
  <2>2. s1 = <<c>>
        OBVIOUS
  <2> HIDE DEF c, s1
  <2> QED BY <2>1, <2>2, OneCheck
<1>2. Refusals(s2) /\ (AllOk(s2) <=> r.bundle # "duplicate" /\ r.bundle # "malformed")
      BY BundleChecks
<1>3. Refusals(s3) /\ (AllOk(s3) <=> r.override = "none")
  <2> DEFINE c == Typed(r.override = "none", "legacy-trust-root-override")
  <2>1. (c.ok <=> r.override = "none") /\ c.exit = 1 /\ Report(c.id).exit = 1
        BY <1>0 DEF Typed, Check, Refusing
  <2>2. s3 = <<c>>
        OBVIOUS
  <2> HIDE DEF c, s3
  <2> QED BY <2>1, <2>2, OneCheck
<1>4. /\ Refusals(s4)
      /\ AllOk(s4) <=> r.root \notin {"tuf_unreachable", "pinned_wrong", "pinned_stale"}
      BY RootChecks
<1>5. /\ Refusals(s5)
      /\ AllOk(s5) <=> /\ r.evidence \notin {"no_rekor", "late", "no_sct", "bad_signature"}
                       /\ r.certificate.san = identity.signer
                       /\ r.certificate.issuer = identity.issuer
      BY EvidenceChecks
<1>6. /\ Refusals(s6)
      /\ AllOk(s6) <=> /\ r.certificate.san = identity.signer
                       /\ \A claim \in Range(ClaimOrder) : r.certificate[claim] = identity[claim]
      BY IdentityChecks
<1>7. Refusals(s7) /\ (AllOk(s7) <=> same)
  <2> DEFINE c == Typed(same, "statement-assembly-mismatch")
  <2>1. (c.ok <=> same) /\ c.exit = 1 /\ Report(c.id).exit = 1
        BY <1>0 DEF Typed, Check, Refusing
  <2>2. s7 = <<c>>
        OBVIOUS
  <2> HIDE DEF c, s7
  <2> QED BY <2>1, <2>2, OneCheck
<1>8. Verify(r, identity, same) = s1 \o s2 \o s3 \o s4 \o s5 \o s6 \o s7
      BY DEF Verify
<1> HIDE DEF s1, s2, s3, s4, s5, s6, s7
<1>9. Refusals(s1 \o s2) /\ (AllOk(s1 \o s2) <=> AllOk(s1) /\ AllOk(s2))
      BY <1>1, <1>2, BothLists
<1>10. /\ Refusals(s1 \o s2 \o s3)
       /\ AllOk(s1 \o s2 \o s3) <=> AllOk(s1 \o s2) /\ AllOk(s3)
       BY <1>3, <1>9, BothLists
<1>11. /\ Refusals(s1 \o s2 \o s3 \o s4)
       /\ AllOk(s1 \o s2 \o s3 \o s4) <=> AllOk(s1 \o s2 \o s3) /\ AllOk(s4)
       BY <1>4, <1>10, BothLists
<1>12. /\ Refusals(s1 \o s2 \o s3 \o s4 \o s5)
       /\ AllOk(s1 \o s2 \o s3 \o s4 \o s5) <=> AllOk(s1 \o s2 \o s3 \o s4) /\ AllOk(s5)
       BY <1>5, <1>11, BothLists
<1>13. /\ Refusals(s1 \o s2 \o s3 \o s4 \o s5 \o s6)
       /\ AllOk(s1 \o s2 \o s3 \o s4 \o s5 \o s6) <=> AllOk(s1 \o s2 \o s3 \o s4 \o s5) /\ AllOk(s6)
       BY <1>6, <1>12, BothLists
<1>14. /\ Refusals(s1 \o s2 \o s3 \o s4 \o s5 \o s6 \o s7)
       /\ AllOk(s1 \o s2 \o s3 \o s4 \o s5 \o s6 \o s7)
            <=> AllOk(s1 \o s2 \o s3 \o s4 \o s5 \o s6) /\ AllOk(s7)
       BY <1>7, <1>13, BothLists
<1>15. AllOk(Verify(r, identity, same))
         <=> /\ AllOk(s1) /\ AllOk(s2) /\ AllOk(s3) /\ AllOk(s4) /\ AllOk(s5) /\ AllOk(s6)
             /\ AllOk(s7)
       BY <1>8, <1>9, <1>10, <1>11, <1>12, <1>13, <1>14
<1>16. Refusals(Verify(r, identity, same))
       BY <1>8, <1>14
<1> QED BY <1>1, <1>2, <1>3, <1>4, <1>5, <1>6, <1>7, <1>15, <1>16, Zenon DEF Verifies

\* What identityForStatement asks of a Statement.
StatedFor(signed, config) ==
  /\ signed.repository = config.repository
  /\ SignedInvocation(signed.record.source).ref = config.ref
  /\ SignedInvocation(signed.record.source).revision = config.digest
  /\ ParseRunInvocationURI(signed.run, config.repository)

\* It asks for nothing else.
LEMMA StatementChecks ==
  ASSUME NEW signed, NEW config
  PROVE  /\ Refusals(identityForStatement(signed, config))
         /\ AllOk(identityForStatement(signed, config)) <=> StatedFor(signed, config)
<1> DEFINE a == Typed(signed.repository = config.repository, "source-identity-mismatch")
           b == Typed(SignedInvocation(signed.record.source).ref = config.ref,
                      "source-ref-mismatch")
           c == Typed(SignedInvocation(signed.record.source).revision = config.digest,
                      "source-digest-mismatch")
           d == Typed(ParseRunInvocationURI(signed.run, config.repository),
                      "run-invocation-uri-invalid")
<1>1. /\ Refusing("source-identity-mismatch") /\ Refusing("source-ref-mismatch")
      /\ Refusing("source-digest-mismatch") /\ Refusing("run-invocation-uri-invalid")
      BY RefusingIds
<1>2. (a.ok <=> signed.repository = config.repository) /\ a.exit = 1 /\ Report(a.id).exit = 1
      BY <1>1 DEF Typed, Check, Refusing
<1>3. /\ b.ok <=> SignedInvocation(signed.record.source).ref = config.ref
      /\ b.exit = 1 /\ Report(b.id).exit = 1
      BY <1>1 DEF Typed, Check, Refusing
<1>4. /\ c.ok <=> SignedInvocation(signed.record.source).revision = config.digest
      /\ c.exit = 1 /\ Report(c.id).exit = 1
      BY <1>1 DEF Typed, Check, Refusing
<1>5. /\ d.ok <=> ParseRunInvocationURI(signed.run, config.repository)
      /\ d.exit = 1 /\ Report(d.id).exit = 1
      BY <1>1 DEF Typed, Check, Refusing, ParseRunInvocationURI
<1>6. identityForStatement(signed, config) = <<a, b, c, d>>
      BY DEF identityForStatement
<1> HIDE DEF a, b, c, d
<1>7. IsList(<<a, b, c, d>>) /\ Range(<<a, b, c, d>>) = {a, b, c, d}
      BY ListOfFour
<1>8. /\ Refusals(identityForStatement(signed, config))
      /\ AllOk(identityForStatement(signed, config)) <=> a.ok /\ b.ok /\ c.ok /\ d.ok
      BY <1>2, <1>3, <1>4, <1>5, <1>6, <1>7 DEF Refusals, AllOk
<1> QED BY <1>2, <1>3, <1>4, <1>5, <1>8 DEF StatedFor

\* All checks of the publish job succeed exactly if each part of them is content.
LEMMA PublisherAsks ==
  ASSUME NEW r
  PROVE  /\ Refusals(PublisherChecks(r))
         /\ AllOk(PublisherChecks(r))
              <=> /\ validateExternalParameters(r.statement.record)
                  /\ StatedFor(r.statement, r.identity)
                  /\ Verifies(r, [r.identity EXCEPT !.run = r.statement.run])
                  /\ r.statement.builder
                       = [path |-> WorkflowOf(r.identity.signer), sha |-> r.identity.workflowSHA]
<1> DEFINE identity == [r.identity EXCEPT !.run = r.statement.run]
           s1 == ParseBundle(r.bundle)
           s2 == <<Check(validateExternalParameters(r.statement.record), "plain", 1)>>
           s3 == identityForStatement(r.statement, r.identity)
           s4 == Verify(r, identity, TRUE)
           s5 == validateStatement(r.statement, r.identity)
<1>0. Refusing("plain")
      BY RefusingIds
<1>1. Refusals(s1) /\ (AllOk(s1) <=> r.bundle # "duplicate" /\ r.bundle # "malformed")
      BY BundleChecks
<1>2. Refusals(s2) /\ (AllOk(s2) <=> validateExternalParameters(r.statement.record))
  <2> DEFINE c == Check(validateExternalParameters(r.statement.record), "plain", 1)
  <2>1. /\ c.ok <=> validateExternalParameters(r.statement.record)
        /\ c.exit = 1 /\ Report(c.id).exit = 1
        BY <1>0 DEF Typed, Check, Refusing
  <2>2. s2 = <<c>>
        OBVIOUS
  <2> HIDE DEF c, s2
  <2> QED BY <2>1, <2>2, OneCheck
<1>3. Refusals(s3) /\ (AllOk(s3) <=> StatedFor(r.statement, r.identity))
      BY StatementChecks
<1>4. Refusals(s4) /\ (AllOk(s4) <=> Verifies(r, identity))
      BY VerifyChecks
<1>5. /\ Refusals(s5)
      /\ AllOk(s5) <=> r.statement.builder
                         = [path |-> WorkflowOf(r.identity.signer), sha |-> r.identity.workflowSHA]
  <2> DEFINE built == [path |-> WorkflowOf(r.identity.signer), sha |-> r.identity.workflowSHA]
             c == Check(r.statement.builder = built, "plain", 1)
  <2>1. /\ c.ok <=> r.statement.builder = built
        /\ c.exit = 1 /\ Report(c.id).exit = 1
        BY <1>0 DEF Check, Refusing
  <2>2. s5 = <<c>>
        BY DEF validateStatement
  <2> HIDE DEF c, s5
  <2> QED BY <2>1, <2>2, OneCheck
<1>6. PublisherChecks(r) = s1 \o s2 \o s3 \o s4 \o s5
      BY DEF PublisherChecks
<1>7. Verifies(r, identity) => r.bundle # "duplicate" /\ r.bundle # "malformed"
      BY DEF Verifies
<1> HIDE DEF identity, s1, s2, s3, s4, s5
<1>8. Refusals(s1 \o s2) /\ (AllOk(s1 \o s2) <=> AllOk(s1) /\ AllOk(s2))
      BY <1>1, <1>2, BothLists
<1>9. Refusals(s1 \o s2 \o s3) /\ (AllOk(s1 \o s2 \o s3) <=> AllOk(s1 \o s2) /\ AllOk(s3))
      BY <1>3, <1>8, BothLists
<1>10. /\ Refusals(s1 \o s2 \o s3 \o s4)
       /\ AllOk(s1 \o s2 \o s3 \o s4) <=> AllOk(s1 \o s2 \o s3) /\ AllOk(s4)
       BY <1>4, <1>9, BothLists
<1>11. /\ Refusals(s1 \o s2 \o s3 \o s4 \o s5)
       /\ AllOk(s1 \o s2 \o s3 \o s4 \o s5) <=> AllOk(s1 \o s2 \o s3 \o s4) /\ AllOk(s5)
       BY <1>5, <1>10, BothLists
<1>12. /\ Refusals(PublisherChecks(r))
       /\ AllOk(PublisherChecks(r))
            <=> AllOk(s1) /\ AllOk(s2) /\ AllOk(s3) /\ AllOk(s4) /\ AllOk(s5)
       BY <1>6, <1>8, <1>9, <1>10, <1>11
<1> QED BY <1>1, <1>2, <1>3, <1>4, <1>5, <1>7, <1>12 DEF identity

-----------------------------------------------------------------------------
(* The record.                                                             *)

\* A selection that was made: npm by its lockfile, or what a supported field declares.
Made ==
  \/ selection.source = 0 /\ selection.name = "npm"
  \/ /\ selection.source \in Fields /\ fields[selection.source] \in Descriptors
     /\ Supported(selection.source, fields[selection.source])
     /\ fields[selection.source].name = selection.name

\* What the decision matrix admits was made.
LEMMA MatrixMade ==
  ASSUME SelectionInv, pc = "selected"
  PROVE  Made
<1>1. /\ Admissible
      /\ IF Declaring = {} THEN selection = [name |-> "npm", source |-> 0]
         ELSE selection = [name |-> fields[Min(Declaring)].name, source |-> Min(Declaring)]
      BY DEF SelectionInv, SelectionFollowsMatrix
<1>2. CASE Declaring = {}
      BY <1>1, <1>2 DEF Made
<1>3. CASE Declaring # {}
  <2>1. Min(Declaring) \in Declaring
        BY <1>3, FirstField DEF Declaring
  <2>2. /\ selection.source = Min(Declaring) /\ selection.name = fields[Min(Declaring)].name
        /\ Supported(Min(Declaring), fields[Min(Declaring)])
        BY <1>1, <1>3, <2>1 DEF Admissible
  <2>3. Min(Declaring) \in Fields /\ fields[Min(Declaring)] \in Descriptors
        BY <2>1 DEF Declaring, SelectionInv
  <2> QED BY <2>2, <2>3 DEF Made
<1> QED BY <1>2, <1>3

\* The record takes a manager exactly if the manifest selected it.
ManagerFits(m) ==
  validatePackageManagerParameters(ManagerParameters(m)) <=> m.source # "lockfile"

\* Whatever the profile supports, the record takes.
LEMMA MadeFits ==
  ASSUME Made
  PROVE  ManagerFits(Builder)
<1>0. /\ Origin.major = 0 /\ Origin.minor = 0 /\ Origin.patch = 0 /\ Origin.pre = 0
      /\ ~Less(Origin, Origin)
      BY DEF Origin, Release, Less, PreLess
<1>1. CASE selection.source = 0 /\ selection.name = "npm"
  <2>1. Builder.source = "lockfile"
        BY <1>1 DEF Builder
  <2>2. /\ ManagerParameters(Builder).selected = "lockfile"
        /\ ManagerParameters(Builder).manifest = "."
        BY <2>1 DEF ManagerParameters
  <2>3. ~validatePackageManagerParameters(ManagerParameters(Builder))
        BY <2>2 DEF validatePackageManagerParameters, selectionShape
  <2> QED BY <2>1, <2>3 DEF ManagerFits
<1>2. CASE /\ selection.source \in Fields /\ fields[selection.source] \in Descriptors
           /\ Supported(selection.source, fields[selection.source])
           /\ fields[selection.source].name = selection.name
  <2> DEFINE d == fields[selection.source]
             p == ManagerParameters(Builder)
  <2>1. /\ d.version \in Versions
        /\ d.name \in {"npm", "pnpm", "yarn"}
        /\ d.name = "pnpm" => ~Less(d.version, Release(10, 0, 0))
        /\ d.name = "yarn" => ~Less(d.version, Release(4, 0, 0)) /\ d.version.major <= 5
        BY <1>2, DescriptorAssumption DEF Supported
  <2>2. selection.source # 0
        BY <1>2 DEF Fields
  <2>3. /\ Builder.name = d.name /\ Builder.source = "manifest"
        /\ Builder.version = IF d.name = "npm" THEN Origin ELSE d.version
        BY <1>2, <2>2 DEF Builder
  <2> HIDE DEF d
  <2>4. /\ p.name = d.name /\ p.selected = "manifest" /\ p.manifest = "package.json"
        /\ p.path = "package.json" /\ p.lockfile = "none"
        /\ p.version = IF d.name = "npm" THEN Origin ELSE d.version
        /\ p.mode = IF d.name = "yarn" THEN "immutable" ELSE "none"
        BY <2>3 DEF ManagerParameters
  <2> HIDE DEF p
  <2>5. selectionShape(p)
        BY <2>4 DEF selectionShape
  <2>6. d.version.major \in Nat /\ d.version.minor \in Nat /\ d.version.patch \in Nat
        BY <2>1 DEF Versions
  <2>7. ~Less(p.version, Origin)
    <3>1. CASE d.name = "npm"
          BY <1>0, <2>4, <3>1
    <3>2. CASE d.name = "pnpm"
      <4>1. d.version.major >= 10
            BY <2>1, <2>6, <3>2 DEF Less, Release
      <4> QED BY <1>0, <2>4, <2>6, <3>2, <4>1 DEF Less
    <3>3. CASE d.name = "yarn"
      <4>1. d.version.major >= 4
            BY <2>1, <2>6, <3>3 DEF Less, Release
      <4> QED BY <1>0, <2>4, <2>6, <3>3, <4>1 DEF Less
    <3> QED BY <2>1, <3>1, <3>2, <3>3
  <2>8. p.name = "yarn" => ~Less(p.version, Release(4, 0, 0)) /\ p.version.major < 6
        BY <2>1, <2>4, <2>6
  <2>9. validatePackageManagerParameters(p)
        BY <2>1, <2>4, <2>5, <2>7, <2>8 DEF validatePackageManagerParameters
  <2> QED BY <2>3, <2>9 DEF ManagerFits, p
<1> QED BY <1>1, <1>2 DEF Made

\* The parameters of the record name the source and the commit that were built.
LEMMA ParametersAre ==
  /\ SourceParameters.revision = source.revision
  /\ trigger.input = Omitted =>
       /\ SourceParameters.ref = source.ref /\ SourceParameters.type = trigger.ref.kind
       /\ SourceParameters.input = Omitted /\ SourceParameters.invocation = NoSource
  /\ trigger.input # Omitted =>
       /\ SourceParameters.ref = trigger.input /\ SourceParameters.type = "tag"
       /\ SourceParameters.input = trigger.input
       /\ SourceParameters.invocation = At(trigger.ref, trigger.revision)
  BY DEF SourceParameters

\* The resolved dependencies a build records are always the ones its parameters call for.
LEMMA DependenciesFit ==
  ASSUME NEW m, NEW f
  PROVE  validateResolvedDependencies(workflowResolvedDependencies(m), Record(m, f))
<1> DEFINE lockfile == Dependency("lockfile", source.revision, ManagerParameters(m).selected,
                                  ManagerParameters(m).path)
           node == Dependency("node-runtime", "none", "none", "none")
           distribution == Dependency("package-manager-distribution", "none", "none", "none")
           runner == Dependency("runner-image", "none", "none", "none")
           list == workflowResolvedDependencies(m)
           r == Record(m, f)
<1>1. /\ r.source.revision = source.revision
      /\ r.manager = ManagerParameters(m) /\ ManagerParameters(m).name = m.name
      BY ParametersAre DEF Record, ManagerParameters
<1>2. /\ lockfile.name = "lockfile" /\ lockfile.revision = source.revision
      /\ lockfile.selected = ManagerParameters(m).selected
      /\ lockfile.path = ManagerParameters(m).path
      /\ node.name = "node-runtime" /\ distribution.name = "package-manager-distribution"
      /\ runner.name = "runner-image"
      BY DEF Dependency
<1>3. /\ m.name = "npm" => list = <<lockfile, node, runner>>
      /\ m.name # "npm" => list = <<lockfile, node, distribution, runner>>
      BY DEF workflowResolvedDependencies
<1> HIDE DEF lockfile, node, distribution, runner, list, r
<1>4. /\ Named(list, "lockfile") = {1} /\ Named(list, "node-runtime") = {2}
      /\ Named(list, "runner-image") = IF m.name = "npm" THEN {3} ELSE {4}
      /\ Named(list, "package-manager-distribution") = IF m.name = "npm" THEN {} ELSE {3}
      /\ list[1] = lockfile
  <2>1. CASE m.name = "npm"
    <3>1. DOMAIN list = {1, 2, 3} /\ list[1] = lockfile /\ list[2] = node /\ list[3] = runner
          BY <1>3, <2>1
    <3> QED BY <1>2, <2>1, <3>1 DEF Named
  <2>2. CASE m.name # "npm"
    <3>1. /\ DOMAIN list = {1, 2, 3, 4} /\ list[1] = lockfile /\ list[2] = node
          /\ list[3] = distribution /\ list[4] = runner
          BY <1>3, <2>2
    <3> QED BY <1>2, <2>2, <3>1 DEF Named
  <2> QED BY <2>1, <2>2
<1>5. /\ \A n : Cardinality({n}) = 1
      /\ Cardinality({}) = 0
      BY FS_Singleton, FS_EmptySet
<1>6. \A name \in {"lockfile", "runner-image", "node-runtime"} :
        Cardinality(Named(list, name)) = 1
  <2>1. /\ Cardinality(Named(list, "lockfile")) = 1 /\ Cardinality(Named(list, "node-runtime")) = 1
        /\ Cardinality(Named(list, "runner-image")) = 1
        BY <1>4, <1>5
  <2> QED BY <2>1
<1>7. Cardinality(Named(list, "package-manager-distribution"))
        = IF r.manager.name = "npm" THEN 0 ELSE 1
      BY <1>1, <1>4, <1>5
<1>8. \A i \in Named(list, "lockfile") :
        /\ list[i].revision = r.source.revision
        /\ list[i].selected = r.manager.selected /\ list[i].path = r.manager.path
      BY <1>1, <1>2, <1>4
<1>9. validateResolvedDependencies(list, r)
      BY <1>6, <1>7, <1>8 DEF validateResolvedDependencies
<1> QED BY <1>9 DEF list, r

\* The finalization accepts what is publishable and recordable, and nothing else.
LEMMA FinalizesExactly ==
  ASSUME NamedTogether(source), trigger.ref.kind \in {"tag", "branch"},
         ValidateSourceRefInput(trigger.input, trigger.ref, PackageVersion),
         NEW m, ManagerFits(m), NEW f
  PROVE  Finalizes(m, f)
           <=> /\ source.ref = VersionTag(PackageVersion)
               /\ f.event \in {"push", "workflow_dispatch"} /\ f.caller = "yml"
               /\ f.package = "present" /\ f.version = "absent"
               /\ m.source # "lockfile"
               /\ ~(trigger.input # Omitted /\ trigger.ref.form # "plain")
<1> DEFINE p == SourceParameters
           r == Record(m, f)
           tagged == source.ref = VersionTag(PackageVersion)
           plain == ~(trigger.input # Omitted /\ trigger.ref.form # "plain")
<1>1. /\ r.source = p /\ r.package = PackageVersion /\ r.manager = ManagerParameters(m)
      /\ r.publish.package = f.package /\ r.publish.version = f.version /\ r.caller = f.caller
      BY DEF Record
<1>2. /\ trigger.input = Omitted => source.ref = trigger.ref
      /\ trigger.input # Omitted => source.ref = trigger.input
      BY DEF NamedTogether, At
<1>3. workflowSourceParametersAccept
      BY <1>2 DEF workflowSourceParametersAccept
<1>4. validateResolvedDependencies(workflowResolvedDependencies(m), r)
      BY DependenciesFit
<1>5. VersionTag(PackageVersion).kind = "tag" /\ p.ref = source.ref
      BY <1>2, ParametersAre DEF VersionTag, Ref
<1>6. tagged => p.type = "tag"
      BY <1>2, <1>5, ParametersAre
<1>7. validateWorkflowRuntime(p, f.event) <=> f.event \in {"push", "workflow_dispatch"} /\ tagged
      BY <1>5, <1>6 DEF validateWorkflowRuntime
<1>8. validateSourceParameters(p, PackageVersion) <=> plain
  <2>1. CASE trigger.input = Omitted
        BY <2>1, ParametersAre DEF validateSourceParameters
  <2>2. CASE trigger.input # Omitted
    <3>1. At(trigger.ref, trigger.revision).ref = trigger.ref /\ NoSource.ref = Omitted
          BY DEF At, NoSource
    <3>2. Omitted.kind = "omitted"
          BY DEF Omitted, Ref
    <3>3. p.input = trigger.input /\ p.ref = trigger.input /\ p.invocation # NoSource
          /\ p.invocation.ref = trigger.ref
          BY <2>2, <3>1, <3>2, ParametersAre
    <3> HIDE DEF p
    <3> QED BY <2>2, <3>3 DEF validateSourceParameters, validFullGitRef
  <2> QED BY <2>1, <2>2
<1>9. validatePackageManagerParameters(r.manager) <=> m.source # "lockfile"
      BY <1>1 DEF ManagerFits
<1>10. validatePublishParameters(r.publish) <=> f.package = "present" /\ f.version = "absent"
      BY <1>1 DEF validatePublishParameters
<1>11. validateExternalParameters(r)
         <=> /\ validateSourceParameters(p, PackageVersion) /\ p.type = "tag"
             /\ validatePackageManagerParameters(r.manager) /\ validatePublishParameters(r.publish)
             /\ f.caller = "yml"
      BY <1>1, Zenon DEF validateExternalParameters
<1>12. Finalizes(m, f) <=> validateWorkflowRuntime(p, f.event) /\ validateExternalParameters(r)
      BY <1>1, <1>3, <1>4, Zenon DEF Finalizes
<1> HIDE DEF p, r, tagged, plain
<1>13. Finalizes(m, f)
         <=> /\ tagged /\ f.event \in {"push", "workflow_dispatch"} /\ f.caller = "yml"
             /\ f.package = "present" /\ f.version = "absent" /\ m.source # "lockfile" /\ plain
      BY <1>6, <1>7, <1>8, <1>9, <1>10, <1>11, <1>12
<1> QED BY <1>13 DEF tagged, plain

\* The claims of an expectation.
ClaimNames ==
  {"issuer", "signer", "workflowSHA", "runner", "repository", "digest", "ref", "repositoryID",
   "ownerID", "run"}

\* verifyIdentity reads all of them.
LEMMA ClaimsAre == Range(ClaimOrder) = ClaimNames
<1> DEFINE order == ClaimOrder
<1>1. /\ DOMAIN order = {1, 2, 3, 4, 5, 6, 7, 8, 9, 10}
      /\ order[1] = "issuer" /\ order[2] = "signer" /\ order[3] = "workflowSHA"
      /\ order[4] = "runner" /\ order[5] = "repository" /\ order[6] = "digest"
      /\ order[7] = "ref" /\ order[8] = "repositoryID" /\ order[9] = "ownerID"
      /\ order[10] = "run"
      BY DEF ClaimOrder
<1> HIDE DEF order
<1>2. Range(order) = ClaimNames
      BY <1>1 DEF Range, ClaimNames
<1> QED BY <1>2 DEF order

\* A release verifies the bundle it just signed.
LEMMA SignsForItself ==
  ASSUME trigger.ref.kind \in {"tag", "branch"}, trigger.revision \in Revision, NEW signed
  PROVE  Verdict(Verify(Request("signer", signed), Expectation, TRUE)) = Passed
<1> DEFINE r == Request("signer", signed)
           i == Expectation
<1>1. /\ r.bundle = "ok" /\ r.evidence = "ok" /\ r.override = "none" /\ r.root = "tuf"
      /\ r.certificate = InvocationClaims
      BY DEF Request
<1>2. /\ DOMAIN i = ClaimNames
      /\ \A claim \in ClaimNames : i[claim] = InvocationClaims[claim]
      BY ClaimsAre DEF Expectation
<1>3. /\ i.issuer = "ours" /\ i.signer = "ours" /\ i.workflowSHA = "ours" /\ i.runner = "ours"
      /\ i.repository = "ours" /\ i.repositoryID = "ours" /\ i.ownerID = "ours" /\ i.run = "ours"
      /\ i.digest = trigger.revision /\ i.ref = trigger.ref
      /\ InvocationClaims.san = "ours" /\ InvocationClaims.issuer = "ours"
      BY <1>2 DEF ClaimNames, InvocationClaims
<1> HIDE DEF r, i
<1>4. trigger.revision # "malformed"
      BY SourceAssumption
<1>5. i.ref # MalformedRef
      BY <1>3 DEF MalformedRef, Ref
<1>6. \A claim \in DOMAIN i \ {"ref"} : i[claim] # "malformed"
      BY <1>2, <1>3, <1>4 DEF ClaimNames
<1>7. ParseRunInvocationURI(i.run, i.repository)
      BY <1>3 DEF ParseRunInvocationURI
<1>8. validateIdentityExpectation(i)
      BY <1>3, <1>5, <1>6, <1>7 DEF validateIdentityExpectation
<1>9. Verifies(r, i)
      BY <1>1, <1>2, <1>3, <1>8, ClaimsAre DEF Verifies
<1>10. Refusals(Verify(r, i, TRUE)) /\ AllOk(Verify(r, i, TRUE))
      BY <1>9, VerifyChecks
<1>11. Verdict(Verify(r, i, TRUE)) = Passed
      BY <1>10, VerdictMeaning DEF Refusals, AllOk
<1> QED BY <1>11 DEF r, i

\* The signer signs a record that was finalized, unless something in its own job is amiss.
LEMMA SignsExactly ==
  ASSUME validateExternalParameters(record), Recorded(record.source), record.release = source.ref,
         NEW j \in [exchange : Exchanges, repository : Spellings, clock : Clocks, pin : Pins,
                    sigstore : {"signs", "fails"}]
  PROVE  SigningFault(record, source, j) = "none"
           <=> /\ j.exchange = "accepted" /\ j.repository = "canonical" /\ j.clock # "beyond"
               /\ j.pin = "sha" /\ j.sigstore = "signs"
<1>1. /\ record.source.ref = source.ref /\ record.source.revision = source.revision
      /\ source.ref.kind = "tag" /\ source.ref.form = "plain"
      BY DEF Recorded, VersionTag, Ref
<1>2. ValidateReleaseRefEquality(record, source)
      BY <1>1 DEF ValidateReleaseRefEquality, ValidateReleaseRef, validTagName
<1>3. j.exchange \in Exchanges /\ j.sigstore \in {"signs", "fails"}
      OBVIOUS
<1> QED BY <1>2, <1>3 DEF SigningFault, Exchanges

\* How far the release has come, and what it knows by then: the input was checked against the
\* invocation, then against the version; the manager fits a record; the record is what the
\* finalization accepts.
Early    == {"triggered", "selecting", "building", "built"}
Finished == {"recorded"} \cup Signing

Accepted == validateExternalParameters(record) /\ record.release = source.ref /\ record # Unset

CauseInv ==
  /\ stage \in Early \cup Finished \cup {"refused"}
  /\ trigger.ref \in InvocationRefs /\ trigger.revision \in Revision
  /\ stage = "triggered" => pc = "resolve"
  /\ stage \in {"built"} \cup Finished => pc = "packed"
  /\ stage \in Early => facts = Unset /\ record = Unset
  /\ stage \in Early \cup {"recorded"} => job = Unset
  /\ stage = "selecting" /\ trigger.input # Omitted =>
       ValidateSourceRefInput(trigger.input, trigger.ref, "unknown")
  /\ stage \in {"building", "built"} =>
       ValidateSourceRefInput(trigger.input, trigger.ref, PackageVersion)
  /\ pc \in {"analyzed", "compared"} => Made
  /\ stage = "built" => ManagerFits(manager)
  /\ stage \in Finished => Accepted
  /\ RefusedForCause

\* At the trigger nothing is decided.
LEMMA InitCause == ReleaseInit => CauseInv
<1> SUFFICES ASSUME ReleaseInit
             PROVE  CauseInv
    OBVIOUS
<1>1. /\ stage = "triggered" /\ pc = "resolve" /\ facts = Unset /\ record = Unset /\ job = Unset
      BY DEF ReleaseInit, Init, SourceInit
<1>2. trigger.ref \in InvocationRefs /\ trigger.revision \in Revision
      BY DEF ReleaseInit, SourceInit
<1> QED BY <1>1, <1>2 DEF CauseInv, Early, Finished, Signing, RefusedForCause

\* Before the finalization only a refused input is a refusal that needs a cause.
LEMMA EarlyCause ==
  ASSUME CauseInv, stage \in Early, UNCHANGED <<trigger, facts, record, job>>,
         stage' \in Early \cup {"refused"},
         stage' = "triggered" => pc' = "resolve",
         stage' = "built" => pc' = "packed" /\ ManagerFits(manager)',
         stage' = "selecting" /\ trigger'.input # Omitted =>
           ValidateSourceRefInput(trigger.input, trigger.ref, "unknown"),
         stage' \in {"building", "built"} =>
           ValidateSourceRefInput(trigger.input, trigger.ref, PackageVersion)',
         pc' \in {"analyzed", "compared"} => Made',
         pc' = "analyzed" /\ stage' = "refused" =>
           trigger'.input \notin {Omitted, VersionTag(PackageVersion)'}
  PROVE  CauseInv'
<1>1. facts' = Unset /\ record' = Unset /\ job' = Unset
      BY DEF CauseInv
<1>2. RefusedForCause'
      BY <1>1 DEF RefusedForCause
<1>3. stage' \notin Finished
      BY DEF Early, Finished, Signing
<1>4. trigger'.ref \in InvocationRefs /\ trigger'.revision \in Revision
      BY DEF CauseInv
<1> QED BY <1>1, <1>2, <1>3, <1>4 DEF CauseInv

\* A step of the selection after which it is made.
LEMMA AnalyzeMade ==
  ASSUME SelectionInv, CauseInv, Analyze, pc' \in {"analyzed", "compared"}
  PROVE  Made'
<1>1. AnalyzeReturns
  <2>1. ResolvePackage => pc' \in {"walk", "rejected"}
        BY DEF ResolvePackage, Reject
  <2>2. ReadMetadata => pc' \in {"walk", "rejected", "rooted"}
        BY DEF ReadMetadata, Reject, BecomesRoot
  <2>3. RootFound => pc' = "fields"
        BY DEF RootFound
  <2>4. ReadField => pc' \in {"fields", "rejected"}
        BY DEF ReadField, Reject
  <2>5. SelectManager => pc' \in {"lockfiles", "rejected"}
        BY DEF SelectManager, Reject
  <2>6. ValidateLockfiles => pc' \in {"selected", "rejected"}
        BY DEF ValidateLockfiles, Reject
  <2>7. InferFromLockfile => pc' \in {"selected", "rejected"}
        BY DEF InferFromLockfile, Reject
  <2> QED BY <2>1, <2>2, <2>3, <2>4, <2>5, <2>6, <2>7 DEF Analyze
<1>2. /\ pc = "selected" /\ selection' = selection
      /\ fields' = [f \in Fields |-> IF f = selection.source THEN fields[f] ELSE Absent]
      BY <1>1 DEF AnalyzeReturns
<1>3. Made
      BY <1>2, MatrixMade
<1>4. selection.source \in Fields => fields'[selection.source] = fields[selection.source]
      BY <1>2
<1> QED BY <1>2, <1>3, <1>4 DEF Made

\* The finalization, and what became of the release by it.
LEMMA FinalizeCause ==
  ASSUME SourceInv, CauseInv, Finalize
  PROVE  CauseInv'
<1>1. PICK f \in [event : Events, caller : Callers, package : {"present", "absent"},
                  version : {"present", "absent"}] :
        /\ facts' = f
        /\ IF Finalizes(manager, f)
           THEN stage' = "recorded" /\ record' = Record(manager, f) /\ UNCHANGED refusal
           ELSE Refuse("plain") /\ UNCHANGED record
      BY DEF Finalize
<1>2. /\ stage = "built" /\ UNCHANGED <<trigger, source, pc, manager, job>>
      BY DEF Finalize, vars
<1>3. /\ NamedTogether(source) /\ ManagerFits(manager) /\ pc' = "packed"
      /\ ValidateSourceRefInput(trigger.input, trigger.ref, PackageVersion)
      /\ record = Unset /\ job' = Unset
      /\ trigger'.ref \in InvocationRefs /\ trigger'.revision \in Revision
      BY <1>2 DEF SourceInv, CauseInv, Early
<1>4. trigger.ref.kind \in {"tag", "branch"}
      BY <1>2, <1>3, InvocationAssumption
<1>5. Finalizes(manager, f)
        <=> /\ source.ref = VersionTag(PackageVersion)
            /\ f.event \in {"push", "workflow_dispatch"} /\ f.caller = "yml"
            /\ f.package = "present" /\ f.version = "absent"
            /\ manager.source # "lockfile"
            /\ ~(trigger.input # Omitted /\ trigger.ref.form # "plain")
      BY <1>3, <1>4, FinalizesExactly
<1>6. Finalizes(manager, f) <=> Publishable' /\ ~Unrecordable'
      BY <1>1, <1>2, <1>5 DEF Publishable, Unrecordable, PackageVersion
<1>7. CASE Finalizes(manager, f)
  <2>1. stage' = "recorded" /\ record' = Record(manager, f)
        BY <1>1, <1>7
  <2>2. record' # Unset
        BY <2>1 DEF Record, Unset
  <2>3. Accepted'
    <3>1. validateExternalParameters(Record(manager, f))
          BY <1>7, Zenon DEF Finalizes
    <3>2. validateExternalParameters(record')
          BY <2>1, <3>1
    <3>3. record'.release = source'.ref
          BY <1>2, <2>1 DEF Record
    <3> QED BY <2>2, <3>2, <3>3 DEF Accepted
  <2>4. RefusedForCause'
        BY <1>3, <1>6, <1>7, <2>1, <2>2 DEF RefusedForCause
  <2> QED BY <1>3, <2>1, <2>3, <2>4 DEF CauseInv, Early, Finished, Signing
<1>8. CASE ~Finalizes(manager, f)
  <2>1. stage' = "refused" /\ record' = Unset
        BY <1>1, <1>3, <1>8 DEF Refuse
  <2>2. RefusedForCause'
        BY <1>3, <1>6, <1>8, <2>1 DEF RefusedForCause
  <2> QED BY <1>3, <2>1, <2>2 DEF CauseInv, Early, Finished, Signing
<1> QED BY <1>7, <1>8

\* The sign job.
LEMMA SignCause ==
  ASSUME SourceInv, CauseInv, Sign
  PROVE  CauseInv'
<1>1. PICK j \in [exchange : Exchanges, repository : Spellings, clock : Clocks, pin : Pins,
                  sigstore : {"signs", "fails"}] :
        /\ job' = j
        /\ IF /\ SigningFault(record, source, j) = "none"
              /\ Verdict(Verify(Request("signer", Statement), Expectation, TRUE)) = Passed
           THEN stage' = "signed" /\ statement' = Statement /\ UNCHANGED refusal
           ELSE Refuse(SigningFault(record, source, j)) /\ UNCHANGED statement
      BY DEF Sign
<1>2. stage = "recorded" /\ UNCHANGED <<trigger, source, pc, manager, facts, record>>
      BY DEF Sign, vars
<1>3. /\ Accepted /\ Recorded(record.source) /\ pc' = "packed" /\ record # Unset
      /\ trigger.ref \in InvocationRefs /\ trigger.revision \in Revision
      /\ Publishable /\ ~Unrecordable
  <2>1. /\ Accepted /\ Recorded(record.source) /\ pc' = "packed"
        /\ trigger.ref \in InvocationRefs /\ trigger.revision \in Revision
        BY <1>2 DEF SourceInv, CauseInv, Finished
  <2>2. record # Unset
        BY <2>1 DEF Accepted
  <2> QED BY <2>1, <2>2 DEF CauseInv, RefusedForCause
<1>4. validateExternalParameters(record) /\ record.release = source.ref
      BY <1>3 DEF Accepted
<1>5. Verdict(Verify(Request("signer", Statement), Expectation, TRUE)) = Passed
      BY <1>3, InvocationAssumption, SignsForItself
<1>6. SigningFault(record, source, j) = "none"
        <=> /\ j.exchange = "accepted" /\ j.repository = "canonical" /\ j.clock # "beyond"
            /\ j.pin = "sha" /\ j.sigstore = "signs"
      BY <1>3, <1>4, SignsExactly
<1>7. SigningFault(record, source, j) = "none" <=> Signable'
      BY <1>1, <1>6 DEF Signable
<1>8. stage' = IF SigningFault(record, source, j) = "none" THEN "signed" ELSE "refused"
      BY <1>1, <1>5 DEF Refuse
<1>9. Accepted'
      BY <1>2, <1>3 DEF Accepted
<1>10. Publishable' /\ ~Unrecordable'
       BY <1>2, <1>3 DEF Publishable, Unrecordable, PackageVersion
<1>11. RefusedForCause'
       BY <1>2, <1>3, <1>7, <1>8, <1>10 DEF RefusedForCause
<1>12. /\ stage' \in {"signed", "refused"}
       /\ trigger'.ref \in InvocationRefs /\ trigger'.revision \in Revision
       BY <1>2, <1>3, <1>8
<1> QED BY <1>3, <1>9, <1>11, <1>12 DEF CauseInv, Early, Finished, Signing

\* After the sign job nothing is refused any more.
LEMMA LateCause ==
  ASSUME CauseInv, stage \in Signing, stage' \in Signing,
         UNCHANGED <<trigger, source, pc, manager, facts, record, job>>
  PROVE  CauseInv'
<1>1. /\ stage # "refused" /\ stage' # "refused" /\ stage \in Finished /\ stage' \in Finished
      /\ stage' \notin Early /\ stage' # "recorded"
      BY DEF Signing, Finished, Early
<1>2. Accepted'
      BY <1>1 DEF CauseInv, Accepted
<1>3. RefusedForCause
      BY DEF CauseInv
<1>4. /\ Publishable' <=> Publishable
      /\ Unrecordable' <=> Unrecordable
      /\ Signable' <=> Signable
      BY DEF Publishable, Unrecordable, Signable, PackageVersion
<1>5. RefusedForCause'
      BY <1>1, <1>3, <1>4 DEF RefusedForCause
<1>6. pc' = "packed" /\ trigger'.ref \in InvocationRefs /\ trigger'.revision \in Revision
      BY <1>1 DEF CauseInv
<1> QED BY <1>1, <1>2, <1>5, <1>6 DEF CauseInv, Early, Finished

\* Every step of a release keeps it.
LEMMA NextCause ==
  ASSUME SelectionInv, SourceInv, CauseInv, [ReleaseNext]_releaseVars
  PROVE  CauseInv'
<1>1. CASE SourceRefStep
  <2>1. /\ stage = "triggered" /\ UNCHANGED <<trigger, pc, facts, record, job>>
        /\ pc = "resolve"
        BY <1>1 DEF SourceRefStep, ObserveSource, ResolveSourceRefTag, RefuseSourceRef, vars,
           recordVars, CauseInv
  <2>2. /\ stage' \in {"selecting", "refused"}
        /\ stage' = "selecting" /\ trigger.input # Omitted =>
             ValidateSourceRefInput(trigger.input, trigger.ref, "unknown")
        BY <1>1 DEF SourceRefStep, ObserveSource, ResolveSourceRefTag, RefuseSourceRef, Refuse
  <2> QED BY <2>1, <2>2, EarlyCause DEF Early
<1>2. CASE Analyze
  <2>1. stage = "selecting" /\ UNCHANGED <<stage, trigger, facts, record, job>>
        BY <1>2 DEF Analyze, sourceVars, recordVars
  <2>2. trigger.input # Omitted => ValidateSourceRefInput(trigger.input, trigger.ref, "unknown")
        BY <2>1 DEF CauseInv
  <2>3. pc' \in {"analyzed", "compared"} => Made'
        BY <1>2, AnalyzeMade
  <2> QED BY <2>1, <2>2, <2>3, EarlyCause DEF Early
<1>3. CASE SelectionRefused
  <2>1. /\ stage = "selecting" /\ stage' = "refused" /\ pc' = "rejected"
        /\ UNCHANGED <<trigger, facts, record, job>>
        BY <1>3 DEF SelectionRefused, Refuse, vars, recordVars
  <2> QED BY <2>1, EarlyCause DEF Early
<1>4. CASE CheckInput
  <2> DEFINE checked == ValidateSourceRefInput(trigger.input, trigger.ref, PackageVersion)
  <2>1. /\ stage = "selecting" /\ pc = "analyzed"
        /\ UNCHANGED <<trigger, source, pc, selection, fields, facts, record, job>>
        /\ stage' = IF checked THEN "building" ELSE "refused"
        BY <1>4 DEF CheckInput, CheckSourceRef, Refuse, vars, fieldVars, recordVars
  <2>2. /\ Made
        /\ trigger.input # Omitted => ValidateSourceRefInput(trigger.input, trigger.ref, "unknown")
        BY <2>1 DEF CauseInv
  <2>3. Made'
        BY <2>1, <2>2 DEF Made
  <2>4. trigger.input \in {Omitted, VersionTag(PackageVersion)} => checked
        BY <2>2 DEF ValidateSourceRefInput
  <2>5. /\ ValidateSourceRefInput(trigger.input, trigger.ref, PackageVersion)' <=> checked
        /\ VersionTag(PackageVersion)' = VersionTag(PackageVersion)
        BY <2>1 DEF PackageVersion, ValidateSourceRefInput
  <2> HIDE DEF checked
  <2> QED BY <2>1, <2>3, <2>4, <2>5, EarlyCause DEF Early
<1>5. CASE CompareNpm
  <2>1. /\ stage = "building" /\ pc \in {"analyzed", "compared"}
        /\ UNCHANGED <<stage, trigger, source, selection, fields, facts, record, job>>
        BY <1>5 DEF CompareNpm, CompareVersion, NothingToCompare, fieldVars, sourceVars, recordVars
  <2>2. Made /\ ValidateSourceRefInput(trigger.input, trigger.ref, PackageVersion)
        BY <2>1 DEF CauseInv
  <2>3. Made'
        BY <2>1, <2>2 DEF Made
  <2>4. ValidateSourceRefInput(trigger.input, trigger.ref, PackageVersion)'
        BY <2>1, <2>2 DEF PackageVersion, ValidateSourceRefInput
  <2> QED BY <2>1, <2>3, <2>4, EarlyCause DEF Early
<1>6. CASE BuildPackReturns
  <2>1. /\ stage = "building" /\ pc = "compared" /\ pc' = "packed"
        /\ stage' \in {"built", "refused"} /\ manager' = Builder
        /\ UNCHANGED <<trigger, source, facts, record, job>>
        BY <1>6 DEF BuildPackReturns, Refuse
  <2>2. Made /\ ValidateSourceRefInput(trigger.input, trigger.ref, PackageVersion)
        BY <2>1 DEF CauseInv
  <2>3. ManagerFits(manager)'
        BY <2>1, <2>2, MadeFits DEF ManagerFits
  <2>4. ValidateSourceRefInput(trigger.input, trigger.ref, PackageVersion)'
        BY <2>1, <2>2 DEF PackageVersion, ValidateSourceRefInput
  <2> QED BY <2>1, <2>3, <2>4, EarlyCause DEF Early
<1>7. CASE Finalize
      BY <1>7, FinalizeCause
<1>8. CASE Sign
      BY <1>8, SignCause
<1>9. CASE Present \/ GoesAmiss \/ Judge
      BY <1>9, LateCause DEF Present, GoesAmiss, Judge, Signing, vars, sourceVars, recordVars
<1>10. CASE UNCHANGED releaseVars
  <2>1. UNCHANGED <<stage, trigger, source, pc, selection, fields, manager, facts, record, job>>
        BY <1>10 DEF releaseVars, vars, fieldVars, sourceVars, recordVars
  <2>2. /\ Publishable' <=> Publishable
        /\ Unrecordable' <=> Unrecordable
        /\ Signable' <=> Signable
        /\ PackageVersion' = PackageVersion
        BY <2>1 DEF Publishable, Unrecordable, Signable, PackageVersion
  <2>3. RefusedForCause'
        BY <2>1, <2>2 DEF CauseInv, RefusedForCause
  <2>4. /\ Made' <=> Made
        /\ Accepted' <=> Accepted
        /\ ManagerFits(manager)' <=> ManagerFits(manager)
        BY <2>1 DEF Made, Accepted, ManagerFits
  <2>5. /\ ValidateSourceRefInput(trigger.input, trigger.ref, "unknown")'
             <=> ValidateSourceRefInput(trigger.input, trigger.ref, "unknown")
        /\ ValidateSourceRefInput(trigger.input, trigger.ref, PackageVersion)'
             <=> ValidateSourceRefInput(trigger.input, trigger.ref, PackageVersion)
        BY <2>1, <2>2 DEF ValidateSourceRefInput
  <2> QED BY <2>1, <2>3, <2>4, <2>5 DEF CauseInv
<1> QED BY <1>1, <1>2, <1>3, <1>4, <1>5, <1>6, <1>7, <1>8, <1>9, <1>10 DEF ReleaseNext

\* The build, the finalization and the sign job check a release apart from each other; what one
\* of them lets through the next does not stop without a cause of its own, for any checkout,
\* manager, input and tags: every release that is refused is refused for a reason that holds.
THEOREM RefusalsHaveCause == ReleaseSpec => []RefusedForCause
<1>1. ReleaseSpec => [](SelectionKnown /\ SourceInv /\ CauseInv)
  <2>1. ReleaseInit => SelectionKnown /\ SourceInv /\ CauseInv
        BY InitKnown, ReleaseInitSource, InitCause
  <2>2. SelectionKnown /\ SourceInv /\ CauseInv /\ [ReleaseNext]_releaseVars
          => (SelectionKnown /\ SourceInv /\ CauseInv)'
        BY NextKnown, ReleaseNextSource, NextCause DEF SelectionKnown
  <2> QED BY <2>1, <2>2, PTL DEF ReleaseSpec
<1>2. CauseInv => RefusedForCause
      BY DEF CauseInv
<1> QED BY <1>1, <1>2, PTL

-----------------------------------------------------------------------------
(* What a verifier is given.                                               *)

\* A request r that can come about, of a Statement that has the record rec.
Parts ==
  {"by", "bundle", "evidence", "override", "root", "certificate", "identity", "statement",
   "policyFile", "identityFile", "statementFile", "policy", "expected"}

Askable(r, rec) ==
  /\ DOMAIN r = Parts
  /\ r.by \in {"publisher", "consumer"}
  /\ r.bundle \in {"ok", "malformed", "duplicate", "unavailable"}
  /\ r.by = "publisher" => r.bundle # "unavailable"
  /\ r.evidence \in {"ok", "no_rekor", "late", "no_sct", "bad_signature"}
  /\ r.override \in {"none", "set"}
  /\ r.root \in {"tuf", "tuf_unreachable", "tuf_with_pinned", "pinned", "pinned_missing",
                 "pinned_wrong", "pinned_stale"}
  /\ r.by = "publisher" => r.root \in {"tuf", "tuf_unreachable"}
  /\ r.statementFile \in {"ok", "unavailable", "malformed"}
  /\ DOMAIN r.identity = ClaimNames
  /\ "record" \in DOMAIN r.statement /\ r.statement.record = rec

\* A part that is altered.
LEMMA AlteredPart ==
  ASSUME NEW r, NEW part \in DOMAIN r, NEW values, NEW r2 \in Altered(r, part, values)
  PROVE  /\ DOMAIN r2 = DOMAIN r /\ r2[part] \in values
         /\ \A other \in DOMAIN r : other # part => r2[other] = r[other]
<1>1. PICK v \in values : r2 = [r EXCEPT ![part] = v]
      BY DEF Altered
<1> QED BY <1>1

\* Alterations of a Statement leave its record as it is.
LEMMA AlteredRecord ==
  ASSUME NEW s, "record" \in DOMAIN s, NEW s2 \in AlteredStatements(s)
  PROVE  "record" \in DOMAIN s2 /\ s2.record = s.record
<1>1. PICK part \in {"run", "repository", "builder"} : \E v : s2 = [s EXCEPT ![part] = v]
      BY DEF AlteredStatements, Altered
<1>2. PICK v : s2 = [s EXCEPT ![part] = v]
      BY <1>1
<1> QED BY <1>2

\* A request of the signer's job is what the verifiers start from.
LEMMA RequestAskable ==
  ASSUME NEW by \in {"publisher", "consumer"}, NEW signed, "record" \in DOMAIN signed
  PROVE  Askable(Request(by, signed), signed.record) /\ Request(by, signed).by = by
<1> DEFINE r == Request(by, signed)
<1>1. /\ DOMAIN r = Parts /\ r.by = by /\ r.bundle = "ok" /\ r.evidence = "ok"
      /\ r.override = "none" /\ r.root = "tuf" /\ r.statementFile = "ok"
      /\ r.identity = Expectation /\ r.statement = signed
      BY DEF Request, Parts
<1>2. DOMAIN Expectation = ClaimNames
      BY ClaimsAre DEF Expectation
<1> HIDE DEF r
<1>3. Askable(r, signed.record)
      BY <1>1, <1>2 DEF Askable
<1> QED BY <1>1, <1>3 DEF r

\* A request stays one when something of it goes amiss.
LEMMA PartAskable ==
  ASSUME NEW r, NEW rec, Askable(r, rec), NEW part \in Parts \ {"by"}, NEW values,
         NEW r2 \in Altered(r, part, values),
         part = "bundle" =>
           values \subseteq IF r.by = "publisher" THEN {"malformed", "duplicate"}
                            ELSE {"malformed", "duplicate", "unavailable"},
         part = "evidence" => values \subseteq {"no_rekor", "late", "no_sct", "bad_signature"},
         part = "override" => values \subseteq {"set"},
         part = "root" =>
           values \subseteq IF r.by = "publisher" THEN {"tuf_unreachable"}
                            ELSE {"tuf_unreachable", "tuf_with_pinned", "pinned",
                                  "pinned_missing", "pinned_wrong", "pinned_stale"},
         part = "statementFile" => values \subseteq {"unavailable", "malformed"},
         part = "identity" => \A i \in values : DOMAIN i = ClaimNames,
         part = "statement" => \A s \in values : "record" \in DOMAIN s /\ s.record = rec
  PROVE  Askable(r2, rec) /\ r2.by = r.by
<1>1. DOMAIN r = Parts /\ part \in DOMAIN r
      BY DEF Askable
<1>2. /\ DOMAIN r2 = Parts /\ r2[part] \in values
      /\ \A other \in Parts : other # part => r2[other] = r[other]
      BY <1>1, AlteredPart
<1>3. r2.by = r.by /\ r.by \in {"publisher", "consumer"}
      BY <1>2 DEF Parts, Askable
<1>4. CASE part = "bundle"
  <2>1. /\ r2.statementFile = r.statementFile
        /\ r2.evidence = r.evidence /\ r2.override = r.override /\ r2.root = r.root
        /\ r2.identity = r.identity /\ r2.statement = r.statement
        /\ r2.bundle \in {"malformed", "duplicate", "unavailable"}
        /\ r.by = "publisher" => r2.bundle # "unavailable"
        BY <1>2, <1>3, <1>4 DEF Parts
  <2> QED BY <1>2, <1>3, <2>1 DEF Askable
<1>5. CASE part = "evidence"
  <2>1. /\ r2.statementFile = r.statementFile
        /\ r2.bundle = r.bundle /\ r2.override = r.override /\ r2.root = r.root
        /\ r2.identity = r.identity /\ r2.statement = r.statement
        /\ r2.evidence \in {"no_rekor", "late", "no_sct", "bad_signature"}
        BY <1>2, <1>5 DEF Parts
  <2> QED BY <1>2, <1>3, <2>1 DEF Askable
<1>6. CASE part = "override"
  <2>1. /\ r2.statementFile = r.statementFile
        /\ r2.bundle = r.bundle /\ r2.evidence = r.evidence /\ r2.root = r.root
        /\ r2.identity = r.identity /\ r2.statement = r.statement /\ r2.override = "set"
        BY <1>2, <1>6 DEF Parts
  <2> QED BY <1>2, <1>3, <2>1 DEF Askable
<1>7. CASE part = "root"
  <2>1. /\ r2.statementFile = r.statementFile
        /\ r2.bundle = r.bundle /\ r2.evidence = r.evidence /\ r2.override = r.override
        /\ r2.identity = r.identity /\ r2.statement = r.statement
        /\ r2.root \in {"tuf_unreachable", "tuf_with_pinned", "pinned", "pinned_missing",
                        "pinned_wrong", "pinned_stale"}
        /\ r.by = "publisher" => r2.root = "tuf_unreachable"
        BY <1>2, <1>3, <1>7 DEF Parts
  <2> QED BY <1>2, <1>3, <2>1 DEF Askable
<1>8. CASE part = "identity"
  <2>1. /\ r2.statementFile = r.statementFile
        /\ r2.bundle = r.bundle /\ r2.evidence = r.evidence /\ r2.override = r.override
        /\ r2.root = r.root /\ r2.statement = r.statement /\ DOMAIN r2.identity = ClaimNames
        BY <1>2, <1>8 DEF Parts
  <2> QED BY <1>2, <1>3, <2>1 DEF Askable
<1>9. CASE part = "statement"
  <2>1. /\ r2.statementFile = r.statementFile
        /\ r2.bundle = r.bundle /\ r2.evidence = r.evidence /\ r2.override = r.override
        /\ r2.root = r.root /\ r2.identity = r.identity
        /\ "record" \in DOMAIN r2.statement /\ r2.statement.record = rec
        BY <1>2, <1>9 DEF Parts
  <2> QED BY <1>2, <1>3, <2>1 DEF Askable
<1>10. CASE part = "statementFile"
  <2>1. /\ r2.bundle = r.bundle /\ r2.evidence = r.evidence /\ r2.override = r.override
        /\ r2.root = r.root /\ r2.identity = r.identity /\ r2.statement = r.statement
        /\ r2.statementFile \in {"unavailable", "malformed"}
        BY <1>2, <1>10 DEF Parts
  <2> QED BY <1>2, <1>3, <2>1 DEF Askable
<1>11. CASE part \notin {"bundle", "evidence", "override", "root", "statementFile",
                          "identity", "statement"}
  <2>1. /\ r2.statementFile = r.statementFile
        /\ r2.bundle = r.bundle /\ r2.evidence = r.evidence /\ r2.override = r.override
        /\ r2.root = r.root /\ r2.identity = r.identity /\ r2.statement = r.statement
        BY <1>2, <1>11 DEF Parts
  <2> QED BY <1>2, <1>3, <2>1 DEF Askable
<1> QED BY <1>4, <1>5, <1>6, <1>7, <1>8, <1>9, <1>10, <1>11

\* The evidence and the trust root that go amiss for publisher and consumer alike.
LEMMA MaterialAskable ==
  ASSUME NEW r, NEW rec, Askable(r, rec), NEW r2 \in AlteredMaterial(r)
  PROVE  Askable(r2, rec) /\ r2.by = r.by
<1>0. /\ "bundle" \in Parts \ {"by"} /\ "evidence" \in Parts \ {"by"}
      /\ "override" \in Parts \ {"by"} /\ "root" \in Parts \ {"by"}
      BY DEF Parts
<1>1. CASE r2 \in Altered(r, "bundle", {"malformed", "duplicate"})
      BY <1>0, <1>1, PartAskable
<1>2. CASE r2 \in Altered(r, "evidence", {"no_rekor", "late", "no_sct", "bad_signature"})
      BY <1>0, <1>2, PartAskable
<1>3. CASE r2 \in Altered(r, "override", {"set"})
      BY <1>0, <1>3, PartAskable
<1>4. CASE r2 \in Altered(r, "root", {"tuf_unreachable"})
  <2>1. {"tuf_unreachable"} \subseteq IF r.by = "publisher" THEN {"tuf_unreachable"}
                                      ELSE {"tuf_unreachable", "tuf_with_pinned", "pinned",
                                            "pinned_missing", "pinned_wrong", "pinned_stale"}
        OBVIOUS
  <2> QED BY <1>0, <1>4, <2>1, PartAskable
<1> QED BY <1>1, <1>2, <1>3, <1>4 DEF AlteredMaterial

\* The same for what the publish job is given.
LEMMA PublisherAskable ==
  ASSUME NEW r, NEW rec, Askable(r, rec), NEW r2 \in AlteredPublisherRequests(r)
  PROVE  Askable(r2, rec) /\ r2.by = r.by
<1>0. /\ "certificate" \in Parts \ {"by"} /\ "identity" \in Parts \ {"by"}
      /\ "statement" \in Parts \ {"by"}
      BY DEF Parts
<1>1. CASE r2 \in AlteredMaterial(r)
      BY <1>1, MaterialAskable
<1>2. CASE r2 \in Altered(r, "certificate", AlteredCertificates(r.certificate))
      BY <1>0, <1>2, PartAskable
<1>3. CASE r2 \in Altered(r, "identity",
                          UNION {Altered(r.identity, f, Other(f)) : f \in DOMAIN r.identity})
  <2> DEFINE values == UNION {Altered(r.identity, f, Other(f)) : f \in DOMAIN r.identity}
  <2>1. \A i \in values : DOMAIN i = ClaimNames
    <3> SUFFICES ASSUME NEW i \in values
                 PROVE  DOMAIN i = ClaimNames
        OBVIOUS
    <3>1. PICK f \in DOMAIN r.identity : i \in Altered(r.identity, f, Other(f))
          OBVIOUS
    <3> QED BY <3>1, AlteredPart DEF Askable
  <2> HIDE DEF values
  <2> QED BY <1>0, <1>3, <2>1, PartAskable DEF values
<1>4. CASE r2 \in Altered(r, "statement", AlteredStatements(r.statement))
  <2>1. \A s \in AlteredStatements(r.statement) : "record" \in DOMAIN s /\ s.record = rec
        BY AlteredRecord DEF Askable
  <2> QED BY <1>0, <1>4, <2>1, PartAskable
<1> QED BY <1>1, <1>2, <1>3, <1>4 DEF AlteredPublisherRequests

\* The same for what a consumer brings.
LEMMA ConsumerAskable ==
  ASSUME NEW r, NEW rec, Askable(r, rec), r.by = "consumer", NEW r2 \in AlteredConsumerRequests(r)
  PROVE  Askable(r2, rec) /\ r2.by = r.by
<1> DEFINE policies == UNION {Altered(r.policy, f, Other(f)) : f \in DOMAIN r.policy}
           files == {"unavailable", "malformed", "duplicate"}
           roots == {"tuf_with_pinned", "pinned", "pinned_missing", "pinned_wrong", "pinned_stale"}
<1>0. Parts \ {"by"} =
        {"bundle", "evidence", "override", "root", "certificate", "identity", "statement",
         "policyFile", "identityFile", "statementFile", "policy", "expected"}
      BY DEF Parts
<1>1. CASE r2 \in AlteredMaterial(r)
      BY <1>1, MaterialAskable
<1>2. CASE r2 \in Altered(r, "certificate", AlteredCertificates(r.certificate))
      BY <1>0, <1>2, PartAskable
<1>3. CASE r2 \in Altered(r, "identity", AlteredIdentities(r.identity))
  <2>1. \A i \in AlteredIdentities(r.identity) : DOMAIN i = ClaimNames
    <3> SUFFICES ASSUME NEW i \in AlteredIdentities(r.identity)
                 PROVE  DOMAIN i = ClaimNames
        OBVIOUS
    <3>1. PICK f \in DOMAIN r.identity : i \in Altered(r.identity, f, Other(f) \cup {Malformed(f)})
          BY DEF AlteredIdentities
    <3> QED BY <3>1, AlteredPart DEF Askable
  <2> QED BY <1>0, <1>3, <2>1, PartAskable
<1>4. CASE r2 \in Altered(r, "policy", policies)
  <2> HIDE DEF policies
  <2> QED BY <1>0, <1>4, PartAskable
<1>5. CASE r2 \in Altered(r, "expected", AlteredStatements(r.expected))
      BY <1>0, <1>5, PartAskable
<1>6. CASE r2 \in Altered(r, "bundle", {"unavailable"})
      BY <1>0, <1>6, PartAskable
<1>7. CASE \/ r2 \in Altered(r, "policyFile", files)
           \/ r2 \in Altered(r, "identityFile", files)
           \/ r2 \in Altered(r, "statementFile", {"unavailable", "malformed"})
      BY <1>0, <1>7, PartAskable
<1>8. CASE r2 \in Altered(r, "root", roots)
  <2>1. DOMAIN r = Parts /\ "root" \in DOMAIN r
        BY DEF Askable, Parts
  <2>2. /\ DOMAIN r2 = Parts /\ r2.root \in roots
        /\ \A other \in Parts : other # "root" => r2[other] = r[other]
    <3> HIDE DEF roots
    <3> QED BY <1>8, <2>1, AlteredPart
  <2>3. /\ r2.bundle = r.bundle /\ r2.evidence = r.evidence /\ r2.override = r.override
        /\ r2.statementFile = r.statementFile
        /\ r2.identity = r.identity /\ r2.statement = r.statement /\ r2.by = "consumer"
        BY <2>2 DEF Parts
  <2> QED BY <2>2, <2>3 DEF Askable
<1> QED BY <1>1, <1>2, <1>3, <1>4, <1>5, <1>6, <1>7, <1>8 DEF AlteredConsumerRequests

-----------------------------------------------------------------------------
(* The verdict.                                                            *)

\* The request is one that can come about; the verdict is that of its verifier.
VerdictInv ==
  /\ stage \in Signing => "record" \in DOMAIN statement
  /\ stage \in {"presented", "judged"} => Askable(request, record)
  /\ stage = "judged" =>
       verdict = Verdict(IF request.by = "publisher" THEN PublisherChecks(request)
                         ELSE ConsumerChecks(request))

\* Every step keeps it: only Present and GoesAmiss make a request, only Judge a verdict.
LEMMA NextVerdict ==
  ASSUME SourceInv, VerdictInv, [ReleaseNext]_releaseVars
  PROVE  VerdictInv'
<1>1. CASE Present
  <2>1. PICK by \in {"publisher", "consumer"} : request' = Request(by, statement)
        BY <1>1 DEF Present
  <2>2. stage = "signed" /\ stage' = "presented" /\ UNCHANGED <<record, statement>>
        BY <1>1 DEF Present, recordVars
  <2>3. statement.record = record /\ "record" \in DOMAIN statement
        BY <2>2 DEF SourceInv, VerdictInv, Signing
  <2>4. Askable(Request(by, statement), record)
        BY <2>3, RequestAskable
  <2>5. Askable(request', record')
        BY <2>1, <2>2, <2>4
  <2> QED BY <2>2, <2>3, <2>5 DEF VerdictInv
<1>2. CASE GoesAmiss
  <2>1. /\ stage = "presented" /\ UNCHANGED <<stage, record, statement>>
        /\ request' \in IF request.by = "publisher" THEN AlteredPublisherRequests(request)
                        ELSE AlteredConsumerRequests(request)
        BY <1>2 DEF GoesAmiss, recordVars, sourceVars
  <2>2. Askable(request, record) /\ "record" \in DOMAIN statement
        BY <2>1 DEF VerdictInv, Signing
  <2>3. Askable(request', record)
    <3>1. CASE request.by = "publisher"
          BY <2>1, <2>2, <3>1, PublisherAskable
    <3>2. CASE request.by # "publisher"
      <4>1. request.by = "consumer"
            BY <2>2, <3>2 DEF Askable
      <4> QED BY <2>1, <2>2, <3>2, <4>1, ConsumerAskable
    <3> QED BY <3>1, <3>2
  <2>4. Askable(request', record')
        BY <2>1, <2>3
  <2> QED BY <2>1, <2>2, <2>4 DEF VerdictInv
<1>3. CASE Judge
  <2>1. /\ stage = "presented" /\ stage' = "judged" /\ UNCHANGED <<record, statement, request>>
        /\ verdict' = Verdict(IF request.by = "publisher" THEN PublisherChecks(request)
                              ELSE ConsumerChecks(request))
        BY <1>3 DEF Judge, recordVars
  <2>2. Askable(request', record') /\ "record" \in DOMAIN statement'
        BY <2>1 DEF VerdictInv, Signing
  <2>3. verdict' = Verdict(IF request'.by = "publisher" THEN PublisherChecks(request')
                           ELSE ConsumerChecks(request'))
        BY <2>1
  <2> QED BY <2>1, <2>2, <2>3 DEF VerdictInv
<1>4. CASE Sign
  <2>1. /\ stage' \in {"signed", "refused"}
        /\ stage' = "signed" => statement' = Statement
        BY <1>4 DEF Sign, Refuse
  <2>2. "record" \in DOMAIN Statement
        BY DEF Statement
  <2> QED BY <2>1, <2>2 DEF VerdictInv, Signing
<1>5. CASE SourceRefStep \/ Analyze \/ SelectionRefused \/ CheckInput \/ CompareNpm
           \/ BuildPackReturns \/ Finalize
  <2>1. stage' \notin Signing
        BY <1>5 DEF SourceRefStep, ObserveSource, ResolveSourceRefTag, RefuseSourceRef, Refuse,
           Analyze, SelectionRefused, CheckInput, CheckSourceRef, CompareNpm, BuildPackReturns,
           Finalize, Signing, sourceVars
  <2> QED BY <2>1 DEF VerdictInv, Signing
<1>6. CASE UNCHANGED releaseVars
  <2>1. UNCHANGED <<stage, record, statement, request, verdict>>
        BY <1>6 DEF releaseVars, sourceVars, recordVars, verdictVars
  <2>2. stage' \in {"presented", "judged"} => Askable(request', record')
        BY <2>1 DEF VerdictInv
  <2>3. stage' = "judged" =>
          verdict' = Verdict(IF request'.by = "publisher" THEN PublisherChecks(request')
                             ELSE ConsumerChecks(request'))
        BY <2>1 DEF VerdictInv
  <2> QED BY <2>1, <2>2, <2>3 DEF VerdictInv
<1> QED BY <1>1, <1>2, <1>3, <1>4, <1>5, <1>6 DEF ReleaseNext

\* What is known of a release when a verdict is given.
LEMMA VerdictKnown == ReleaseSpec => [](SourceInv /\ CauseInv /\ VerdictInv)
<1>1. ReleaseInit => SelectionKnown /\ SourceInv /\ CauseInv /\ VerdictInv
  <2>1. ReleaseInit => VerdictInv
        BY DEF ReleaseInit, SourceInit, VerdictInv, Signing
  <2> QED BY <2>1, InitKnown, ReleaseInitSource, InitCause
<1>2. SelectionKnown /\ SourceInv /\ CauseInv /\ VerdictInv /\ [ReleaseNext]_releaseVars
        => (SelectionKnown /\ SourceInv /\ CauseInv /\ VerdictInv)'
      BY NextKnown, ReleaseNextSource, NextCause, NextVerdict DEF SelectionKnown
<1> QED BY <1>1, <1>2, PTL DEF ReleaseSpec

\* Verify is content exactly if the evidence holds and the certificate is the one expected, of
\* a request that is not about a pinned root the command could not even look at.
LEMMA VerifiesExactly ==
  ASSUME Askable(request, record), request.bundle # "unavailable",
         request.root \notin {"pinned_missing", "tuf_with_pinned"},
         NEW identity, DOMAIN identity = ClaimNames
  PROVE  Verifies(request, identity)
           <=> EvidenceHolds /\ validateIdentityExpectation(identity) /\ CertificateIs(identity)
<1>1. /\ request.bundle \in {"ok", "malformed", "duplicate"}
      /\ request.evidence \in {"ok", "no_rekor", "late", "no_sct", "bad_signature"}
      /\ request.root \in {"tuf", "tuf_unreachable", "pinned", "pinned_wrong", "pinned_stale"}
      BY DEF Askable
<1>2. EvidenceHolds
        <=> /\ request.bundle # "duplicate" /\ request.bundle # "malformed"
            /\ request.override = "none"
            /\ request.root \notin {"tuf_unreachable", "pinned_wrong", "pinned_stale"}
            /\ request.evidence \notin {"no_rekor", "late", "no_sct", "bad_signature"}
      BY <1>1 DEF EvidenceHolds
<1>3. CertificateIs(identity)
        <=> /\ request.certificate.san = identity.signer
            /\ request.certificate.issuer = identity.issuer
            /\ \A claim \in Range(ClaimOrder) : request.certificate[claim] = identity[claim]
      BY ClaimsAre DEF CertificateIs, ClaimNames
<1> QED BY <1>2, <1>3, Zenon DEF Verifies

\* What identityForStatement and validateStatement ask of the expectation, the certificate says
\* once it is the one expected.
LEMMA StatedAsCertified ==
  ASSUME DOMAIN request.identity = ClaimNames,
         NEW i, i = [request.identity EXCEPT !.run = request.statement.run],
         validateIdentityExpectation(i), CertificateIs(i),
         SignedInvocation(request.statement.record.source) = At(trigger.ref, trigger.revision)
  PROVE  /\ StatedFor(request.statement, request.identity)
              <=> /\ request.statement.repository = request.certificate.repository
                  /\ SignedInvocation(request.statement.record.source)
                       = At(request.certificate.ref, request.certificate.digest)
         /\ [path |-> WorkflowOf(request.identity.signer), sha |-> request.identity.workflowSHA]
              = [path |-> WorkflowOf(request.certificate.signer),
                 sha |-> request.certificate.workflowSHA]
<1>1. /\ DOMAIN i = ClaimNames /\ i.run = request.statement.run
      /\ \A claim \in ClaimNames \ {"run"} : i[claim] = request.identity[claim]
      BY DEF ClaimNames
<1>2. \A claim \in ClaimNames : request.certificate[claim] = i[claim]
      BY <1>1 DEF CertificateIs
<1>3. /\ request.certificate.repository = request.identity.repository
      /\ request.certificate.ref = request.identity.ref
      /\ request.certificate.digest = request.identity.digest
      /\ request.certificate.signer = request.identity.signer
      /\ request.certificate.workflowSHA = request.identity.workflowSHA
      /\ i.repository = request.identity.repository
      BY <1>1, <1>2 DEF ClaimNames
<1>4. ParseRunInvocationURI(request.statement.run, request.identity.repository)
  <2>1. ParseRunInvocationURI(i.run, i.repository)
        BY DEF validateIdentityExpectation
  <2> QED BY <1>1, <1>3, <2>1
<1> DEFINE s == SignedInvocation(request.statement.record.source)
<1>5. s = At(request.certificate.ref, request.certificate.digest)
        <=> s.ref = request.identity.ref /\ s.revision = request.identity.digest
      BY <1>3 DEF At
<1> HIDE DEF s
<1>6. StatedFor(request.statement, request.identity)
        <=> /\ request.statement.repository = request.identity.repository
            /\ s.ref = request.identity.ref /\ s.revision = request.identity.digest
      BY <1>4 DEF StatedFor, s
<1> QED BY <1>3, <1>5, <1>6 DEF s

\* The verdict of checks that all refuse is that they passed exactly if all of them did.
LEMMA PassedExactly ==
  ASSUME NEW checks, Refusals(checks)
  PROVE  Verdict(checks) = Passed <=> AllOk(checks)
<1>1. CASE Verdict(checks) = Passed
  <2>1. ASSUME NEW c \in Range(checks), ~c.ok, Verdict(checks) = [id |-> c.id, exit |-> c.exit]
        PROVE  FALSE
    <3>1. c.exit = 0
          BY <1>1, <2>1 DEF Passed
    <3> QED BY <2>1, <3>1 DEF Refusals
  <2> QED BY <1>1, <2>1, VerdictMeaning DEF Refusals, AllOk
<1>2. CASE Verdict(checks) # Passed
      BY <1>2, VerdictMeaning DEF Refusals, AllOk
<1> QED BY <1>1, <1>2

\* The verdict of the publish job, at the end of a release.
LEMMA PublisherIsRight ==
  SourceInv /\ CauseInv /\ VerdictInv => PublisherVerdictIsRight
<1> SUFFICES ASSUME SourceInv, CauseInv, VerdictInv, stage = "judged", request.by = "publisher"
             PROVE  verdict = Passed <=>
                      /\ EvidenceHolds
                      /\ validateIdentityExpectation(
                           [request.identity EXCEPT !.run = request.statement.run])
                      /\ CertificateIs([request.identity EXCEPT !.run = request.statement.run])
                      /\ request.statement.repository = request.certificate.repository
                      /\ SignedInvocation(request.statement.record.source)
                           = At(request.certificate.ref, request.certificate.digest)
                      /\ BuilderSigned
    BY Zenon DEF PublisherVerdictIsRight
<1> DEFINE i == [request.identity EXCEPT !.run = request.statement.run]
<1>1. /\ Askable(request, record) /\ verdict = Verdict(PublisherChecks(request))
      /\ validateExternalParameters(record)
      /\ SignedInvocation(record.source) = At(trigger.ref, trigger.revision)
      BY DEF VerdictInv, CauseInv, SourceInv, Accepted, Recorded, Finished, Signing
<1>2. /\ request.statement.record = record /\ DOMAIN request.identity = ClaimNames
      /\ request.bundle # "unavailable" /\ request.root \notin {"pinned_missing", "tuf_with_pinned"}
      BY <1>1 DEF Askable
<1>3. DOMAIN i = ClaimNames
      BY <1>2
<1>4. verdict = Passed <=> AllOk(PublisherChecks(request))
      BY <1>1, PublisherAsks, PassedExactly
<1>5. AllOk(PublisherChecks(request))
        <=> /\ StatedFor(request.statement, request.identity)
            /\ Verifies(request, i)
            /\ request.statement.builder
                 = [path |-> WorkflowOf(request.identity.signer), sha |-> request.identity.workflowSHA]
      BY <1>1, <1>2, PublisherAsks
<1> HIDE DEF i
<1>6. Verifies(request, i)
        <=> EvidenceHolds /\ validateIdentityExpectation(i) /\ CertificateIs(i)
      BY <1>1, <1>2, <1>3, VerifiesExactly
<1>7. ASSUME validateIdentityExpectation(i), CertificateIs(i)
      PROVE  /\ StatedFor(request.statement, request.identity)
                  <=> /\ request.statement.repository = request.certificate.repository
                      /\ SignedInvocation(request.statement.record.source)
                           = At(request.certificate.ref, request.certificate.digest)
             /\ [path |-> WorkflowOf(request.identity.signer), sha |-> request.identity.workflowSHA]
                  = [path |-> WorkflowOf(request.certificate.signer),
                     sha |-> request.certificate.workflowSHA]
      BY <1>1, <1>2, <1>7, StatedAsCertified DEF i
<1>8. verdict = Passed <=>
        /\ EvidenceHolds /\ validateIdentityExpectation(i) /\ CertificateIs(i)
        /\ request.statement.repository = request.certificate.repository
        /\ SignedInvocation(request.statement.record.source)
             = At(request.certificate.ref, request.certificate.digest)
        /\ BuilderSigned
      BY <1>4, <1>5, <1>6, <1>7 DEF BuilderSigned
<1> QED BY <1>8, Zenon DEF i

\* A list of checks each of which, if it fails, says either that something seen is wrong or that
\* something could not be seen, with the exit status the registry gives its diagnostic.
Sorted(s) ==
  IsList(s) /\ \A c \in Range(s) : c.exit \in {1, 2} /\ Report(c.id).exit = c.exit

\* Nothing that was seen is wrong; everything could be seen.
Sound(s)  == \A c \in Range(s) : c.exit = 1 => c.ok
Looked(s) == \A c \in Range(s) : c.exit = 2 => c.ok

\* Such lists put one behind the other.
LEMMA BothSorted ==
  ASSUME NEW s, NEW t, Sorted(s), Sorted(t)
  PROVE  /\ Sorted(s \o t)
         /\ Sound(s \o t) <=> Sound(s) /\ Sound(t)
         /\ Looked(s \o t) <=> Looked(s) /\ Looked(t)
<1>1. IsList(s \o t) /\ Range(s \o t) = Range(s) \cup Range(t)
      BY ListOfParts DEF Sorted
<1>2. Sorted(s \o t)
      BY <1>1 DEF Sorted
<1>3. Sound(s \o t) <=> Sound(s) /\ Sound(t)
      BY <1>1 DEF Sound
<1>4. Looked(s \o t) <=> Looked(s) /\ Looked(t)
      BY <1>1 DEF Looked
<1> QED BY <1>2, <1>3, <1>4

\* A list of refusals is one.
LEMMA RefusalsSorted ==
  ASSUME NEW s, Refusals(s)
  PROVE  Sorted(s) /\ (Sound(s) <=> AllOk(s)) /\ Looked(s)
<1>1. Sorted(s)
      BY DEF Refusals, Sorted
<1>2. Sound(s) <=> AllOk(s)
      BY DEF Refusals, Sound, AllOk
<1>3. Looked(s)
      BY DEF Refusals, Looked
<1> QED BY <1>1, <1>2, <1>3

\* The verdict of such a list has the exit status of its diagnostic, and that is right about
\* what was seen and what was not.
LEMMA SortedVerdict ==
  ASSUME NEW checks, Sorted(checks), NEW v, v = Verdict(checks)
  PROVE  /\ v = Passed <=> Sound(checks) /\ Looked(checks)
         /\ v.exit = Report(v.id).exit
         /\ v.exit = 2 => ~Looked(checks)
         /\ v.exit = 1 => ~Sound(checks)
<1>1. CASE (\A c \in Range(checks) : c.ok) /\ v = Passed
  <2>1. Sound(checks) /\ Looked(checks)
        BY <1>1 DEF Sound, Looked
  <2>2. v.exit = 0 /\ v.id = "accepted"
        BY <1>1 DEF Passed
  <2>3. Report("accepted").exit = 0
        BY DEF Report
  <2> QED BY <1>1, <2>1, <2>2, <2>3
<1>2. CASE \E c \in Range(checks) : ~c.ok /\ v = [id |-> c.id, exit |-> c.exit]
  <2>1. PICK c \in Range(checks) : ~c.ok /\ v = [id |-> c.id, exit |-> c.exit]
        BY <1>2
  <2>2. v.id = c.id /\ v.exit = c.exit /\ c.exit \in {1, 2} /\ Report(c.id).exit = c.exit
        BY <2>1 DEF Sorted
  <2>3. v # Passed
        BY <2>2 DEF Passed
  <2>4. (c.exit = 1 => ~Sound(checks)) /\ (c.exit = 2 => ~Looked(checks))
        BY <2>1 DEF Sound, Looked
  <2> QED BY <2>2, <2>3, <2>4
<1>3. IsList(checks)
      BY DEF Sorted
<1>4. \/ (\A c \in Range(checks) : c.ok) /\ v = Passed
      \/ \E c \in Range(checks) : ~c.ok /\ v = [id |-> c.id, exit |-> c.exit]
      BY <1>3, VerdictMeaning
<1> QED BY <1>1, <1>2, <1>4

\* A list of one check that says of something whether it could be looked at.
LEMMA OneLook ==
  ASSUME NEW c, c.exit = 2, Report(c.id).exit = 2
  PROVE  Sorted(<<c>>) /\ Sound(<<c>>) /\ (Looked(<<c>>) <=> c.ok)
<1>1. IsList(<<c>>) /\ Range(<<c>>) = {c}
      BY ListOfOne
<1> QED BY <1>1 DEF Sorted, Sound, Looked

\* Lists of two checks.
LEMMA TwoChecks ==
  ASSUME NEW a, NEW b, a.exit \in {1, 2}, Report(a.id).exit = a.exit,
         b.exit \in {1, 2}, Report(b.id).exit = b.exit
  PROVE  /\ Sorted(<<a, b>>)
         /\ Sound(<<a, b>>) <=> (a.exit = 1 => a.ok) /\ (b.exit = 1 => b.ok)
         /\ Looked(<<a, b>>) <=> (a.exit = 2 => a.ok) /\ (b.exit = 2 => b.ok)
<1>1. IsList(<<a, b>>) /\ Range(<<a, b>>) = {a, b}
      BY ListOfTwo
<1> QED BY <1>1 DEF Sorted, Sound, Looked

\* The diagnostics of what could not be looked at.
LEMMA LookingIds ==
  Report("input-unavailable").exit = 2 /\ Report("verification-mode-invalid").exit = 2
  BY DEF Report, ExitCode, Warnings, InvocationFailures

\* What bindIdentityPolicy asks of a Statement's parameters, a policy and an identity.
Bound(parameters, policy, identity) ==
  /\ parameters.repository = policy.repository
  /\ parameters.source.ref = policy.ref /\ parameters.source.revision = policy.digest
  /\ identity.repository = policy.repository /\ identity.workflowSHA = policy.workflowSHA
  /\ identity.runner = "ours"
  /\ identity.repositoryID = policy.repositoryID /\ identity.ownerID = policy.ownerID
  /\ PathOf(identity.signer) = policy.workflowPath
  /\ identity.ref = SignedInvocation(parameters.source).ref
  /\ identity.digest = SignedInvocation(parameters.source).revision

\* It asks for nothing else.
LEMMA PolicyChecks ==
  ASSUME NEW parameters, NEW policy, NEW identity
  PROVE  /\ Refusals(bindIdentityPolicy(parameters, policy, identity))
         /\ AllOk(bindIdentityPolicy(parameters, policy, identity))
              <=> Bound(parameters, policy, identity)
<1> DEFINE invocation == SignedInvocation(parameters.source)
           a == Check(parameters.repository = policy.repository, "source-identity-mismatch", 1)
           b == Check(parameters.source.ref = policy.ref, "source-ref-mismatch", 1)
           c == Check(parameters.source.revision = policy.digest, "source-digest-mismatch", 1)
           d == Check(/\ identity.repository = policy.repository
                      /\ identity.workflowSHA = policy.workflowSHA
                      /\ identity.runner = "ours", "policy-schema-invalid", 1)
           e == Check(identity.repositoryID = policy.repositoryID
                        /\ identity.ownerID = policy.ownerID, "source-numeric-id-mismatch", 1)
           f == Check(PathOf(identity.signer) = policy.workflowPath, "policy-schema-invalid", 1)
           g == Check(identity.ref = invocation.ref, "source-ref-mismatch", 1)
           h == Check(identity.digest = invocation.revision, "source-digest-mismatch", 1)
<1>1. /\ Refusing("source-identity-mismatch") /\ Refusing("source-ref-mismatch")
      /\ Refusing("source-digest-mismatch") /\ Refusing("policy-schema-invalid")
      /\ Refusing("source-numeric-id-mismatch")
      BY RefusingIds
<1> HIDE DEF invocation
<1>2. (a.ok <=> parameters.repository = policy.repository) /\ a.exit = 1 /\ Report(a.id).exit = 1
      BY <1>1 DEF Check, Refusing
<1>3. (b.ok <=> parameters.source.ref = policy.ref) /\ b.exit = 1 /\ Report(b.id).exit = 1
      BY <1>1 DEF Check, Refusing
<1>4. (c.ok <=> parameters.source.revision = policy.digest) /\ c.exit = 1 /\ Report(c.id).exit = 1
      BY <1>1 DEF Check, Refusing
<1>5. /\ d.ok <=> /\ identity.repository = policy.repository
                  /\ identity.workflowSHA = policy.workflowSHA
                  /\ identity.runner = "ours"
      /\ d.exit = 1 /\ Report(d.id).exit = 1
      BY <1>1 DEF Check, Refusing
<1>6. /\ e.ok <=> identity.repositoryID = policy.repositoryID /\ identity.ownerID = policy.ownerID
      /\ e.exit = 1 /\ Report(e.id).exit = 1
      BY <1>1 DEF Check, Refusing
<1>7. (f.ok <=> PathOf(identity.signer) = policy.workflowPath) /\ f.exit = 1 /\ Report(f.id).exit = 1
      BY <1>1 DEF Check, Refusing
<1>8. (g.ok <=> identity.ref = invocation.ref) /\ g.exit = 1 /\ Report(g.id).exit = 1
      BY <1>1 DEF Check, Refusing
<1>9. (h.ok <=> identity.digest = invocation.revision) /\ h.exit = 1 /\ Report(h.id).exit = 1
      BY <1>1 DEF Check, Refusing
<1>10. bindIdentityPolicy(parameters, policy, identity) = <<a, b, c, d, e, f, g, h>>
      BY DEF bindIdentityPolicy, invocation
<1> HIDE DEF a, b, c, d, e, f, g, h
<1> DEFINE list == <<a, b, c, d, e, f, g, h>>
<1>11. IsList(list) /\ Range(list) = {a, b, c, d, e, f, g, h}
      BY ListOfEight
<1> HIDE DEF list
<1>12. Refusals(list)
      BY <1>2, <1>3, <1>4, <1>5, <1>6, <1>7, <1>8, <1>9, <1>11 DEF Refusals
<1>13. AllOk(list) <=> a.ok /\ b.ok /\ c.ok /\ d.ok /\ e.ok /\ f.ok /\ g.ok /\ h.ok
      BY <1>11 DEF AllOk
<1>14. AllOk(list) <=> Bound(parameters, policy, identity)
      BY <1>2, <1>3, <1>4, <1>5, <1>6, <1>7, <1>8, <1>9, <1>13 DEF Bound, invocation
<1> QED BY <1>10, <1>12, <1>14 DEF list

\* What the consumer's command asks of what it sees, and what it has to see for that.
LEMMA ConsumerAsks ==
  ASSUME NEW r,
         NEW parameters,
         parameters = [repository |-> r.expected.repository, source |-> r.expected.record.source]
  PROVE  /\ Sorted(ConsumerChecks(r))
         /\ Sound(ConsumerChecks(r))
              <=> /\ r.policyFile \notin {"duplicate", "malformed"}
                  /\ r.identityFile \notin {"duplicate", "malformed"}
                  /\ r.statementFile # "malformed"
                  /\ Bound(parameters, r.policy, r.identity)
                  /\ Verifies(r, r.identity) /\ r.expected = r.statement
         /\ Looked(ConsumerChecks(r))
              <=> /\ r.bundle # "unavailable" /\ r.policyFile # "unavailable"
                  /\ r.identityFile # "unavailable" /\ r.statementFile # "unavailable"
                  /\ r.root \notin {"pinned_missing", "tuf_with_pinned"}
<1> DEFINE s1 == <<Unavailable(r.bundle # "unavailable"),
                   Unavailable(r.policyFile # "unavailable")>>
           s2 == DecodeExplicitPolicy(r.policyFile)
           s3 == <<Unavailable(r.identityFile # "unavailable")>>
           s4 == DecodeIdentity(r.identityFile)
           s5 == <<Unavailable(r.statementFile # "unavailable"),
                   Check(r.statementFile # "malformed", "statement-assembly-mismatch", 1)>>
           s6 == bindIdentityPolicy(parameters, r.policy, r.identity)
           s7 == PinnedRoot(r.root)
           same == r.expected = r.statement
           s8 == Verify(r, r.identity, same)
<1>0. /\ Refusing("duplicate-json-member") /\ Refusing("policy-schema-invalid")
      /\ Refusing("statement-assembly-mismatch")
      BY RefusingIds
<1>1. /\ Sorted(s1) /\ Sound(s1)
      /\ Looked(s1) <=> r.bundle # "unavailable" /\ r.policyFile # "unavailable"
  <2> DEFINE a == Unavailable(r.bundle # "unavailable")
             b == Unavailable(r.policyFile # "unavailable")
  <2>1. (a.ok <=> r.bundle # "unavailable") /\ a.exit = 2 /\ Report(a.id).exit = 2
        BY LookingIds DEF Unavailable, Check
  <2>2. (b.ok <=> r.policyFile # "unavailable") /\ b.exit = 2 /\ Report(b.id).exit = 2
        BY LookingIds DEF Unavailable, Check
  <2>3. s1 = <<a, b>>
        OBVIOUS
  <2> HIDE DEF a, b, s1
  <2> QED BY <2>1, <2>2, <2>3, TwoChecks
<1>2. Sorted(s2) /\ (Sound(s2) <=> r.policyFile \notin {"duplicate", "malformed"}) /\ Looked(s2)
  <2> DEFINE a == Typed(r.policyFile # "duplicate", "duplicate-json-member")
             b == Typed(r.policyFile # "malformed", "policy-schema-invalid")
  <2>1. (a.ok <=> r.policyFile # "duplicate") /\ a.exit = 1 /\ Report(a.id).exit = 1
        BY <1>0 DEF Typed, Check, Refusing
  <2>2. (b.ok <=> r.policyFile # "malformed") /\ b.exit = 1 /\ Report(b.id).exit = 1
        BY <1>0 DEF Typed, Check, Refusing
  <2>3. s2 = <<a, b>>
        BY DEF DecodeExplicitPolicy
  <2> HIDE DEF a, b, s2
  <2> QED BY <2>1, <2>2, <2>3, TwoChecks
<1>3. Sorted(s3) /\ Sound(s3) /\ (Looked(s3) <=> r.identityFile # "unavailable")
  <2> DEFINE a == Unavailable(r.identityFile # "unavailable")
  <2>1. (a.ok <=> r.identityFile # "unavailable") /\ a.exit = 2 /\ Report(a.id).exit = 2
        BY LookingIds DEF Unavailable, Check
  <2>2. s3 = <<a>>
        OBVIOUS
  <2> HIDE DEF a, s3
  <2> QED BY <2>1, <2>2, OneLook
<1>4. Sorted(s4) /\ (Sound(s4) <=> r.identityFile \notin {"duplicate", "malformed"}) /\ Looked(s4)
  <2> DEFINE a == Check(r.identityFile # "duplicate", "duplicate-json-member", 1)
             b == Check(r.identityFile # "malformed", "policy-schema-invalid", 1)
  <2>1. (a.ok <=> r.identityFile # "duplicate") /\ a.exit = 1 /\ Report(a.id).exit = 1
        BY <1>0 DEF Check, Refusing
  <2>2. (b.ok <=> r.identityFile # "malformed") /\ b.exit = 1 /\ Report(b.id).exit = 1
        BY <1>0 DEF Check, Refusing
  <2>3. s4 = <<a, b>>
        BY DEF DecodeIdentity
  <2> HIDE DEF a, b, s4
  <2> QED BY <2>1, <2>2, <2>3, TwoChecks
<1>5. /\ Sorted(s5) /\ (Sound(s5) <=> r.statementFile # "malformed")
      /\ Looked(s5) <=> r.statementFile # "unavailable"
  <2> DEFINE a == Unavailable(r.statementFile # "unavailable")
             b == Check(r.statementFile # "malformed", "statement-assembly-mismatch", 1)
  <2>1. (a.ok <=> r.statementFile # "unavailable") /\ a.exit = 2 /\ Report(a.id).exit = 2
        BY LookingIds DEF Unavailable, Check
  <2>2. (b.ok <=> r.statementFile # "malformed") /\ b.exit = 1 /\ Report(b.id).exit = 1
        BY <1>0 DEF Check, Refusing
  <2>3. s5 = <<a, b>>
        OBVIOUS
  <2> HIDE DEF a, b, s5
  <2> QED BY <2>1, <2>2, <2>3, TwoChecks
<1>6. Sorted(s6) /\ (Sound(s6) <=> Bound(parameters, r.policy, r.identity)) /\ Looked(s6)
  <2>1. Refusals(s6) /\ (AllOk(s6) <=> Bound(parameters, r.policy, r.identity))
        BY PolicyChecks
  <2> HIDE DEF s6
  <2> QED BY <2>1, RefusalsSorted
<1>7. /\ Sorted(s7) /\ Sound(s7)
      /\ Looked(s7) <=> r.root \notin {"pinned_missing", "tuf_with_pinned"}
  <2> DEFINE a == Unavailable(r.root # "pinned_missing")
             b == Check(r.root # "tuf_with_pinned", "verification-mode-invalid", 2)
  <2>1. (a.ok <=> r.root # "pinned_missing") /\ a.exit = 2 /\ Report(a.id).exit = 2
        BY LookingIds DEF Unavailable, Check
  <2>2. (b.ok <=> r.root # "tuf_with_pinned") /\ b.exit = 2 /\ Report(b.id).exit = 2
        BY LookingIds DEF Check
  <2>3. s7 = <<a, b>>
        BY DEF PinnedRoot
  <2> HIDE DEF a, b, s7
  <2> QED BY <2>1, <2>2, <2>3, TwoChecks
<1>8. Sorted(s8) /\ (Sound(s8) <=> Verifies(r, r.identity) /\ same) /\ Looked(s8)
  <2> HIDE DEF same
  <2>1. Refusals(s8) /\ (AllOk(s8) <=> Verifies(r, r.identity) /\ same)
        BY VerifyChecks
  <2> HIDE DEF s8
  <2> QED BY <2>1, RefusalsSorted
<1>9. ConsumerChecks(r) = s1 \o s2 \o s3 \o s4 \o s5 \o s6 \o s7 \o s8
      BY DEF ConsumerChecks
<1> HIDE DEF s1, s2, s3, s4, s5, s6, s7, s8
<1> DEFINE t2 == s1 \o s2
           t3 == t2 \o s3
           t4 == t3 \o s4
           t5 == t4 \o s5
           t6 == t5 \o s6
           t7 == t6 \o s7
           t8 == t7 \o s8
<1>10. ConsumerChecks(r) = t8
       BY <1>9
<1>12. /\ Sorted(t2) /\ (Sound(t2) <=> Sound(s1) /\ Sound(s2))
       /\ (Looked(t2) <=> Looked(s1) /\ Looked(s2))
       BY <1>1, <1>2, BothSorted
<1> HIDE DEF t2
<1>13. /\ Sorted(t3) /\ (Sound(t3) <=> Sound(t2) /\ Sound(s3))
       /\ (Looked(t3) <=> Looked(t2) /\ Looked(s3))
       BY <1>3, <1>12, BothSorted
<1> HIDE DEF t3
<1>14. /\ Sorted(t4) /\ (Sound(t4) <=> Sound(t3) /\ Sound(s4))
       /\ (Looked(t4) <=> Looked(t3) /\ Looked(s4))
       BY <1>4, <1>13, BothSorted
<1> HIDE DEF t4
<1>15. /\ Sorted(t5) /\ (Sound(t5) <=> Sound(t4) /\ Sound(s5))
       /\ (Looked(t5) <=> Looked(t4) /\ Looked(s5))
       BY <1>5, <1>14, BothSorted
<1> HIDE DEF t5
<1>16. /\ Sorted(t6) /\ (Sound(t6) <=> Sound(t5) /\ Sound(s6))
       /\ (Looked(t6) <=> Looked(t5) /\ Looked(s6))
       BY <1>6, <1>15, BothSorted
<1> HIDE DEF t6
<1>17. /\ Sorted(t7) /\ (Sound(t7) <=> Sound(t6) /\ Sound(s7))
       /\ (Looked(t7) <=> Looked(t6) /\ Looked(s7))
       BY <1>7, <1>16, BothSorted
<1> HIDE DEF t7
<1>18. /\ Sorted(t8) /\ (Sound(t8) <=> Sound(t7) /\ Sound(s8))
       /\ (Looked(t8) <=> Looked(t7) /\ Looked(s8))
       BY <1>8, <1>17, BothSorted
<1> HIDE DEF t8
<1>19. /\ Sound(t8) <=> /\ Sound(s2) /\ Sound(s4) /\ Sound(s5) /\ Sound(s6) /\ Sound(s8)
       /\ Looked(t8) <=> Looked(s1) /\ Looked(s3) /\ Looked(s5) /\ Looked(s7)
       BY <1>1, <1>2, <1>3, <1>4, <1>6, <1>7, <1>8, <1>12, <1>13, <1>14, <1>15, <1>16, <1>17, <1>18
<1> QED BY <1>1, <1>2, <1>3, <1>4, <1>5, <1>6, <1>7, <1>8, <1>10, <1>18, <1>19

\* Of the Statement that was signed, a policy that is met is the one bindIdentityPolicy asks
\* for, once the identity is a valid one and the certificate the one it describes.
LEMMA PolicyExactly ==
  ASSUME DOMAIN request.identity = ClaimNames, validateIdentityExpectation(request.identity),
         CertificateIs(request.identity),
         SignedInvocation(request.statement.record.source) = At(trigger.ref, trigger.revision),
         NEW parameters, parameters.repository = request.statement.repository,
         parameters.source = request.statement.record.source
  PROVE  Bound(parameters, request.policy, request.identity) <=> PolicyMet
<1> DEFINE i == request.identity
           c == request.certificate
           p == request.policy
           s == request.statement.record.source
           v == SignedInvocation(s)
<1>1. /\ c.repository = i.repository /\ c.repositoryID = i.repositoryID /\ c.ownerID = i.ownerID
      /\ c.workflowSHA = i.workflowSHA /\ c.signer = i.signer /\ c.ref = i.ref
      /\ c.digest = i.digest
      BY DEF CertificateIs, ClaimNames
<1>2. i.runner = "ours"
      BY DEF validateIdentityExpectation
<1>3. /\ At(p.ref, p.digest) = At(s.ref, s.revision) <=> s.ref = p.ref /\ s.revision = p.digest
      /\ At(c.ref, c.digest) = v <=> c.ref = v.ref /\ c.digest = v.revision
      BY DEF At
<1>4. (\A claim \in {"repository", "repositoryID", "ownerID", "workflowSHA"} : p[claim] = c[claim])
        <=> /\ p.repository = c.repository /\ p.repositoryID = c.repositoryID
            /\ p.ownerID = c.ownerID /\ p.workflowSHA = c.workflowSHA
      OBVIOUS
<1>5. PolicyMet
        <=> /\ At(p.ref, p.digest) = At(s.ref, s.revision)
            /\ At(c.ref, c.digest) = v
            /\ p.repository = request.statement.repository
            /\ \A claim \in {"repository", "repositoryID", "ownerID", "workflowSHA"} :
                 p[claim] = c[claim]
            /\ p.workflowPath = PathOf(c.signer)
      BY Zenon DEF PolicyMet
<1>6. Bound(parameters, p, i)
        <=> /\ request.statement.repository = p.repository
            /\ s.ref = p.ref /\ s.revision = p.digest
            /\ i.repository = p.repository /\ i.workflowSHA = p.workflowSHA
            /\ i.repositoryID = p.repositoryID /\ i.ownerID = p.ownerID
            /\ PathOf(i.signer) = p.workflowPath
            /\ i.ref = v.ref /\ i.digest = v.revision
      BY <1>2 DEF Bound
<1> HIDE DEF i, c, p, s, v
<1>7. Bound(parameters, p, i) <=> PolicyMet
      BY <1>1, <1>3, <1>4, <1>5, <1>6
<1> QED BY <1>7 DEF i, p

\* What ConsumerVerdictIsRight calls right.
ConsumerRight ==
  /\ Files \cap {"malformed", "duplicate"} = {}
  /\ EvidenceHolds /\ request.expected = request.statement
  /\ validateIdentityExpectation(request.identity) /\ CertificateIs(request.identity)
  /\ PolicyMet

\* The verdict a consumer is told: what the command looks at decides, and nothing else.
LEMMA ConsumerExactly ==
  ASSUME SourceInv, CauseInv, VerdictInv, stage = "judged", request.by = "consumer"
  PROVE  /\ verdict = Passed <=> ConsumerRight /\ ~NotSeen
         /\ verdict.exit = Report(verdict.id).exit
         /\ verdict.exit = 2 => NotSeen
         /\ verdict.exit = 1 => ~ConsumerRight
<1> DEFINE checks == ConsumerChecks(request)
           parameters == [repository |-> request.expected.repository,
                          source |-> request.expected.record.source]
           bound == Bound(parameters, request.policy, request.identity)
           verified == Verifies(request, request.identity)
<1>1. /\ Askable(request, record) /\ verdict = Verdict(checks)
      /\ SignedInvocation(record.source) = At(trigger.ref, trigger.revision)
      BY DEF VerdictInv, SourceInv, Recorded, Signing
<1>2. /\ request.statement.record = record /\ DOMAIN request.identity = ClaimNames
      /\ request.statementFile # "duplicate"
      BY <1>1 DEF Askable
<1>3. /\ Sorted(checks)
      /\ Sound(checks)
           <=> /\ request.policyFile \notin {"duplicate", "malformed"}
               /\ request.identityFile \notin {"duplicate", "malformed"}
               /\ request.statementFile # "malformed"
               /\ bound /\ verified /\ request.expected = request.statement
      /\ Looked(checks)
           <=> /\ request.bundle # "unavailable" /\ request.policyFile # "unavailable"
               /\ request.identityFile # "unavailable" /\ request.statementFile # "unavailable"
               /\ request.root \notin {"pinned_missing", "tuf_with_pinned"}
      BY ConsumerAsks
<1>4. /\ verdict = Passed <=> Sound(checks) /\ Looked(checks)
      /\ verdict.exit = Report(verdict.id).exit
      /\ verdict.exit = 2 => ~Looked(checks)
      /\ verdict.exit = 1 => ~Sound(checks)
  <2> HIDE DEF checks
  <2> QED BY <1>1, <1>3, SortedVerdict
<1>5. Looked(checks) <=> ~NotSeen
  <2> HIDE DEF checks
  <2> QED BY <1>3 DEF NotSeen, Files
<1>6. ASSUME request.expected = request.statement,
             validateIdentityExpectation(request.identity), CertificateIs(request.identity)
      PROVE  bound <=> PolicyMet
  <2>1. /\ parameters.repository = request.statement.repository
        /\ parameters.source = request.statement.record.source
        BY <1>6
  <2>2. SignedInvocation(request.statement.record.source) = At(trigger.ref, trigger.revision)
        BY <1>1, <1>2
  <2> HIDE DEF parameters
  <2> QED BY <1>2, <1>6, <2>1, <2>2, PolicyExactly
<1>7. ASSUME request.bundle # "unavailable",
             request.root \notin {"pinned_missing", "tuf_with_pinned"}
      PROVE  verified
               <=> /\ EvidenceHolds /\ validateIdentityExpectation(request.identity)
                   /\ CertificateIs(request.identity)
      BY <1>1, <1>2, <1>7, VerifiesExactly
<1> HIDE DEF checks, parameters, bound, verified
<1>8. EvidenceHolds => /\ request.bundle = "ok"
                       /\ request.root \notin {"pinned_missing", "tuf_with_pinned"}
      BY DEF EvidenceHolds
<1>9. ConsumerRight
        <=> /\ request.bundle \notin {"malformed", "duplicate"}
            /\ request.policyFile \notin {"malformed", "duplicate"}
            /\ request.identityFile \notin {"malformed", "duplicate"}
            /\ request.statementFile # "malformed"
            /\ EvidenceHolds /\ request.expected = request.statement
            /\ validateIdentityExpectation(request.identity) /\ CertificateIs(request.identity)
            /\ PolicyMet
      BY <1>2 DEF ConsumerRight, Files
<1>10. ConsumerRight => Sound(checks)
       BY <1>3, <1>6, <1>7, <1>8, <1>9
<1>11. Sound(checks) /\ Looked(checks) => ConsumerRight
  <2> SUFFICES ASSUME Sound(checks), Looked(checks)
               PROVE  ConsumerRight
      OBVIOUS
  <2>1. /\ request.bundle # "unavailable"
        /\ request.root \notin {"pinned_missing", "tuf_with_pinned"}
        BY <1>3
  <2>2. /\ EvidenceHolds /\ validateIdentityExpectation(request.identity)
        /\ CertificateIs(request.identity)
        BY <1>3, <1>7, <2>1
  <2>3. request.expected = request.statement /\ PolicyMet
        BY <1>3, <1>6, <2>2
  <2> QED BY <1>3, <1>8, <1>9, <2>2, <2>3
<1> QED BY <1>4, <1>5, <1>10, <1>11

\* That is right, of what the documents have accepted and of what is accepted.
LEMMA ConsumerIsRight ==
  SourceInv /\ CauseInv /\ VerdictInv => ConsumerVerdictIsRight
<1> SUFFICES ASSUME SourceInv, CauseInv, VerdictInv, stage = "judged", request.by = "consumer"
             PROVE  /\ verdict = Passed => ConsumerRight /\ ~NotSeen
                    /\ ConsumerRight /\ SignedByItsRun /\ ~NotSeen => verdict = Passed
                    /\ verdict.exit = Report(verdict.id).exit
                    /\ verdict.exit = 2 => NotSeen
                    /\ verdict.exit = 1 => ~(ConsumerRight /\ SignedByItsRun)
    BY Zenon DEF ConsumerVerdictIsRight, ConsumerRight
<1> QED BY ConsumerExactly

\* The publish job accepts a bundle exactly if its evidence holds and its certificate, issued to
\* this invocation in the run the Statement names, and its Statement agree: for every
\* expectation, certificate and Statement, and any number of things amiss.
THEOREM PublisherAcceptsItsOwn == ReleaseSpec => []PublisherVerdictIsRight
  BY VerdictKnown, PublisherIsRight, PTL

\* A consumer's verify-attestation accepts nothing but the expected Statement under a policy that
\* is met, and accepts it if the certificate is also of the run and the builder the Statement
\* names; its exit status tells what could not be looked at from what is wrong.  For every
\* policy, expectation, bundle and trust root, and any number of things amiss.
THEOREM ConsumerAcceptsThePolicy == ReleaseSpec => []ConsumerVerdictIsRight
  BY VerdictKnown, ConsumerIsRight, PTL
=============================================================================
