------------------------ MODULE DistributionEvidence ------------------------
(***************************************************************************)
(* prepareToolchain, captureDistribution and reconcileDeclaredDigest of    *)
(* internal/npmprofile: the build job lets Corepack acquire and run the    *)
(* selected pnpm or Yarn and records evidence of what was run.  The        *)
(* registry may answer every download with something else.                 *)
(*                                                                         *)
(* A digest is the body it is of.  Corepack (external) caches the bytes it *)
(* downloads, runs them from the cache and records their hash.             *)
(***************************************************************************)
EXTENDS DistributionFetch

CONSTANTS Releases,  \* versions a distribution may report
          ReleaseOf  \* the version a distribution reports

ASSUME ReleaseAssumption == ReleaseOf \in [Bodies -> Releases]

Declarations == [algorithm : {"sha512", "sha256"}, body : Bodies]

VARIABLES
  selected,   \* ManagerSelection: name, version, declared digest or Nothing
  stage,
  executed,   \* what Corepack runs
  authority,  \* the body the registry integrity or the download stands for
  record      \* DistributionCapture

evidenceVars == <<selected, stage, executed, authority, record>>

EvidenceTypeOK ==
  /\ selected \in [name : {"npm", "pnpm", "yarn"}, version : Releases,
                   digest : Declarations \cup {Nothing}]
  /\ stage \in {"observe", "acquire", "metadata", "authority", "compare", "reconcile",
                "rebind", "recorded", "refused"}
  /\ {executed, authority, record} \subseteq Bodies \cup {Nothing}

EvidenceInit ==
  /\ selected \in [name : {"npm", "pnpm", "yarn"}, version : Releases,
                   digest : Declarations \cup {Nothing}]
  /\ stage = "observe"
  /\ executed = Nothing /\ authority = Nothing /\ record = Nothing

Refuse == stage' = "refused" /\ UNCHANGED <<executed, authority, record>>
Record == stage' = "recorded" /\ record' = executed /\ UNCHANGED <<executed, authority>>

-----------------------------------------------------------------------------
\* Node.js, npm and the runner are observed; npm itself needs no distribution.
Observe ==
  /\ stage = "observe"
  /\ \/ stage' = (IF selected.name = "npm" THEN "recorded" ELSE "acquire")
        /\ UNCHANGED <<executed, authority, record>>
     \/ Refuse
  /\ UNCHANGED <<fetchVars, selected>>

\* Corepack downloads, caches and runs the manager, which must report the selection.
Acquire ==
  /\ stage = "acquire"
  /\ \/ \E b \in Bodies :
          /\ executed' = b
          /\ stage' = IF ReleaseOf[b] = selected.version THEN "metadata" ELSE "refused"
          /\ UNCHANGED <<authority, record>>
     \/ Refuse
  /\ UNCHANGED <<fetchVars, selected>>

\* The URL Corepack printed and the locator it stored name the selection.
ReadMetadata ==
  /\ stage = "metadata"
  /\ \/ stage' = "authority" /\ StartFetch /\ UNCHANGED <<executed, authority, record>>
     \/ Refuse /\ UNCHANGED fetchVars
  /\ UNCHANGED selected

\* pnpmRegistryIntegrity or downloadYarnDistribution; the packument may be malformed.
TakeAuthority ==
  /\ stage = "authority" /\ fetching \in {"done", "failed"}
  /\ \/ /\ fetching = "done"
        /\ authority' = body /\ stage' = "compare" /\ UNCHANGED <<executed, record>>
     \/ (fetching = "failed" \/ selected.name = "pnpm") /\ Refuse
  /\ TakeFetch /\ UNCHANGED selected

Compare ==
  /\ stage = "compare"
  /\ IF authority = executed
     THEN stage' = "reconcile" /\ UNCHANGED <<executed, authority, record>>
     ELSE Refuse
  /\ UNCHANGED <<fetchVars, selected>>

\* The registry evidence settles a declared sha512 of pnpm, the downloaded bundle any
\* digest of Yarn; pnpm is downloaded again for the other algorithms.
Reconcile ==
  /\ stage = "reconcile"
  /\ IF selected.digest = Nothing THEN Record /\ UNCHANGED fetchVars
     ELSE IF selected.name = "pnpm" /\ selected.digest.algorithm # "sha512"
     THEN stage' = "rebind" /\ StartFetch /\ UNCHANGED <<executed, authority, record>>
     ELSE /\ IF selected.digest.body = authority THEN Record ELSE Refuse
          /\ UNCHANGED fetchVars
  /\ UNCHANGED selected

\* Mutant: the second download is not bound to the registry evidence.
RebindLoose ==
  /\ stage = "rebind" /\ fetching \in {"done", "failed"}
  /\ IF fetching = "done" /\ selected.digest.body = body THEN Record ELSE Refuse
  /\ TakeFetch /\ UNCHANGED selected

\* The second download counts only when it is what the registry evidence stands for.
Rebind ==
  /\ stage = "rebind" /\ fetching \in {"done", "failed"}
  /\ IF fetching = "done" /\ body = authority /\ selected.digest.body = body
     THEN Record ELSE Refuse
  /\ TakeFetch /\ UNCHANGED selected

EvidenceStep ==
  Observe \/ Acquire \/ ReadMetadata \/ TakeAuthority \/ Compare \/ Reconcile \/ Rebind

-----------------------------------------------------------------------------
\* Recorded evidence is of the bytes Corepack ran: the registry stood for the same
\* bytes, and they are the ones the declared digest is of, though up to three
\* downloads of the same thing were answered differently (captureDistribution).
EvidenceBindsExecution ==
  stage = "recorded" /\ selected.name # "npm" =>
    /\ record = executed /\ authority = executed /\ executed # Nothing
    /\ ReleaseOf[executed] = selected.version
    /\ selected.digest # Nothing => selected.digest.body = executed

\* From the acquisition on the executed bytes report the selection, and from the
\* comparison on the authority stands for them.
EvidenceInv ==
  /\ EvidenceTypeOK
  /\ stage \in {"metadata", "authority", "compare", "reconcile", "rebind"} =>
       executed \in Bodies /\ ReleaseOf[executed] = selected.version
  /\ stage \in {"reconcile", "rebind"} => authority = executed
  /\ stage = "rebind" => selected.digest # Nothing
  /\ EvidenceBindsExecution
=============================================================================
