-------------------------- MODULE PackageSelection --------------------------
(***************************************************************************)
(* npm-profile-select and the start of npm-profile-build: Analyze finds    *)
(* the workspace root of the selected package, reads the package manager   *)
(* declarations of the package and of the root, selects a manager and      *)
(* checks its lockfile; the build compares a declared npm version with the *)
(* npm of the toolchain.  What the checkout holds is chosen when it is     *)
(* read; nothing writes to it until the installation starts.               *)
(***************************************************************************)
EXTENDS NpmRange, FiniteSetsExt

CONSTANTS
  Path,         \* the segments from the repository root to the selected package
  Metadata,     \* what the package.json and pnpm-workspace.yaml of a directory may say
  Descriptors,  \* what a package manager field may declare
  Ranges,       \* the npm ranges that may be declared
  Observed      \* the versions the npm of the toolchain may report

ASSUME PathAssumption ==
  /\ Path \in Seq(STRING)
  /\ \A m \in Metadata : \A pattern \in m.patterns : pattern \in Seq(STRING)

ASSUME RangeAssumption ==
  Ranges \subseteq Seq(Arms) /\ Observed \subseteq {v \in Released : Safe(v)}

\* A field gives a manager, with a version of which only an exact one counts; the bare name of
\* a manager gives none.
ASSUME DescriptorAssumption ==
  \A d \in Descriptors :
    /\ d.shape \in {"malformed", "bare", "full"} /\ d.exact \in {"yes", "no"}
    /\ d.version \in Versions
    /\ d.shape = "bare" => d.exact = "no"

Depth    == Len(Path)
Managers == {"npm", "pnpm", "yarn"}
Absent   == [shape |-> "absent", name |-> "other", exact |-> "no", version |-> Origin, suffix |-> "none"]
Unread   == [json |-> "none", pnpm |-> "none", patterns |-> {}]

\* packageManager and devEngines.packageManager of the package, then of the root.
Fields == 1 .. 4

VARIABLES
  pc,          \* the step Analyze, or the build after it, is at
  failure,     \* the diagnostic of a rejection
  metadata,    \* what discoverWorkspaceRoot has read, by depth of the directory
  candidate,   \* depth of the directory whose turn it is
  root,        \* depth of the package manager root
  rootRead,    \* does the root have a manifest of its own?
  field,       \* the field whose turn it is
  fields,      \* what the fields declare, as far as they were read
  lockfiles,   \* what is found under the name of each manager's lockfile
  selection,   \* the selected manager, the field that selected it (0: a lockfile)
  ignored,     \* the managers whose lockfiles are reported as stale
  declared,    \* the npm range the selection declares
  observed,    \* the npm version of the toolchain
  warned       \* was a version mismatch reported?

walkVars == <<metadata, candidate, root, rootRead>>
fieldVars == <<field, fields, lockfiles, selection, ignored>>
buildVars == <<declared, observed, warned>>
vars == <<pc, failure, walkVars, fieldVars, buildVars>>

Init ==
  /\ pc = "resolve" /\ failure = "none"
  /\ metadata = [d \in 0 .. Depth |-> Unread] /\ candidate = Depth /\ root = Depth
  /\ rootRead = "no"
  /\ field = 1 /\ fields = [f \in Fields |-> Absent]
  /\ lockfiles = [m \in Managers |-> "unread"]
  /\ selection = [name |-> "other", source |-> 0] /\ ignored = {}
  /\ declared = <<>> /\ observed = Origin /\ warned = "no"

Reject(id) == pc' = "rejected" /\ failure' = id

-----------------------------------------------------------------------------
(* resolvePackage: the selected package.                                   *)

PackageFaults ==
  [no_directory |-> "package-resolution-invalid", malformed |-> "package-manifest-invalid",
   unnamed |-> "package-metadata-required", private |-> "package-private",
   foreign |-> "package-repository-identity-mismatch"]

ResolvePackage ==
  /\ pc = "resolve"
  /\ \/ pc' = "walk" /\ UNCHANGED failure
     \/ \E fault \in DOMAIN PackageFaults : Reject(PackageFaults[fault])
  /\ UNCHANGED <<walkVars, fieldVars, buildVars>>

-----------------------------------------------------------------------------
(* discoverWorkspaceRoot: from the package upward, one directory a step.   *)

\* The path of the package relative to the directory at depth d.
RelativeTo(d) == SubSeq(Path, d + 1, Depth)

\* The matcher in which ** stands for at least one segment.
MatchOneOrMore(pattern, relative) ==
  LET match[i \in 1 .. Len(pattern) + 1] ==
        [j \in 1 .. Len(relative) + 1 |->
           IF i > Len(pattern) THEN j > Len(relative)
           ELSE IF pattern[i] = "**"
           THEN \E k \in j + 1 .. Len(relative) + 1 : match[i + 1][k]
           ELSE j <= Len(relative) /\ pattern[i] \in {"*", relative[j]} /\ match[i + 1][j + 1]]
  IN match[1][1]

\* match[i][j]: the pattern from segment i on lies along the path from segment j on.
MatchWorkspacePattern(pattern, relative) ==
  LET match[i \in 1 .. Len(pattern) + 1] ==
        [j \in 1 .. Len(relative) + 1 |->
           IF i > Len(pattern) THEN j > Len(relative)
           ELSE IF pattern[i] = "**"
           THEN \E k \in j .. Len(relative) + 1 : match[i + 1][k]
           ELSE j <= Len(relative) /\ pattern[i] \in {"*", relative[j]} /\ match[i + 1][j + 1]]
  IN match[1][1]

Matched(m, d) == \E pattern \in m.patterns : MatchWorkspacePattern(pattern, RelativeTo(d))

BecomesRoot(d, m) ==
  /\ pc' = "rooted" /\ root' = d
  /\ rootRead' = IF d = Depth \/ m.json = "missing" THEN "no" ELSE "yes"
  /\ UNCHANGED <<failure, candidate>>

Readable(m) == m.json # "malformed" /\ m.pnpm # "malformed"

\* The metadata has workspace patterns, or claims nothing at all.
NoClaim(m) == Readable(m) /\ m.pnpm # "settings" /\ ~Matched(m, candidate)

ReadMetadata ==
  /\ pc = "walk"
  /\ \E m \in Metadata :
       /\ candidate = Depth => m.json # "missing"
       /\ metadata' = [metadata EXCEPT ![candidate] = m]
       /\ \/ ~Readable(m) /\ Reject("package-resolution-invalid") /\ UNCHANGED <<candidate, root, rootRead>>
          \/ /\ Readable(m) /\ m.pnpm = "settings" /\ candidate # Depth
             /\ Reject("package-resolution-invalid") /\ UNCHANGED <<candidate, root, rootRead>>
          \/ /\ Readable(m)
             /\ IF m.pnpm = "settings" THEN candidate = Depth ELSE Matched(m, candidate)
             /\ BecomesRoot(candidate, m)
          \/ /\ NoClaim(m) /\ candidate > 0
             /\ candidate' = candidate - 1
             /\ UNCHANGED <<pc, failure, root, rootRead>>
          \/ NoClaim(m) /\ candidate = 0 /\ BecomesRoot(Depth, m)
  /\ UNCHANGED <<fieldVars, buildVars>>

\* discoverWorkspaceRoot returns: what it has read goes out of scope.
RootFound ==
  /\ pc = "rooted"
  /\ pc' = "fields"
  /\ metadata' = [d \in 0 .. Depth |-> Unread] /\ candidate' = Depth
  /\ UNCHANGED <<failure, root, rootRead, fieldVars, buildVars>>

-----------------------------------------------------------------------------
(* manifestCandidates: the fields in their order.                          *)

PNPMUnsupported(v) == Less(v, Release(10, 0, 0)) \/ v.major \notin {10, 11}
YarnUnsupported(v) == v.major \notin {4, 5}

\* classifyDescriptorVersion; "none" accepts.
Classify(d) ==
  CASE d.name \notin Managers -> "package-manager-conflict"
    [] d.name \in Managers /\ (d.suffix = "malformed" \/ (d.name = "npm" /\ d.suffix # "none")) ->
         "package-manager-digest-malformed"
    [] d.name = "npm" /\ d.suffix = "none" -> "none"
    [] d.name = "pnpm" /\ d.suffix # "malformed" ->
         IF d.exact = "no" THEN "package-manager-version-required"
         ELSE IF PNPMUnsupported(d.version) THEN "pnpm-version-unsupported" ELSE "none"
    [] d.name = "yarn" /\ d.suffix # "malformed" ->
         IF d.exact = "no" \/ Less(d.version, Release(4, 0, 0)) THEN "yarn-selection-invalid"
         ELSE IF YarnUnsupported(d.version) THEN "yarn-version-unsupported" ELSE "none"

\* parsePackageManager (fields 1 and 3) needs a version, parseDevEngines does not.
Parse(f, d) ==
  CASE d.shape = "malformed" -> "package-manager-conflict"
    [] d.shape = "bare" /\ f \in {1, 3} ->
         CASE d.name = "yarn" -> "yarn-selection-invalid"
           [] d.name = "pnpm" -> "package-manager-version-required"
           [] OTHER -> "package-manager-conflict"
    [] OTHER -> Classify(d)

LastField == IF rootRead = "yes" THEN 4 ELSE 2

ReadField ==
  /\ pc = "fields" /\ field <= LastField
  /\ \E d \in Descriptors \cup {Absent} :
       /\ fields' = [fields EXCEPT ![field] = d]
       /\ IF d = Absent \/ Parse(field, d) = "none"
          THEN field' = field + 1 /\ UNCHANGED <<pc, failure>>
          ELSE Reject(Parse(field, d)) /\ UNCHANGED field
  /\ UNCHANGED <<lockfiles, selection, ignored, walkVars, buildVars>>

-----------------------------------------------------------------------------
(* selectManager and its lockfile.                                         *)

Declaring == {f \in Fields : fields[f] # Absent}

\* The comparison that forgets the digests.
ConflictByVersion(d, e) == d.name # e.name \/ (d.name # "npm" /\ d.version # e.version)

Conflict(d, e) ==
  d.name # e.name \/ (d.name # "npm" /\ (d.version # e.version \/ d.suffix # e.suffix))

SelectManager ==
  /\ pc = "fields" /\ field > LastField /\ Declaring # {}
  /\ LET first == Min(Declaring)
     IN IF \E f \in Declaring : Conflict(fields[f], fields[first])
        THEN Reject("package-manager-conflict") /\ UNCHANGED selection
        ELSE /\ selection' = [name |-> fields[first].name, source |-> first]
             /\ pc' = "lockfiles" /\ UNCHANGED failure
  /\ UNCHANGED <<field, fields, lockfiles, ignored, walkVars, buildVars>>

\* Lockfiles that are regular files; anything else under their names is an error.
Findings == [Managers -> {"absent", "regular", "odd"}]
Regular(found) == {m \in Managers : found[m] = "regular"}
Odd(found) == {m \in Managers : found[m] = "odd"}

ValidateLockfiles ==
  /\ pc = "lockfiles"
  /\ \E found \in Findings :
       /\ lockfiles' = found
       /\ IF Odd(found) # {} \/ selection.name \notin Regular(found)
          THEN Reject("required-lockfile-missing") /\ UNCHANGED ignored
          ELSE pc' = "selected" /\ ignored' = Regular(found) \ {selection.name} /\ UNCHANGED failure
  /\ UNCHANGED <<field, fields, selection, walkVars, buildVars>>

InferFromLockfile ==
  /\ pc = "fields" /\ field > LastField /\ Declaring = {}
  /\ \E found \in Findings :
       /\ lockfiles' = found
       /\ \/ /\ Odd(found) # {} \/ Cardinality(Regular(found)) # 1
             /\ Reject("package-manager-conflict") /\ UNCHANGED selection
          \/ /\ Odd(found) = {} /\ Regular(found) = {"npm"}
             /\ selection' = [name |-> "npm", source |-> 0]
             /\ pc' = "selected" /\ UNCHANGED failure
          \/ /\ Odd(found) = {} /\ Regular(found) = {"pnpm"}
             /\ Reject("package-manager-version-required") /\ UNCHANGED selection
          \/ /\ Odd(found) = {} /\ Regular(found) = {"yarn"}
             /\ Reject("yarn-selection-invalid") /\ UNCHANGED selection
  /\ UNCHANGED <<field, fields, ignored, walkVars, buildVars>>

\* Analyze returns: of what it read, the selection keeps the declaration that made it.
AnalyzeReturns ==
  /\ pc = "selected"
  /\ pc' = "analyzed"
  /\ field' = 1 /\ rootRead' = "no"
  /\ fields' = [f \in Fields |-> IF f = selection.source THEN fields[f] ELSE Absent]
  /\ lockfiles' = [m \in Managers |-> "unread"]
  /\ UNCHANGED <<failure, metadata, candidate, root, selection, ignored, buildVars>>

-----------------------------------------------------------------------------
(* npmDeclaredVersionWarning, once the build knows the npm of its toolchain. *)

DeclaresVersion ==
  selection.name = "npm" /\ selection.source # 0 /\ fields[selection.source].shape = "full"

CompareVersion ==
  /\ pc = "analyzed" /\ DeclaresVersion
  /\ \E range \in Ranges, v \in Observed :
       /\ declared' = range /\ observed' = v
       /\ warned' = IF DeclaredMatchesActual(range, v) THEN "no" ELSE "yes"
  /\ pc' = "compared"
  /\ UNCHANGED <<failure, walkVars, fieldVars>>

NothingToCompare ==
  /\ pc = "analyzed" /\ ~DeclaresVersion
  /\ pc' = "compared"
  /\ UNCHANGED <<failure, walkVars, fieldVars, buildVars>>

Next ==
  \/ ResolvePackage \/ ReadMetadata \/ RootFound \/ ReadField \/ SelectManager
  \/ ValidateLockfiles \/ InferFromLockfile \/ AnalyzeReturns
  \/ CompareVersion \/ NothingToCompare

Spec == Init /\ [][Next]_vars

-----------------------------------------------------------------------------
(* Properties.                                                             *)

\* A pattern claims a path if its segments can be laid along it: each over one segment,
\* ** over any number of them.
Lies(pattern, relative) ==
  \E cut \in [1 .. Len(pattern) + 1 -> 0 .. Len(relative)] :
    /\ cut[1] = 0 /\ cut[Len(pattern) + 1] = Len(relative)
    /\ \A i \in 1 .. Len(pattern) :
         IF pattern[i] = "**" THEN cut[i] <= cut[i + 1]
         ELSE cut[i + 1] = cut[i] + 1 /\ pattern[i] \in {"*", relative[cut[i + 1]]}

Claims(d) ==
  IF metadata[d].pnpm = "settings" THEN d = Depth
  ELSE \E pattern \in metadata[d].patterns : Lies(pattern, RelativeTo(d))

\* Metadata that must stop the selection rather than be passed over.
Blocks(d) == ~Readable(metadata[d]) \/ (metadata[d].pnpm = "settings" /\ d # Depth)

\* The root is the nearest directory whose workspace metadata claims the package, or the
\* package itself if none does; metadata that is malformed, or that of a settings-only pnpm
\* workspace above the package, is never passed over in favour of a farther directory, and
\* nothing else makes the search fail.
NearestClaimingRoot ==
  /\ pc = "rooted" =>
       LET claiming == {d \in candidate .. Depth : Claims(d)}
       IN /\ \A d \in candidate .. Depth : ~Blocks(d)
          /\ root = IF claiming = {} THEN Depth ELSE Max(claiming)
          /\ claiming = {} => candidate = 0
  /\ pc = "rejected" /\ metadata[candidate] # Unread =>
       /\ Blocks(candidate)
       /\ \A d \in candidate + 1 .. Depth : ~Blocks(d) /\ ~Claims(d)

\* A declaration d of field f that the profile supports: an npm without digest, or an exact version of
\* pnpm 10 or 11 (the release 10.0.0 included) or of Yarn 4 or 5 (likewise).
Supported(f, d) ==
  LET within(from, upto) ==
        d.exact = "yes" /\ ~Less(d.version, from) /\ d.version.major <= upto
  IN /\ d.shape = "full" \/ (d.shape = "bare" /\ f \in {2, 4} /\ d.name = "npm")
     /\ \/ d.name = "npm" /\ d.suffix = "none"
        \/ d.name = "pnpm" /\ d.suffix # "malformed" /\ within(Release(10, 0, 0), 11)
        \/ d.name = "yarn" /\ d.suffix # "malformed" /\ within(Release(4, 0, 0), 5)

\* Two fields that cannot both be obeyed.
Disagree(f, g) ==
  \/ fields[f].name # fields[g].name
  \/ /\ fields[f].name # "npm"
     /\ fields[f].version # fields[g].version \/ fields[f].suffix # fields[g].suffix

Found == {m \in Managers : lockfiles[m] = "regular"}

\* The decision matrix: declarations are supported and agree, the manager they name has its
\* lockfile, and without declarations the only lockfile is that of npm.
Admissible ==
  /\ \A f \in Declaring : Supported(f, fields[f])
  /\ \A f, g \in Declaring : ~Disagree(f, g)
  /\ \A m \in Managers : lockfiles[m] # "odd"
  /\ IF Declaring = {} THEN Found = {"npm"}
     ELSE lockfiles["npm"] # "unread" => \A f \in Declaring : fields[f].name \in Found

\* A manager is selected exactly if the matrix admits what the checkout declares: no lower
\* field is overridden silently, no lockfile replaces a declaration, the first field that
\* declares it is recorded, and the other lockfiles are reported as stale.
SelectionFollowsMatrix ==
  /\ pc = "selected" =>
       /\ Admissible
       /\ IF Declaring = {} THEN selection = [name |-> "npm", source |-> 0]
          ELSE selection = [name |-> fields[Min(Declaring)].name, source |-> Min(Declaring)]
       /\ ignored = Found \ {selection.name}
  /\ pc = "rejected" /\ (Declaring # {} \/ lockfiles["npm"] # "unread") => ~Admissible

\* A build with npm that does not warn runs an npm its declaration allows, and one that
\* warns runs an npm no well-formed declaration allows; other builds never warn.
WarningIsRight ==
  pc = "compared" =>
    IF ~DeclaresVersion THEN warned = "no"
    ELSE /\ warned = "no" => Satisfies(declared, observed)
         /\ warned = "yes" => \/ ~Satisfies(declared, observed)
                              \/ \E i \in DOMAIN declared : ~ArmParses(declared[i])
=============================================================================
