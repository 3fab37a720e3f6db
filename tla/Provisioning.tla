---------------------------- MODULE Provisioning ----------------------------
(***************************************************************************)
(* The steps of a release job that put the pinned Node.js runtime and, in  *)
(* the publish job, the pinned npm CLI on the runner: provision_node.go,   *)
(* provision_npm.go, toolchain_assert.go, publish_provision_boundary.go,   *)
(* their commands, and the steps of the workflow that run them.            *)
(*                                                                         *)
(* A download is authenticated by digest, extracted entry by entry into a  *)
(* private directory, inspected, and handed on by path; a failure removes  *)
(* the directory, and the process may be killed at any point.  The context *)
(* is context.Background, so its checks never fail.                        *)
(***************************************************************************)
EXTENDS DistributionFetch

CONSTANTS
  Pins,       \* the embedded pins: functions from Tools to [archive, version]
  Versions,
  VersionOf,  \* the version an archive says it holds
  Safe,       \* archives every entry of which is admitted
  LaidOut,    \* archives with the layout that is asked for
  Entries     \* entries of an archive (bound)

Tools == {"node", "npm"}

ASSUME PinAssumption == Pins \subseteq [Tools -> [archive : Bodies, version : Versions]]
ASSUME ArchiveAssumption ==
  VersionOf \in [Bodies -> Versions] /\ Safe \subseteq Bodies /\ LaidOut \subseteq Bodies
ASSUME EntriesAssumption == Entries \in Nat \ {0}

VARIABLES
  job,       \* "build" or "publish"
  pins, ambient,   \* the embedded pins; the version of the runner's own node
  step, phase,     \* the workflow step; where it is, or "failed"
  tree,      \* per tool, the private directory: its archive and entries written
  onPath,    \* which node exec.LookPath finds
  launcher,  \* the node the npm launcher runs
  outputs,   \* tools whose path was written to $GITHUB_OUTPUT
  stuck,     \* tools whose directory could not be removed
  verdict    \* the diagnostic of the failed step

setting == <<job, pins, ambient>>
provisionVars == <<setting, step, phase, tree, onPath, launcher, outputs, stuck, verdict>>

Trees == [archive : Bodies, entries : 0 .. Entries]
ASSUME NoTreeAssumption == Nothing \notin Trees

ProvisionTypeOK ==
  /\ job \in {"build", "publish"} /\ pins \in Pins /\ ambient \in Versions
  /\ step \in Tools \cup {"bind", "assert", "use", "ready"}
  /\ phase \in {"idle", "fetch", "make", "extract", "verify", "launch", "output",
                "remove", "failed"}
  /\ tree \in [Tools -> Trees \cup {Nothing}]
  /\ onPath \in {"ambient", "provisioned"}
  /\ launcher \in {"ambient", "provisioned", Nothing}
  /\ outputs \subseteq Tools /\ stuck \subseteq Tools

ProvisionInit ==
  /\ job \in {"build", "publish"} /\ pins \in Pins /\ ambient \in Versions
  /\ step = "node" /\ phase = "idle"
  /\ tree = [t \in Tools |-> Nothing]
  /\ onPath = "ambient" /\ launcher = Nothing
  /\ outputs = {} /\ stuck = {} /\ verdict = Nothing

\* The step the workflow runs after a step that succeeded.
After == [s \in Tools \cup {"bind", "assert", "use"} |->
            CASE s = "node" -> "bind"
              [] s = "bind" -> "assert"
              [] s = "assert" -> IF job = "publish" THEN "npm" ELSE "ready"
              [] s = "npm" -> "use"
              [] s = "use" -> "ready"]

Fail(id) == phase' = "failed" /\ verdict' = id
FailInside(id) == phase' = "remove" /\ verdict' = id

-----------------------------------------------------------------------------
Provision ==
  /\ step \in Tools /\ phase = "idle"
  /\ StartFetch /\ phase' = "fetch"
  /\ UNCHANGED <<setting, step, tree, onPath, launcher, outputs, stuck, verdict>>

\* The download returned: an error, bytes that are not the pinned ones, or the pin.
CheckDigest ==
  /\ phase = "fetch" /\ fetching \in {"done", "failed"}
  /\ \/ fetching = "failed" /\ Fail("download") /\ TakeFetch
     \/ /\ fetching = "done" /\ body # pins[step].archive
        /\ Fail("digest-mismatch") /\ TakeFetch
     \/ /\ fetching = "done" /\ body = pins[step].archive
        /\ phase' = "make" /\ UNCHANGED <<fetchVars, verdict>>
  /\ UNCHANGED <<setting, step, tree, onPath, launcher, outputs, stuck>>

MakePrivate ==
  /\ phase = "make"
  /\ \/ /\ phase' = "extract" /\ UNCHANGED verdict
        /\ tree' = [tree EXCEPT ![step] = [archive |-> body, entries |-> 0]]
     \/ Fail("archive-unsafe") /\ UNCHANGED tree
  /\ TakeFetch
  /\ UNCHANGED <<setting, step, onPath, launcher, outputs, stuck>>

\* One entry of the archive; the last of an unsafe one is refused.
ExtractEntry ==
  /\ phase = "extract" /\ tree[step].entries < Entries
  /\ tree[step].entries = Entries - 1 => tree[step].archive \in Safe
  /\ tree' = [tree EXCEPT ![step].entries = @ + 1]
  /\ UNCHANGED <<fetchVars, setting, step, phase, onPath, launcher, outputs, stuck, verdict>>

\* An entry refused, the disk full, or a damaged gzip trailer found by the drain.  A
\* link of the Node.js archive that is not one of the three is a layout violation.
ExtractFails ==
  /\ phase = "extract"
  /\ FailInside("archive-unsafe") \/ (step = "node" /\ FailInside("layout-violation"))
  /\ UNCHANGED <<fetchVars, setting, step, tree, onPath, launcher, outputs, stuck>>

ExtractEnds ==
  /\ phase = "extract" /\ tree[step].entries = Entries
  /\ phase' = "verify"
  /\ UNCHANGED <<fetchVars, setting, step, tree, onPath, launcher, outputs, stuck, verdict>>

\* Mutant: a failing inspection of the archive returns past the deferred removal.
VerifyLeaves ==
  /\ phase = "verify"
  /\ \/ /\ tree[step].archive \in LaidOut
        /\ VersionOf[tree[step].archive] = pins[step].version
        /\ phase' = IF step = "npm" THEN "launch" ELSE "output"
        /\ UNCHANGED verdict
     \/ Fail("version-mismatch")
  /\ UNCHANGED <<fetchVars, setting, step, tree, onPath, launcher, outputs, stuck>>

\* Layout and recorded version; a read that fails counts as a difference.  npm looks
\* the node of its launcher up now.
Verify ==
  /\ phase = "verify"
  /\ \/ /\ tree[step].archive \in LaidOut
        /\ VersionOf[tree[step].archive] = pins[step].version
        /\ phase' = IF step = "npm" THEN "launch" ELSE "output"
        /\ UNCHANGED verdict
     \/ step = "node" /\ FailInside("layout-violation")
     \/ FailInside("version-mismatch")
  /\ UNCHANGED <<fetchVars, setting, step, tree, onPath, launcher, outputs, stuck>>

WriteLauncher ==
  /\ phase = "launch"
  /\ \/ phase' = "output" /\ launcher' = onPath /\ UNCHANGED verdict
     \/ FailInside("archive-unsafe") /\ UNCHANGED launcher
  /\ UNCHANGED <<fetchVars, setting, step, tree, onPath, outputs, stuck>>

\* The deferred RemoveAll of a failed provisioning; its own error is joined.
RemovePrivate ==
  /\ phase = "remove" /\ phase' = "failed"
  /\ \/ tree' = [tree EXCEPT ![step] = Nothing] /\ UNCHANGED stuck
     \/ stuck' = stuck \cup {step} /\ UNCHANGED tree
  /\ UNCHANGED <<fetchVars, setting, step, onPath, launcher, outputs, verdict>>

\* The command writes its output; the directory stays with the job when it cannot.
WriteOutput ==
  /\ phase = "output"
  /\ \/ /\ outputs' = outputs \cup {step}
        /\ step' = After[step] /\ phase' = "idle" /\ UNCHANGED verdict
     \/ Fail("outputs") /\ UNCHANGED <<step, outputs>>
  /\ UNCHANGED <<fetchVars, setting, tree, onPath, launcher, stuck>>

-----------------------------------------------------------------------------
\* Mutant: the path is written where later steps do not read it.
BindElsewhere ==
  /\ step = "bind" /\ phase = "idle"
  /\ step' = After[step]
  /\ UNCHANGED <<fetchVars, setting, phase, tree, onPath, launcher, outputs, stuck, verdict>>

\* echo node-bin >> $GITHUB_PATH: later steps find the provisioned node first.
Bind ==
  /\ step = "bind" /\ phase = "idle"
  /\ onPath' = IF "node" \in outputs THEN "provisioned" ELSE onPath
  /\ step' = After[step]
  /\ UNCHANGED <<fetchVars, setting, phase, tree, launcher, outputs, stuck, verdict>>

\* What the node on the path answers to --version.
ObservedNode ==
  IF onPath = "provisioned" THEN VersionOf[tree["node"].archive] ELSE ambient

\* AssertToolchainPair; the command it runs may fail.
Assert ==
  /\ step = "assert" /\ phase = "idle"
  /\ \/ /\ ObservedNode = pins["node"].version
        /\ step' = After[step] /\ UNCHANGED <<phase, verdict>>
     \/ Fail("toolchain-pair-mismatch") /\ UNCHANGED step
  /\ UNCHANGED <<fetchVars, setting, tree, onPath, launcher, outputs, stuck>>

\* The publish command admits the launcher by its path and mode and asks its version
\* before anything else; the registry steps that follow are NpmPublish.
UseLauncher ==
  /\ step = "use" /\ phase = "idle"
  /\ \/ /\ "npm" \in outputs /\ launcher # Nothing /\ tree["npm"] # Nothing
        /\ VersionOf[tree["npm"].archive] = pins["npm"].version
        /\ step' = After[step] /\ UNCHANGED <<phase, verdict>>
     \/ Fail("publish-npm-pin-mismatch") /\ UNCHANGED step
  /\ UNCHANGED <<fetchVars, setting, tree, onPath, launcher, outputs, stuck>>

\* The process or its runner is killed: nothing is cleaned up.
Kill ==
  /\ phase # "failed" /\ Fail("killed") /\ TakeFetch
  /\ UNCHANGED <<setting, step, tree, onPath, launcher, outputs, stuck>>

ProvisionStep ==
  \/ Provision \/ CheckDigest \/ MakePrivate \/ ExtractEntry \/ ExtractFails
  \/ ExtractEnds \/ Verify \/ WriteLauncher \/ RemovePrivate \/ WriteOutput
  \/ Bind \/ Assert \/ UseLauncher

-----------------------------------------------------------------------------
Provisioned(t) ==
  /\ tree[t] = [archive |-> pins[t].archive, entries |-> Entries]
  /\ VersionOf[pins[t].archive] = pins[t].version
  /\ pins[t].archive \in LaidOut /\ pins[t].archive \in Safe

\* Whatever servers answer, whatever node the runner brings and wherever local work
\* fails, the job goes on only with the complete, authenticated toolchain: the node
\* on the path is the provisioned one, and in the publish job npm is the pinned npm
\* run by that node (ProvisionNode, Bind, AssertToolchainPair, ProvisionNPM).
PinnedToolchainRuns ==
  step = "ready" =>
    /\ Provisioned("node") /\ onPath = "provisioned"
    /\ job = "publish" => Provisioned("npm") /\ launcher = "provisioned"

\* A provisioner that returned an error left no directory behind, unless it said that
\* it could not remove it (the deferred RemoveAll of provisionNode and provisionNPM).
NothingLeftBehind ==
  phase = "failed" /\ step \in Tools /\ verdict \notin {"killed", "outputs"} =>
    tree[step] = Nothing \/ step \in stuck

-----------------------------------------------------------------------------
\* What holds at every step on the way to PinnedToolchainRuns and NothingLeftBehind:
\* what is on disk is the authenticated archive, a tool whose path was handed on is
\* complete, and the directory of the tool at work is where its phase says.
DiskInv ==
  \A t \in Tools : tree[t] # Nothing =>
    /\ tree[t].archive = pins[t].archive
    /\ tree[t].entries = Entries => pins[t].archive \in Safe

PhaseInv ==
  /\ phase \in {"fetch", "make", "extract", "verify", "launch", "output", "remove"} =>
       step \in Tools
  /\ phase = "make" => fetching = "done" /\ body = pins[step].archive
  /\ phase \in {"idle", "fetch", "make"} /\ step \in Tools => tree[step] = Nothing
  /\ phase \in {"extract", "verify"} => tree[step] # Nothing
  /\ phase = "verify" => tree[step].entries = Entries
  /\ phase \in {"launch", "output"} => Provisioned(step)
  /\ phase = "launch" => step = "npm"
  /\ phase = "output" /\ step = "npm" => launcher = onPath

StepInv ==
  /\ step # "node" => Provisioned("node") /\ "node" \in outputs
  /\ step \in {"assert", "npm", "use", "ready"} => onPath = "provisioned"
  /\ step = "use" \/ (step = "ready" /\ job = "publish") =>
       Provisioned("npm") /\ launcher = "provisioned"
  /\ step = "npm" => job = "publish"
  /\ step \in {"node", "bind", "assert"} => tree["npm"] = Nothing

ProvisionInv ==
  ProvisionTypeOK /\ DiskInv /\ PhaseInv /\ StepInv /\ NothingLeftBehind
=============================================================================
