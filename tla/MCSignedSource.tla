--------------------------- MODULE MCSignedSource ---------------------------
(* A small instance of SignedSource: two commits with a version each.      *)
EXTENDS MCPackageSelection, SignedSource

MCManifestVersion == [r1 |-> "v1", r2 |-> "v2"]

Main == Ref("branch", "none", "plain")

\* A branch whose name git takes and validFullGitRef does not: refs/heads/a./b.
DottedBranch == Ref("branch", "none", "dotted")

MCInputRefs ==
  {Omitted, VersionTag("v1"), Ref("tag", "v1", "padded"), Ref("tag", "none", "malformed"), Main}
MCInvocationRefs == {VersionTag("v1"), Main, DottedBranch}
=============================================================================
