-------------------------- MODULE MCArtifactChain ---------------------------
EXTENDS ArtifactChain, TLC

\* Packages, registries, tags and tarball variants are interchangeable, and nothing
\* distinguishes one of them in Init or Next.
ChainSymmetry ==
  Permutations(Identities) \cup Permutations(Registries)
    \cup Permutations(Tags) \cup Permutations(Variants)
=============================================================================
