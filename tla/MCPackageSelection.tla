------------------------- MODULE MCPackageSelection -------------------------
(* A small instance of PackageSelection: the package a/b of a repository.  *)
EXTENDS PackageSelection

MCPath == <<"a", "b">>

\* Patterns that match, match only with an empty **, match below, or not at all.
MCPatterns ==
  {{}, {<<"*">>}, {<<"a", "*">>}, {<<"**", "b">>, <<"b", "c">>}, {<<"a", "**", "b", "**">>}}

\* Without a workspace the two files have no patterns.
MCMetadata ==
  {m \in [json : {"missing", "none", "workspaces", "malformed"},
          pnpm : {"none", "packages", "settings", "malformed"}, patterns : MCPatterns] :
     /\ m.json # "workspaces" /\ m.pnpm # "packages" => m.patterns = {}
     /\ m.json = "malformed" \/ m.pnpm = "malformed" => m.patterns = {}}

Descriptor(shape, name, exact, version, suffix) ==
  [shape |-> shape, name |-> name, exact |-> exact, version |-> version, suffix |-> suffix]
Candidate(n) == [major |-> n, minor |-> 0, patch |-> 0, pre |-> 1]

MCDescriptors ==
  {Descriptor("malformed", "other", "no", Origin, "none"),
   Descriptor("full", "other", "yes", Release(1, 0, 0), "malformed"),
   Descriptor("bare", "npm", "no", Origin, "none"),
   Descriptor("full", "npm", "no", Origin, "none"),
   Descriptor("full", "npm", "yes", Release(11, 0, 0), "sha512"),
   Descriptor("bare", "pnpm", "no", Origin, "none"),
   Descriptor("full", "pnpm", "no", Origin, "none"),
   Descriptor("full", "pnpm", "yes", Candidate(10), "none"),
   Descriptor("full", "pnpm", "yes", Release(10, 0, 0), "none"),
   Descriptor("full", "pnpm", "yes", Release(10, 0, 0), "sha512"),
   Descriptor("full", "pnpm", "yes", Release(11, 2, 0), "malformed"),
   Descriptor("full", "pnpm", "yes", Candidate(12), "none"),
   Descriptor("bare", "yarn", "no", Origin, "none"),
   Descriptor("full", "yarn", "yes", Candidate(4), "none"),
   Descriptor("full", "yarn", "yes", Candidate(5), "sha512"),
   Descriptor("full", "yarn", "yes", Release(6, 0, 0), "none")}

\* Partial versions around the versions the toolchain reports.
Partial(given, major, minor, patch, pre) ==
  [given |-> given, major |-> major, minor |-> minor, patch |-> patch, pre |-> pre]
MCPartials ==
  {Partial(0, 0, 0, 0, 0), Partial(1, 0, 0, 0, 0), Partial(1, 1, 0, 0, 0), Partial(2, 0, 0, 0, 0),
   Partial(2, 0, 1, 0, 0), Partial(2, 1, 0, 0, 0), Partial(3, 0, 0, 0, 0), Partial(3, 0, 0, 1, 0),
   Partial(3, 0, 1, 0, 1), Partial(3, 1, 0, 1, 0), Partial(3, 1, 1, 0, 1), Partial(1, 4, 0, 0, 0)}

MCRanges ==
  {<<Comparators(<<Token(op, p)>>)>> : op \in Operators, p \in MCPartials}
  \cup {<<Hyphen(l, r)>> : l \in MCPartials, r \in MCPartials}
  \cup {<<>>, <<MalformedArm>>,
        <<Comparators(<<Token("^", Partial(1, 1, 0, 0, 0)), Garbage>>)>>,
        <<Comparators(<<Garbage, Token("^", Partial(1, 1, 0, 0, 0))>>)>>,
        <<Comparators(<<Token("^", Partial(1, 1, 0, 0, 0)), Garbage>>),
          Comparators(<<Token("=", Partial(1, 0, 0, 0, 0))>>)>>,
        <<Comparators(<<Token("=", Partial(1, 1, 0, 0, 0))>>), MalformedArm>>,
        <<Comparators(<<Token(">=", Partial(2, 0, 1, 0, 0)), Token("<", Partial(2, 1, 1, 0, 0))>>)>>}

MCObserved ==
  {Release(0, 0, 0), Release(0, 0, 1), Release(0, 1, 0), Release(0, 1, 1), Release(1, 0, 0),
   Release(1, 0, 1), Release(1, 1, 0), Release(2, 0, 0)}
=============================================================================
