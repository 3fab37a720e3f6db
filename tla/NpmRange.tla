------------------------------ MODULE NpmRange -----------------------------
(***************************************************************************)
(* The npm version ranges of semver_range.go: a declared range is          *)
(* desugared into an interval of versions, token by token, and the         *)
(* interval is asked whether it contains the npm of the toolchain.  Beside *)
(* it, what node-semver means by the same tokens, without intervals.       *)
(*                                                                         *)
(* A prerelease is its rank among the prereleases of the same numbers,     *)
(* from 1; 0 stands for a release, which comes after all of them.          *)
(***************************************************************************)
EXTENDS Naturals, Sequences

CONSTANT MaxComponent   \* maxNPMSafeComponent

ASSUME MaxComponentAssumption == MaxComponent \in Nat

Versions == [major : Nat, minor : Nat, patch : Nat, pre : Nat]

\* parseNPMRangeActual: npm reports a release.
Released == {v \in Versions : v.pre = 0}

Release(major, minor, patch) == [major |-> major, minor |-> minor, patch |-> patch, pre |-> 0]

\* SemVer precedence (npmSemver.compare).
PreLess(a, b) == a # 0 /\ (b = 0 \/ a < b)
Less(v, w) ==
  \/ v.major < w.major
  \/ v.major = w.major /\ v.minor < w.minor
  \/ v.major = w.major /\ v.minor = w.minor /\ v.patch < w.patch
  \/ v.major = w.major /\ v.minor = w.minor /\ v.patch = w.patch /\ PreLess(v.pre, w.pre)

\* npmPartial: the first "given" components are numbers and the others wildcards, which
\* count as zero.  Only a full version keeps a prerelease.
Partials ==
  {p \in [given : 0 .. 3, major : Nat, minor : Nat, patch : Nat, pre : Nat] :
     /\ p.given < 1 => p.major = 0
     /\ p.given < 2 => p.minor = 0
     /\ p.given < 3 => p.patch = 0 /\ p.pre = 0}

ZeroFilled(p) == [major |-> p.major, minor |-> p.minor, patch |-> p.patch, pre |-> p.pre]

IncrementLastSpecified(p) ==
  CASE p.given = 3 -> Release(p.major, p.minor, p.patch + 1)
    [] p.given = 2 -> Release(p.major, p.minor + 1, 0)
    [] OTHER       -> Release(p.major + 1, 0, 0)

-----------------------------------------------------------------------------
(* Intervals (npmVersionBounds).  An end is absent, included or excluded;  *)
(* an interval that never matches has the lower end "never".               *)

Origin == Release(0, 0, 0)

Between(from, lower, upto, upper) ==
  [from |-> from, lower |-> lower, upto |-> upto, upper |-> upper]

Everything == Between("absent", Origin, "absent", Origin)
Nothing    == Between("never", Origin, "absent", Origin)

Contains(b, v) ==
  /\ b.from # "never"
  /\ b.from # "absent" => ~Less(v, b.lower)
  /\ b.from = "excluded" => v # b.lower
  /\ b.upto # "absent" => ~Less(b.upper, v)
  /\ b.upto = "excluded" => v # b.upper

OperatorBounds(op, p) ==
  LET low  == ZeroFilled(p)
      next == IncrementLastSpecified(p)
      full == p.given = 3
  IN CASE p.given = 0 -> IF op \in {"=", ">=", "<="} THEN Everything ELSE Nothing
       [] p.given # 0 /\ op = "=" ->
            IF full THEN Between("included", low, "included", low)
                    ELSE Between("included", low, "excluded", next)
       [] p.given # 0 /\ op = ">=" -> Between("included", low, "absent", Origin)
       [] p.given # 0 /\ op = ">" ->
            IF full THEN Between("excluded", low, "absent", Origin)
                    ELSE Between("included", next, "absent", Origin)
       [] p.given # 0 /\ op = "<" -> Between("absent", Origin, "excluded", low)
       [] p.given # 0 /\ op = "<=" ->
            IF full THEN Between("absent", Origin, "included", low)
                    ELSE Between("absent", Origin, "excluded", next)

TildeBounds(p) ==
  IF p.given = 0 THEN Everything
  ELSE Between("included", ZeroFilled(p), "excluded",
               IF p.given >= 2 THEN Release(p.major, p.minor + 1, 0)
                               ELSE Release(p.major + 1, 0, 0))

\* The caret range whose upper end ignores that a leading zero is significant.
CaretAnyMajor(p) ==
  IF p.given = 0 THEN Everything
  ELSE Between("included", ZeroFilled(p), "excluded", Release(p.major + 1, 0, 0))

CaretBounds(p) ==
  IF p.given = 0 THEN Everything
  ELSE Between("included", ZeroFilled(p), "excluded",
               CASE p.major > 0 \/ p.given = 1 -> Release(p.major + 1, 0, 0)
                 [] p.major = 0 /\ p.given > 1 /\ (p.minor > 0 \/ p.given = 2) ->
                      Release(0, p.minor + 1, 0)
                 [] p.major = 0 /\ p.minor = 0 /\ p.given = 3 -> Release(0, 0, p.patch + 1))

HyphenBounds(l, r) ==
  IF r.given = 3 THEN Between("included", ZeroFilled(l), "included", ZeroFilled(r))
                 ELSE Between("included", ZeroFilled(l), "excluded", IncrementLastSpecified(r))

-----------------------------------------------------------------------------
(* Declarations.  A token is an operator and a partial version, or what no *)
(* token is; an arm is a sequence of tokens that must all hold, a hyphen   *)
(* range, or text that is neither; a declaration is a sequence of arms.    *)

Operators == {"=", ">=", ">", "<", "<=", "~", "^"}
Token(op, p) == [op |-> op, partial |-> p]
Garbage == [op |-> "garbage", partial |-> [given |-> 0, major |-> 0, minor |-> 0, patch |-> 0, pre |-> 0]]

Comparators(tokens) == [kind |-> "comparators", tokens |-> tokens]
Hyphen(l, r)        == [kind |-> "hyphen", tokens |-> <<Token("=", l), Token("=", r)>>]
MalformedArm        == [kind |-> "malformed", tokens |-> <<>>]

Tokens == [op : Operators \cup {"garbage"}, partial : Partials]
Arms == [kind : {"comparators", "malformed"}, tokens : Seq(Tokens)]
        \cup {arm \in [kind : {"hyphen"}, tokens : Seq(Tokens)] : Len(arm.tokens) = 2}

Safe(p) == p.major <= MaxComponent /\ p.minor <= MaxComponent /\ p.patch <= MaxComponent
Parses(token) == token.op \in Operators /\ Safe(token.partial)

ComparatorBounds(op, p) ==
  CASE op = "~" -> TildeBounds(p)
    [] op = "^" -> CaretBounds(p)
    [] OTHER    -> OperatorBounds(op, p)

Holds(token, v) == Parses(token) /\ Contains(ComparatorBounds(token.op, token.partial), v)

\* npmRangeArmMatches: the tokens are read up to the first one that fails, and only what
\* was read can make the arm unparseable.
ArmVerdict(arm, v) ==
  LET l == arm.tokens[1]
      r == arm.tokens[2]
  IN CASE arm.kind = "malformed" -> "unparseable"
       [] arm.kind = "hyphen" ->
            IF ~Parses(l) \/ ~Parses(r) \/ l.partial.given = 0 \/ r.partial.given = 0
            THEN "unparseable"
            ELSE IF Contains(HyphenBounds(l.partial, r.partial), v) THEN "match" ELSE "no match"
       [] arm.kind = "comparators" ->
            IF \A i \in DOMAIN arm.tokens : Holds(arm.tokens[i], v) THEN "match"
            ELSE IF \E i \in DOMAIN arm.tokens : /\ ~Parses(arm.tokens[i])
                                                /\ \A j \in 1 .. i - 1 : Holds(arm.tokens[j], v)
                 THEN "unparseable" ELSE "no match"

\* npmDeclaredMatchesActual, for an actual version that is a release.
DeclaredMatchesActual(arms, v) ==
  LET verdicts == {ArmVerdict(arms[i], v) : i \in DOMAIN arms}
  IN Safe(v) /\ "match" \in verdicts /\ "unparseable" \notin verdicts

-----------------------------------------------------------------------------
(* What node-semver means (external).  A partial version denotes the       *)
(* versions that agree with it in the components it gives.                 *)

Agrees(p, v, n) ==
  /\ n >= 1 => v.major = p.major
  /\ n >= 2 => v.minor = p.minor
  /\ n >= 3 => v.patch = p.patch

Denotes(p, v) == Agrees(p, v, p.given) /\ (p.given = 3 => v.pre = p.pre)

\* v lies above, or below, everything p denotes.
Above(p, v) ==
  \/ p.given >= 1 /\ v.major > p.major
  \/ p.given >= 2 /\ Agrees(p, v, 1) /\ v.minor > p.minor
  \/ p.given = 3 /\ Agrees(p, v, 2) /\ v.patch > p.patch
  \/ p.given = 3 /\ Agrees(p, v, 3) /\ PreLess(p.pre, v.pre)
Below(p, v) ==
  \/ p.given >= 1 /\ v.major < p.major
  \/ p.given >= 2 /\ Agrees(p, v, 1) /\ v.minor < p.minor
  \/ p.given = 3 /\ Agrees(p, v, 2) /\ v.patch < p.patch
  \/ p.given = 3 /\ Agrees(p, v, 3) /\ PreLess(v.pre, p.pre)

\* Up to which component a caret range fixes a version: the first that is not zero, or
\* the last that is given.
Fixed(p) ==
  CASE p.major > 0 \/ p.given = 1 -> 1
    [] p.major = 0 /\ p.given > 1 /\ p.minor > 0 -> 2
    [] p.major = 0 /\ p.given > 1 /\ p.minor = 0 -> p.given

Means(op, p, v) ==
  CASE p.given = 0 -> op \in {"=", ">=", "<=", "~", "^"}
    [] p.given # 0 /\ op = "="  -> Denotes(p, v)
    [] p.given # 0 /\ op = ">=" -> ~Below(p, v)
    [] p.given # 0 /\ op = ">"  -> Above(p, v)
    [] p.given # 0 /\ op = "<"  -> Below(p, v)
    [] p.given # 0 /\ op = "<=" -> ~Above(p, v)
    [] p.given # 0 /\ op = "~"  -> ~Below(p, v) /\ Agrees(p, v, IF p.given = 1 THEN 1 ELSE 2)
    [] p.given # 0 /\ op = "^"  -> ~Below(p, v) /\ Agrees(p, v, Fixed(p))

ArmParses(arm) ==
  /\ arm.kind # "malformed"
  /\ \A i \in DOMAIN arm.tokens : Parses(arm.tokens[i])
  /\ arm.kind = "hyphen" => \A i \in 1 .. 2 : arm.tokens[i].partial.given # 0

ArmMeans(arm, v) ==
  IF arm.kind = "hyphen"
  THEN ~Below(arm.tokens[1].partial, v) /\ ~Above(arm.tokens[2].partial, v)
  ELSE \A i \in DOMAIN arm.tokens : Means(arm.tokens[i].op, arm.tokens[i].partial, v)

\* Some arm means v, its tokens being tokens and its numbers within bounds.
Satisfies(arms, v) ==
  \E i \in DOMAIN arms : ArmParses(arms[i]) /\ ArmMeans(arms[i], v)
=============================================================================
