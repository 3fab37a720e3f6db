----------------------- MODULE PackageSelectionProofs -----------------------
(***************************************************************************)
(* The intervals of semver_range.go are what node-semver means, for every  *)
(* token and every released version; and therefore the version warning of  *)
(* a build is right for all ranges and versions.  The workspace patterns   *)
(* claim what can be laid along a path, for every pattern and path; and    *)
(* therefore the root is the nearest that claims the package.  The manager *)
(* is selected by the decision matrix, for any descriptors.                *)
(***************************************************************************)
EXTENDS PackageSelection, FiniteSetTheorems, SequenceTheorems, WellFoundedInduction, TLAPS

\* Precedence is a strict total order on versions.
LEMMA PrecedenceTotal ==
  ASSUME NEW v \in Versions, NEW w \in Versions
  PROVE  (~Less(w, v) /\ v # w) <=> Less(v, w)
<1>1. v = w <=> v.major = w.major /\ v.minor = w.minor /\ v.patch = w.patch /\ v.pre = w.pre
      BY DEF Versions
<1>2. /\ v.major \in Nat /\ v.minor \in Nat /\ v.patch \in Nat /\ v.pre \in Nat
      /\ w.major \in Nat /\ w.minor \in Nat /\ w.patch \in Nat /\ w.pre \in Nat
      BY DEF Versions
<1> QED BY <1>1, <1>2 DEF Less, PreLess

\* What the ends of an interval ask of a version.
LEMMA Ends ==
  ASSUME NEW v \in Versions, NEW a \in Versions, NEW b \in Versions
  PROVE  /\ Contains(Between("included", a, "included", b), v) <=> ~Less(v, a) /\ ~Less(b, v)
         /\ Contains(Between("included", a, "excluded", b), v) <=> ~Less(v, a) /\ Less(v, b)
         /\ Contains(Between("included", a, "absent", b), v) <=> ~Less(v, a)
         /\ Contains(Between("excluded", a, "absent", b), v) <=> Less(a, v)
         /\ Contains(Between("absent", a, "included", b), v) <=> ~Less(b, v)
         /\ Contains(Between("absent", a, "excluded", b), v) <=> Less(v, b)
<1>1. (~Less(b, v) /\ v # b) <=> Less(v, b)
      BY PrecedenceTotal
<1>2. (~Less(v, a) /\ v # a) <=> Less(a, v)
      BY PrecedenceTotal
<1> QED BY <1>1, <1>2 DEF Contains, Between

\* The interval without ends, and the one without versions.
LEMMA Extremes ==
  ASSUME NEW v
  PROVE  Contains(Everything, v) /\ ~Contains(Nothing, v)
  BY DEF Contains, Everything, Nothing, Between

\* The components of partial versions and of releases.
LEMMA Components ==
  ASSUME NEW p \in Partials, NEW v \in Released
  PROVE  /\ p.given \in {0, 1, 2, 3}
         /\ p.major \in Nat /\ p.minor \in Nat /\ p.patch \in Nat /\ p.pre \in Nat
         /\ p.given < 2 => p.minor = 0
         /\ p.given < 3 => p.patch = 0 /\ p.pre = 0
         /\ v \in Versions
         /\ v.major \in Nat /\ v.minor \in Nat /\ v.patch \in Nat /\ v.pre = 0
         /\ ZeroFilled(p) \in Versions
  BY DEF Partials, Released, Versions, ZeroFilled

\* Releases are versions.
LEMMA ReleaseType ==
  ASSUME NEW a \in Nat, NEW b \in Nat, NEW c \in Nat
  PROVE  Release(a, b, c) \in Versions
  BY DEF Release, Versions

\* Precedence between releases is the order of their numbers.
LEMMA LessRelease ==
  ASSUME NEW v \in Released, NEW a \in Nat, NEW b \in Nat, NEW c \in Nat
  PROVE  Less(v, Release(a, b, c))
           <=> \/ v.major < a
               \/ v.major = a /\ v.minor < b
               \/ v.major = a /\ v.minor = b /\ v.patch < c
<1>1. /\ Release(a, b, c).major = a /\ Release(a, b, c).minor = b
      /\ Release(a, b, c).patch = c /\ Release(a, b, c).pre = 0
      BY DEF Release
<1>2. v.pre = 0 /\ v.major \in Nat /\ v.minor \in Nat /\ v.patch \in Nat
      BY DEF Released, Versions
<1>3. ~PreLess(v.pre, Release(a, b, c).pre)
      BY <1>1, <1>2 DEF PreLess
<1> QED BY <1>1, <1>2, <1>3 DEF Less

\* What lies below a partial, component by component.
LEMMA BelowPartial ==
  ASSUME NEW p \in Partials, NEW v \in Released
  PROVE  /\ p.given = 1 => (Below(p, v) <=> v.major < p.major)
         /\ p.given = 2 =>
              (Below(p, v) <=> (v.major < p.major \/ (v.major = p.major /\ v.minor < p.minor)))
<1>1. CASE p.given = 1
      BY <1>1 DEF Below
<1>2. CASE p.given = 2
  <2>1. Agrees(p, v, 1) <=> v.major = p.major
        BY DEF Agrees
  <2> QED BY <1>2, <2>1 DEF Below
<1> QED BY <1>1, <1>2

\* What does not lie below a partial is at least as large, component by component.
LEMMA NotBelow ==
  ASSUME NEW p \in Partials, NEW v \in Released, ~Below(p, v), p.given # 0
  PROVE  /\ v.major >= p.major
         /\ (p.given >= 2 /\ v.major = p.major) => v.minor >= p.minor
         /\ (p.given = 3 /\ v.major = p.major /\ v.minor = p.minor) => v.patch >= p.patch
  BY Components DEF Below, Agrees

\* incrementLastSpecified yields a release.
LEMMA IncrementType ==
  ASSUME NEW p \in Partials
  PROVE  IncrementLastSpecified(p) \in Versions
<1>1. p.major \in Nat /\ p.minor \in Nat /\ p.patch \in Nat
      BY DEF Partials
<1>2. /\ Release(p.major, p.minor, p.patch + 1) \in Versions
      /\ Release(p.major, p.minor + 1, 0) \in Versions
      /\ Release(p.major + 1, 0, 0) \in Versions
      BY <1>1, ReleaseType
<1> QED BY <1>2 DEF IncrementLastSpecified

\* A version precedes the zero-filled partial if and only if it lies below the partial.
LEMMA LowEnd ==
  ASSUME NEW p \in Partials, NEW v \in Released, p.given # 0
  PROVE  Less(v, ZeroFilled(p)) <=> Below(p, v)
<1>1. CASE p.given = 1
  <2>1. p.minor = 0 /\ p.patch = 0 /\ p.pre = 0
        BY <1>1, Components
  <2>2. ~PreLess(v.pre, p.pre)
        BY <2>1, Components DEF PreLess
  <2>3. /\ p.major \in Nat /\ v.major \in Nat /\ v.minor \in Nat /\ v.patch \in Nat
        BY Components
  <2>4. Below(p, v) <=> v.major < p.major
        BY <1>1, BelowPartial
  <2>5. Less(v, ZeroFilled(p)) <=> v.major < p.major
        BY <2>1, <2>2, <2>3 DEF Less, ZeroFilled
  <2> QED BY <2>4, <2>5
<1>2. CASE p.given = 2
  <2>1. p.patch = 0 /\ p.pre = 0
        BY <1>2, Components
  <2>2. ~PreLess(v.pre, p.pre)
        BY <2>1, Components DEF PreLess
  <2>3. /\ p.major \in Nat /\ v.major \in Nat /\ p.minor \in Nat /\ v.minor \in Nat
        /\ v.patch \in Nat
        BY Components
  <2>4. Below(p, v) <=> (v.major < p.major \/ (v.major = p.major /\ v.minor < p.minor))
        BY <1>2, BelowPartial
  <2>5. Less(v, ZeroFilled(p))
          <=> (v.major < p.major \/ (v.major = p.major /\ v.minor < p.minor))
    <3>1. ZeroFilled(p) = Release(p.major, p.minor, 0)
          BY <2>1 DEF ZeroFilled, Release
    <3> QED BY <2>3, <3>1, LessRelease
  <2> QED BY <2>4, <2>5
<1>3. CASE p.given = 3
      BY <1>3, Components DEF Less, PreLess, ZeroFilled, Below, Agrees
<1> QED BY <1>1, <1>2, <1>3, Components

\* A version follows a full version if and only if it lies above it.
LEMMA FullEnd ==
  ASSUME NEW p \in Partials, NEW v \in Released, p.given = 3
  PROVE  Less(ZeroFilled(p), v) <=> Above(p, v)
  BY Components DEF Less, PreLess, ZeroFilled, Above, Agrees

\* A version precedes the completion of a partial unless it lies above the partial.
LEMMA HighEnd ==
  ASSUME NEW p \in Partials, NEW v \in Released, p.given \in {1, 2}
  PROVE  Less(v, IncrementLastSpecified(p)) <=> ~Above(p, v)
<1>1. CASE p.given = 1
  <2>1. IncrementLastSpecified(p) = Release(p.major + 1, 0, 0)
        BY <1>1 DEF IncrementLastSpecified
  <2> QED BY <1>1, <2>1, Components DEF Less, PreLess, Release, Above, Agrees
<1>2. CASE p.given = 2
  <2>1. IncrementLastSpecified(p) = Release(p.major, p.minor + 1, 0)
        BY <1>2 DEF IncrementLastSpecified
  <2> QED BY <1>2, <2>1, Components DEF Less, PreLess, Release, Above, Agrees
<1> QED BY <1>1, <1>2

\* What a partial denotes lies neither below nor above it.
LEMMA Denotation ==
  ASSUME NEW p \in Partials, NEW v \in Released, p.given # 0
  PROVE  Denotes(p, v) <=> ~Below(p, v) /\ ~Above(p, v)
<1>1. CASE p.given = 1
      BY <1>1, Components DEF Denotes, PreLess, Below, Above, Agrees
<1>2. CASE p.given = 2
      BY <1>2, Components DEF Denotes, PreLess, Below, Above, Agrees
<1>3. CASE p.given = 3
      BY <1>3, Components DEF Denotes, PreLess, Below, Above, Agrees
<1> QED BY <1>1, <1>2, <1>3, Components

\* Every comparison operator completes a partial version the way node-semver does.
LEMMA OperatorMeaning ==
  ASSUME NEW p \in Partials, NEW v \in Released, NEW op \in {"=", ">=", ">", "<", "<="}
  PROVE  Contains(OperatorBounds(op, p), v) <=> Means(op, p, v)
<1> DEFINE low == ZeroFilled(p)
           next == IncrementLastSpecified(p)
<1>0. /\ Origin \in Versions /\ low \in Versions /\ next \in Versions /\ v \in Versions
      /\ p.given \in {0, 1, 2, 3}
      BY Components, IncrementType, ReleaseType DEF Origin
<1>1. CASE p.given = 0
      BY <1>1, Extremes DEF OperatorBounds, Means
<1>2. CASE p.given = 3
  <2>1. CASE op = "="
        BY <1>0, <1>2, <2>1, Ends, LowEnd, FullEnd, Denotation DEF OperatorBounds, Means
  <2>2. CASE op = ">="
        BY <1>0, <1>2, <2>2, Ends, LowEnd DEF OperatorBounds, Means
  <2>3. CASE op = ">"
        BY <1>0, <1>2, <2>3, Ends, FullEnd DEF OperatorBounds, Means
  <2>4. CASE op = "<"
        BY <1>0, <1>2, <2>4, Ends, LowEnd DEF OperatorBounds, Means
  <2>5. CASE op = "<="
        BY <1>0, <1>2, <2>5, Ends, FullEnd DEF OperatorBounds, Means
  <2> QED BY <2>1, <2>2, <2>3, <2>4, <2>5
<1>3. CASE p.given \in {1, 2}
  <2>0. p.given # 0 /\ p.given # 3
        BY <1>3
  <2>1. CASE op = "="
        BY <1>0, <1>3, <2>0, <2>1, Ends, LowEnd, HighEnd, Denotation DEF OperatorBounds, Means
  <2>2. CASE op = ">="
        BY <1>0, <2>0, <2>2, Ends, LowEnd DEF OperatorBounds, Means
  <2>3. CASE op = ">"
        BY <1>0, <1>3, <2>0, <2>3, Ends, HighEnd DEF OperatorBounds, Means
  <2>4. CASE op = "<"
        BY <1>0, <2>0, <2>4, Ends, LowEnd DEF OperatorBounds, Means
  <2>5. CASE op = "<="
        BY <1>0, <1>3, <2>0, <2>5, Ends, HighEnd DEF OperatorBounds, Means
  <2> QED BY <2>1, <2>2, <2>3, <2>4, <2>5
<1> QED BY <1>0, <1>1, <1>2, <1>3

\* A tilde range fixes the minor version if it is given.
LEMMA TildeMeaning ==
  ASSUME NEW p \in Partials, NEW v \in Released
  PROVE  Contains(TildeBounds(p), v) <=> Means("~", p, v)
<1>0. /\ v \in Versions /\ ZeroFilled(p) \in Versions /\ p.given \in {0, 1, 2, 3}
      /\ p.major \in Nat /\ p.minor \in Nat /\ v.major \in Nat /\ v.minor \in Nat
      /\ v.patch \in Nat /\ v.pre = 0
      BY Components
<1>1. CASE p.given = 0
      BY <1>1, Extremes DEF TildeBounds, Means
<1>2. CASE p.given = 1
  <2>1. Contains(TildeBounds(p), v)
          <=> ~Less(v, ZeroFilled(p)) /\ Less(v, Release(p.major + 1, 0, 0))
    <3>1. TildeBounds(p)
            = Between("included", ZeroFilled(p), "excluded", Release(p.major + 1, 0, 0))
          BY <1>2 DEF TildeBounds
    <3>2. Release(p.major + 1, 0, 0) \in Versions
          BY <1>0 DEF Release, Versions
    <3> QED BY <1>0, <3>1, <3>2, Ends
  <2>2. Less(v, Release(p.major + 1, 0, 0)) <=> v.major <= p.major
        BY <1>0, LessRelease
  <2>3. (~Below(p, v) /\ v.major <= p.major) <=> (~Below(p, v) /\ Agrees(p, v, 1))
        BY <1>0, <1>2 DEF Below, Agrees
  <2> QED BY <1>2, <2>1, <2>2, <2>3, LowEnd DEF Means
<1>3. CASE p.given \in {2, 3}
  <2>1. Contains(TildeBounds(p), v)
          <=> ~Less(v, ZeroFilled(p)) /\ Less(v, Release(p.major, p.minor + 1, 0))
    <3>1. TildeBounds(p)
            = Between("included", ZeroFilled(p), "excluded", Release(p.major, p.minor + 1, 0))
          BY <1>3 DEF TildeBounds
    <3>2. Release(p.major, p.minor + 1, 0) \in Versions
          BY <1>0 DEF Release, Versions
    <3> QED BY <1>0, <3>1, <3>2, Ends
  <2>2. Less(v, Release(p.major, p.minor + 1, 0))
          <=> (v.major < p.major \/ (v.major = p.major /\ v.minor <= p.minor))
    <3>1. v.minor < p.minor + 1 <=> v.minor <= p.minor
          BY <1>0
    <3> QED BY <1>0, <3>1, LessRelease
  <2>3. ~Below(p, v) => v.major >= p.major /\ (v.major = p.major => v.minor >= p.minor)
        BY <1>0, <1>3 DEF Below, Agrees
  <2>4. Agrees(p, v, 2) <=> v.major = p.major /\ v.minor = p.minor
        BY DEF Agrees
  <2>5. Means("~", p, v) <=> ~Below(p, v) /\ Agrees(p, v, 2)
    <3>1. p.given # 0 /\ p.given # 1
          BY <1>3
    <3> QED BY <3>1 DEF Means
  <2>6. Less(v, ZeroFilled(p)) <=> Below(p, v)
        BY <1>3, LowEnd
  <2> QED BY <1>0, <2>1, <2>2, <2>3, <2>4, <2>5, <2>6
<1> QED BY <1>0, <1>1, <1>2, <1>3

\* A caret range fixes the version up to its first component that is not zero.
LEMMA CaretMeaning ==
  ASSUME NEW p \in Partials, NEW v \in Released
  PROVE  Contains(CaretBounds(p), v) <=> Means("^", p, v)
<1>0. /\ v \in Versions /\ ZeroFilled(p) \in Versions /\ p.given \in {0, 1, 2, 3}
      /\ p.major \in Nat /\ p.minor \in Nat /\ p.patch \in Nat
      /\ v.major \in Nat /\ v.minor \in Nat /\ v.patch \in Nat /\ v.pre = 0
      BY Components
<1>1. CASE p.given = 0
      BY <1>1, Extremes DEF CaretBounds, Means
<1>2. ASSUME p.given # 0
      PROVE  /\ Means("^", p, v) <=> ~Below(p, v) /\ Agrees(p, v, Fixed(p))
             /\ Less(v, ZeroFilled(p)) <=> Below(p, v)
      BY <1>2, LowEnd DEF Means
<1>3. CASE p.given # 0 /\ (p.major > 0 \/ p.given = 1)
  <2>1. Contains(CaretBounds(p), v)
          <=> ~Less(v, ZeroFilled(p)) /\ Less(v, Release(p.major + 1, 0, 0))
    <3>1. CaretBounds(p)
            = Between("included", ZeroFilled(p), "excluded", Release(p.major + 1, 0, 0))
          BY <1>0, <1>3 DEF CaretBounds
    <3>2. Release(p.major + 1, 0, 0) \in Versions
          BY <1>0 DEF Release, Versions
    <3> QED BY <1>0, <3>1, <3>2, Ends
  <2>2. Less(v, Release(p.major + 1, 0, 0)) <=> v.major <= p.major
        BY <1>0, LessRelease
  <2>3. Fixed(p) = 1
        BY <1>0, <1>3 DEF Fixed
  <2>4. Agrees(p, v, 1) <=> v.major = p.major
        BY DEF Agrees
  <2>5. /\ Means("^", p, v) <=> (~Below(p, v) /\ Agrees(p, v, Fixed(p)))
        /\ Less(v, ZeroFilled(p)) <=> Below(p, v)
        BY <1>2, <1>3
  <2>6. ~Below(p, v) => v.major >= p.major
        BY <1>0, <1>3, NotBelow
  <2> QED BY <1>0, <1>3, <2>1, <2>2, <2>3, <2>4, <2>5, <2>6
<1>4. CASE p.major = 0 /\ p.given \in {2, 3} /\ (p.minor > 0 \/ p.given = 2)
  <2>1. Contains(CaretBounds(p), v)
          <=> ~Less(v, ZeroFilled(p)) /\ Less(v, Release(0, p.minor + 1, 0))
    <3>1. CaretBounds(p)
            = Between("included", ZeroFilled(p), "excluded", Release(0, p.minor + 1, 0))
          BY <1>0, <1>4 DEF CaretBounds
    <3>2. Release(0, p.minor + 1, 0) \in Versions
          BY <1>0 DEF Release, Versions
    <3> QED BY <1>0, <3>1, <3>2, Ends
  <2>2. Less(v, Release(0, p.minor + 1, 0)) <=> v.major = 0 /\ v.minor <= p.minor
        BY <1>0, LessRelease
  <2>3. Fixed(p) = 2
        BY <1>0, <1>4 DEF Fixed
  <2>4. Agrees(p, v, 2) <=> v.major = p.major /\ v.minor = p.minor
        BY DEF Agrees
  <2>5. /\ Means("^", p, v) <=> (~Below(p, v) /\ Agrees(p, v, Fixed(p)))
        /\ Less(v, ZeroFilled(p)) <=> Below(p, v)
        BY <1>2, <1>4
  <2>6. ~Below(p, v) => (v.major >= p.major /\ (v.major = p.major => v.minor >= p.minor))
        BY <1>0, <1>4, NotBelow
  <2> QED BY <1>0, <1>4, <2>1, <2>2, <2>3, <2>4, <2>5, <2>6
<1>5. CASE p.major = 0 /\ p.minor = 0 /\ p.given = 3
  <2>1. Contains(CaretBounds(p), v)
          <=> ~Less(v, ZeroFilled(p)) /\ Less(v, Release(0, 0, p.patch + 1))
    <3>1. CaretBounds(p)
            = Between("included", ZeroFilled(p), "excluded", Release(0, 0, p.patch + 1))
          BY <1>0, <1>5 DEF CaretBounds
    <3>2. Release(0, 0, p.patch + 1) \in Versions
          BY <1>0 DEF Release, Versions
    <3> QED BY <1>0, <3>1, <3>2, Ends
  <2>2. Less(v, Release(0, 0, p.patch + 1)) <=> v.major = 0 /\ v.minor = 0 /\ v.patch <= p.patch
        BY <1>0, LessRelease
  <2>3. Fixed(p) = 3
        BY <1>0, <1>5 DEF Fixed
  <2>4. Agrees(p, v, 3) <=> v.major = p.major /\ v.minor = p.minor /\ v.patch = p.patch
        BY DEF Agrees
  <2>5. /\ Means("^", p, v) <=> (~Below(p, v) /\ Agrees(p, v, Fixed(p)))
        /\ Less(v, ZeroFilled(p)) <=> Below(p, v)
        BY <1>2, <1>5
  <2>6. ~Below(p, v) => /\ v.major >= p.major
                        /\ v.major = p.major => v.minor >= p.minor
                        /\ (v.major = p.major /\ v.minor = p.minor) => v.patch >= p.patch
        BY <1>0, <1>5, NotBelow
  <2> QED BY <1>0, <1>5, <2>1, <2>2, <2>3, <2>4, <2>5, <2>6
<1> QED BY <1>0, <1>1, <1>3, <1>4, <1>5

\* npmComparatorBounds desugars every token into what it means.
THEOREM TokensMean ==
  ASSUME NEW p \in Partials, NEW v \in Released, NEW op \in Operators
  PROVE  Contains(ComparatorBounds(op, p), v) <=> Means(op, p, v)
<1>1. CASE op = "~"
      BY <1>1, TildeMeaning DEF ComparatorBounds
<1>2. CASE op = "^"
      BY <1>2, CaretMeaning DEF ComparatorBounds
<1>3. CASE op \in {"=", ">=", ">", "<", "<="}
      BY <1>3, OperatorMeaning DEF ComparatorBounds
<1> QED BY <1>1, <1>2, <1>3 DEF Operators

\* A hyphen range holds from everything its left end denotes to everything its right end does.
THEOREM HyphensMean ==
  ASSUME NEW l \in Partials, NEW r \in Partials, NEW v \in Released, l.given # 0, r.given # 0
  PROVE  Contains(HyphenBounds(l, r), v) <=> ~Below(l, v) /\ ~Above(r, v)
<1>0. /\ v \in Versions /\ ZeroFilled(l) \in Versions /\ ZeroFilled(r) \in Versions
      /\ IncrementLastSpecified(r) \in Versions /\ r.given \in {1, 2, 3}
      BY Components, IncrementType
<1>1. CASE r.given = 3
      BY <1>0, <1>1, Ends, LowEnd, FullEnd DEF HyphenBounds
<1>2. CASE r.given \in {1, 2}
      BY <1>0, <1>2, Ends, LowEnd, HighEnd DEF HyphenBounds
<1> QED BY <1>0, <1>1, <1>2

-----------------------------------------------------------------------------
\* A token holds of the versions it means.
LEMMA HoldsMeans ==
  ASSUME NEW token \in Tokens, NEW v \in Released
  PROVE  Holds(token, v) <=> Parses(token) /\ Means(token.op, token.partial, v)
<1>1. token.partial \in Partials
      BY DEF Tokens
<1>2. CASE Parses(token)
  <2>1. token.op \in Operators
        BY <1>2 DEF Parses
  <2> QED BY <1>1, <1>2, <2>1, TokensMean DEF Holds
<1> QED BY <1>2 DEF Holds

\* The two ends of a hyphen range.
LEMMA HyphenEnds ==
  ASSUME NEW arm \in Arms, arm.kind = "hyphen"
  PROVE  /\ DOMAIN arm.tokens = 1 .. 2
         /\ arm.tokens[1].partial \in Partials /\ arm.tokens[2].partial \in Partials
<1>1. arm.tokens \in Seq(Tokens) /\ Len(arm.tokens) = 2
      BY DEF Arms
<1>2. arm.tokens[1] \in Tokens /\ arm.tokens[2] \in Tokens /\ DOMAIN arm.tokens = 1 .. 2
      BY <1>1
<1> QED BY <1>2 DEF Tokens

\* An arm that matches parses and means the version.
LEMMA MatchingArm ==
  ASSUME NEW arm \in Arms, NEW v \in Released, ArmVerdict(arm, v) = "match"
  PROVE  ArmParses(arm) /\ ArmMeans(arm, v)
<1>1. arm.kind # "malformed"
      BY DEF ArmVerdict
<1>2. CASE arm.kind = "comparators"
  <2>1. \A i \in DOMAIN arm.tokens : Holds(arm.tokens[i], v)
        BY <1>2 DEF ArmVerdict
  <2>2. \A i \in DOMAIN arm.tokens : arm.tokens[i] \in Tokens
        BY DEF Arms
  <2>3. \A i \in DOMAIN arm.tokens :
          Parses(arm.tokens[i]) /\ Means(arm.tokens[i].op, arm.tokens[i].partial, v)
        BY <2>1, <2>2, HoldsMeans
  <2> QED BY <1>2, <2>3 DEF ArmParses, ArmMeans
<1>3. CASE arm.kind = "hyphen"
  <2> DEFINE l == arm.tokens[1]
             r == arm.tokens[2]
  <2>1. /\ Parses(l) /\ Parses(r) /\ l.partial.given # 0 /\ r.partial.given # 0
        /\ Contains(HyphenBounds(l.partial, r.partial), v)
        BY <1>3 DEF ArmVerdict
  <2>2. DOMAIN arm.tokens = 1 .. 2 /\ l.partial \in Partials /\ r.partial \in Partials
        BY <1>3, HyphenEnds
  <2>3. ~Below(l.partial, v) /\ ~Above(r.partial, v)
        BY <2>1, <2>2, HyphensMean
  <2>4. \A i \in 1 .. 2 : i = 1 \/ i = 2
        OBVIOUS
  <2> QED BY <1>3, <2>1, <2>2, <2>3, <2>4 DEF ArmParses, ArmMeans
<1> QED BY <1>1, <1>2, <1>3 DEF Arms

\* An arm that parses is never unparseable, and matches the versions it means.
LEMMA ParsedArm ==
  ASSUME NEW arm \in Arms, NEW v \in Released, ArmParses(arm)
  PROVE  /\ ArmVerdict(arm, v) # "unparseable"
         /\ ArmMeans(arm, v) => ArmVerdict(arm, v) = "match"
<1>1. CASE arm.kind = "comparators"
  <2>1. \A i \in DOMAIN arm.tokens : arm.tokens[i] \in Tokens /\ Parses(arm.tokens[i])
        BY DEF Arms, ArmParses
  <2>2. ArmMeans(arm, v) => \A i \in DOMAIN arm.tokens : Holds(arm.tokens[i], v)
        BY <1>1, <2>1, HoldsMeans DEF ArmMeans
  <2> QED BY <1>1, <2>1, <2>2 DEF ArmVerdict
<1>2. CASE arm.kind = "hyphen"
  <2> DEFINE l == arm.tokens[1]
             r == arm.tokens[2]
  <2>1. DOMAIN arm.tokens = 1 .. 2 /\ l.partial \in Partials /\ r.partial \in Partials
        BY <1>2, HyphenEnds
  <2>2. 1 \in 1 .. 2 /\ 2 \in 1 .. 2
        OBVIOUS
  <2>3. Parses(l) /\ Parses(r) /\ l.partial.given # 0 /\ r.partial.given # 0
        BY <1>2, <2>1, <2>2 DEF ArmParses
  <2>4. Contains(HyphenBounds(l.partial, r.partial), v)
          <=> ~Below(l.partial, v) /\ ~Above(r.partial, v)
        BY <2>1, <2>3, HyphensMean
  <2> QED BY <1>2, <2>3, <2>4 DEF ArmVerdict, ArmMeans
<1> QED BY <1>1, <1>2 DEF Arms, ArmParses

\* npmDeclaredMatchesActual never accepts a version the declaration does not mean.
THEOREM MatchIsSound ==
  ASSUME NEW arms \in Seq(Arms), NEW v \in Released, DeclaredMatchesActual(arms, v)
  PROVE  Satisfies(arms, v)
<1>1. PICK i \in DOMAIN arms : ArmVerdict(arms[i], v) = "match"
      BY DEF DeclaredMatchesActual
<1>2. arms[i] \in Arms
      OBVIOUS
<1> QED BY <1>1, <1>2, MatchingArm DEF Satisfies

\* If all arms parse it accepts exactly the versions the declaration means.
THEOREM MatchIsComplete ==
  ASSUME NEW arms \in Seq(Arms), NEW v \in Released, Safe(v),
         \A i \in DOMAIN arms : ArmParses(arms[i])
  PROVE  DeclaredMatchesActual(arms, v) <=> Satisfies(arms, v)
<1>1. \A i \in DOMAIN arms : /\ ArmVerdict(arms[i], v) # "unparseable"
                             /\ ArmMeans(arms[i], v) => ArmVerdict(arms[i], v) = "match"
      BY ParsedArm
<1>2. Satisfies(arms, v) => DeclaredMatchesActual(arms, v)
      BY <1>1 DEF Satisfies, DeclaredMatchesActual
<1> QED BY <1>2, MatchIsSound

-----------------------------------------------------------------------------
(* The version warning.                                                    *)

\* Once it is made, the warning is that of npmDeclaredVersionWarning.
WarningMade ==
  pc = "compared" =>
    IF ~DeclaresVersion THEN warned = "no"
    ELSE /\ declared \in Ranges /\ observed \in Observed
         /\ warned = IF DeclaredMatchesActual(declared, observed) THEN "no" ELSE "yes"

\* Nothing was reported before.
WarningInv == WarningMade /\ (pc # "compared" => warned = "no")

LEMMA InitWarning == Init => WarningInv
  BY DEF Init, WarningInv, WarningMade

LEMMA NextWarning == WarningInv /\ [Next]_vars => WarningInv'
<1> SUFFICES ASSUME WarningInv, [Next]_vars PROVE WarningInv'
    OBVIOUS
<1> USE DEF WarningInv, WarningMade
<1>1. CASE ResolvePackage
      BY <1>1 DEF ResolvePackage, Reject, PackageFaults, buildVars
<1>2. CASE ReadMetadata
      BY <1>2 DEF ReadMetadata, Reject, BecomesRoot, buildVars
<1>3. CASE RootFound
      BY <1>3 DEF RootFound, buildVars
<1>4. CASE ReadField
      BY <1>4 DEF ReadField, Reject, buildVars
<1>5. CASE SelectManager
      BY <1>5 DEF SelectManager, Reject, buildVars
<1>6. CASE ValidateLockfiles
      BY <1>6 DEF ValidateLockfiles, Reject, buildVars
<1>7. CASE InferFromLockfile
      BY <1>7 DEF InferFromLockfile, Reject, buildVars
<1>8. CASE CompareVersion
  <2>1. UNCHANGED <<selection, fields>>
        BY <1>8 DEF CompareVersion, fieldVars
  <2>2. DeclaresVersion <=> DeclaresVersion'
        BY <2>1 DEF DeclaresVersion
  <2> QED BY <1>8, <2>2 DEF CompareVersion
<1>9. CASE NothingToCompare
  <2>1. UNCHANGED <<selection, fields, warned>>
        BY <1>9 DEF NothingToCompare, fieldVars, buildVars
  <2>2. ~DeclaresVersion'
        BY <1>9, <2>1 DEF DeclaresVersion, NothingToCompare
  <2> QED BY <1>9, <2>1, <2>2 DEF NothingToCompare
<1>10. CASE AnalyzeReturns
      BY <1>10 DEF AnalyzeReturns, buildVars
<1>11. CASE UNCHANGED vars
  <2>1. UNCHANGED <<pc, selection, fields, warned, declared, observed>>
        BY <1>11 DEF vars, fieldVars, buildVars
  <2>2. DeclaresVersion <=> DeclaresVersion'
        BY <2>1 DEF DeclaresVersion
  <2> QED BY <2>1, <2>2
<1> QED BY <1>1, <1>2, <1>3, <1>4, <1>5, <1>6, <1>7, <1>8, <1>9, <1>10, <1>11 DEF Next

LEMMA MadeIsRight == WarningInv => WarningIsRight
<1> SUFFICES ASSUME WarningMade, pc = "compared", DeclaresVersion
             PROVE  /\ warned = "no" => Satisfies(declared, observed)
                    /\ warned = "yes" => \/ ~Satisfies(declared, observed)
                                         \/ \E i \in DOMAIN declared : ~ArmParses(declared[i])
    BY DEF WarningInv, WarningMade, WarningIsRight
<1>1. /\ declared \in Seq(Arms) /\ observed \in Released /\ Safe(observed)
      /\ warned = IF DeclaredMatchesActual(declared, observed) THEN "no" ELSE "yes"
      BY RangeAssumption DEF WarningMade
<1>2. warned = "no" => Satisfies(declared, observed)
      BY <1>1, MatchIsSound
<1>3. ASSUME warned = "yes", \A i \in DOMAIN declared : ArmParses(declared[i])
      PROVE  ~Satisfies(declared, observed)
      BY <1>1, <1>3, MatchIsComplete
<1> QED BY <1>2, <1>3

\* The build warns of a declared npm version exactly as node-semver reads it, for every
\* range, whatever was selected and how.
THEOREM WarningAlwaysRight == Spec => []WarningIsRight
<1>1. Spec => []WarningInv
      BY InitWarning, NextWarning, PTL DEF Spec
<1> QED BY <1>1, MadeIsRight, PTL

-----------------------------------------------------------------------------
(* The pattern matcher.  Its table is a recursive function.  That nothing  *)
(* else solves its equation is shown by the last row in which two          *)
(* solutions differ: the rows below it determine it.                       *)

\* A set of naturals has a least element, unless it is empty.
LEMMA Least ==
  ASSUME NEW T \in SUBSET Nat, T # {}
  PROVE  \E x \in T : \A y \in T : x <= y
<1> DEFINE R == OpToRel(<, Nat)
<1>1. IsWellFoundedOn(R, Nat)
      BY NatLessThanWellFounded
<1>2. \A x \in Nat, y \in Nat : y < x => <<y, x>> \in R
      BY DEF OpToRel
<1> HIDE DEF R
<1>3. PICK x \in T : \A y \in T : ~(<<y, x>> \in R)
      BY <1>1, WFMin, Zenon
<1>4. \A y \in T : y \in Nat /\ ~(y < x)
      BY <1>2, <1>3, Zenon
<1> QED BY <1>4

\* The row of the matcher's table for segment i, given the rows below it.
MatchRow(pattern, relative, match, i) ==
  [j \in 1 .. Len(relative) + 1 |->
     IF i > Len(pattern) THEN j > Len(relative)
     ELSE IF pattern[i] = "**"
     THEN \E k \in j .. Len(relative) + 1 : match[i + 1][k]
     ELSE j <= Len(relative) /\ pattern[i] \in {"*", relative[j]} /\ match[i + 1][j + 1]]

\* The equation the table of the matcher solves.
IsTable(pattern, relative, match) ==
  match = [i \in 1 .. Len(pattern) + 1 |-> MatchRow(pattern, relative, match, i)]

\* If the equation has a solution, the matcher reads its answer in one.
LEMMA MatcherTable ==
  ASSUME NEW pattern, NEW relative, NEW table, IsTable(pattern, relative, table)
  PROVE  \E match : /\ IsTable(pattern, relative, match)
                    /\ MatchWorkspacePattern(pattern, relative) = match[1][1]
BY Zenon DEF MatchWorkspacePattern, IsTable, MatchRow

\* cut lays the segments of the pattern from i on along the path from its segment j on.
Laid(pattern, relative, i, j, cut) ==
  /\ cut[i] = j - 1 /\ cut[Len(pattern) + 1] = Len(relative)
  /\ \A k \in i .. Len(pattern) :
       IF pattern[k] = "**" THEN cut[k] <= cut[k + 1]
       ELSE cut[k + 1] = cut[k] + 1 /\ pattern[k] \in {"*", relative[cut[k + 1]]}

\* There is a way to lay them.
LiesFrom(pattern, relative, i, j) ==
  \E cut \in [i .. Len(pattern) + 1 -> 0 .. Len(relative)] : Laid(pattern, relative, i, j, cut)

\* The table of what lies where.
LiesTable(pattern, relative) ==
  [i \in 1 .. Len(pattern) + 1 |->
     [j \in 1 .. Len(relative) + 1 |-> LiesFrom(pattern, relative, i, j)]]

\* A pattern that is used up lies along nothing but an empty rest.
LEMMA LiesAtEnd ==
  ASSUME NEW pattern \in Seq(STRING), NEW relative \in Seq(STRING),
         NEW j \in 1 .. Len(relative) + 1
  PROVE  LiesFrom(pattern, relative, Len(pattern) + 1, j) <=> j > Len(relative)
<1> DEFINE n == Len(pattern) + 1
           m == Len(relative)
<1>1. n \in Nat /\ m \in Nat /\ ~(n <= Len(pattern))
      OBVIOUS
<1>2. ASSUME LiesFrom(pattern, relative, n, j)
      PROVE  j > m
  <2>1. PICK cut : Laid(pattern, relative, n, j, cut)
        BY <1>2 DEF LiesFrom
  <2>2. j - 1 = m
        BY <2>1 DEF Laid
  <2> QED BY <1>1, <2>2
<1>3. ASSUME j > m
      PROVE  LiesFrom(pattern, relative, n, j)
  <2> DEFINE cut == [i \in n .. n |-> m]
  <2>1. cut \in [n .. n -> 0 .. m] /\ cut[n] = m
        BY <1>1
  <2>2. j - 1 = m
        BY <1>1, <1>3
  <2>3. \A k \in n .. Len(pattern) : FALSE
        BY <1>1
  <2>4. Laid(pattern, relative, n, j, cut)
        BY <2>1, <2>2, <2>3 DEF Laid
  <2> QED BY <2>1, <2>4 DEF LiesFrom
<1> QED BY <1>2, <1>3

\* The rest of a cut is a cut of the rest.
LEMMA LiesDown ==
  ASSUME NEW pattern \in Seq(STRING), NEW relative \in Seq(STRING),
         NEW i \in 1 .. Len(pattern), NEW j \in 1 .. Len(relative) + 1,
         LiesFrom(pattern, relative, i, j)
  PROVE  IF pattern[i] = "**"
         THEN \E k \in j .. Len(relative) + 1 : LiesFrom(pattern, relative, i + 1, k)
         ELSE /\ j <= Len(relative) /\ pattern[i] \in {"*", relative[j]}
              /\ LiesFrom(pattern, relative, i + 1, j + 1)
<1> DEFINE n == Len(pattern)
           m == Len(relative)
<1>1. PICK cut \in [i .. n + 1 -> 0 .. m] : Laid(pattern, relative, i, j, cut)
      BY DEF LiesFrom
<1>2. n \in Nat /\ m \in Nat /\ i \in Nat /\ i + 1 \in i .. n + 1 /\ i \in i .. n
      OBVIOUS
<1> DEFINE rest == [k \in i + 1 .. n + 1 |-> cut[k]]
<1>3. rest \in [i + 1 .. n + 1 -> 0 .. m]
      BY <1>1, <1>2
<1>4. cut[i + 1] \in 0 .. m /\ cut[i] = j - 1
      BY <1>1, <1>2 DEF Laid
<1>5. Laid(pattern, relative, i + 1, cut[i + 1] + 1, rest)
  <2>1. rest[i + 1] = cut[i + 1] /\ rest[n + 1] = cut[n + 1]
        BY <1>2
  <2>2. \A k \in i + 1 .. n : k \in i .. n /\ rest[k] = cut[k] /\ rest[k + 1] = cut[k + 1]
        BY <1>2
  <2>3. (cut[i + 1] + 1) - 1 = cut[i + 1]
        BY <1>4
  <2> HIDE DEF rest
  <2> QED BY <1>1, <2>1, <2>2, <2>3 DEF Laid
<1>6. LiesFrom(pattern, relative, i + 1, cut[i + 1] + 1)
  <2> HIDE DEF rest
  <2>1. (i + 1) .. (Len(pattern) + 1) = i + 1 .. n + 1
        OBVIOUS
  <2> QED BY <1>3, <1>5 DEF LiesFrom
<1>7. IF pattern[i] = "**" THEN cut[i] <= cut[i + 1]
      ELSE cut[i + 1] = cut[i] + 1 /\ pattern[i] \in {"*", relative[cut[i + 1]]}
      BY <1>1, <1>2 DEF Laid
<1>8. CASE pattern[i] = "**"
  <2>1. cut[i + 1] + 1 \in j .. m + 1
        BY <1>2, <1>4, <1>7, <1>8
  <2> QED BY <1>6, <1>8, <2>1
<1>9. CASE pattern[i] # "**"
  <2>1. cut[i + 1] = j /\ j <= m /\ pattern[i] \in {"*", relative[j]}
        BY <1>2, <1>4, <1>7, <1>9
  <2> QED BY <1>6, <1>9, <2>1
<1> QED BY <1>8, <1>9

\* A cut of the rest extends by the segment before it.
LEMMA LiesUp ==
  ASSUME NEW pattern \in Seq(STRING), NEW relative \in Seq(STRING),
         NEW i \in 1 .. Len(pattern), NEW j \in 1 .. Len(relative) + 1,
         NEW k \in 1 .. Len(relative) + 1,
         IF pattern[i] = "**" THEN j <= k
         ELSE k = j + 1 /\ pattern[i] \in {"*", relative[j]},
         LiesFrom(pattern, relative, i + 1, k)
  PROVE  LiesFrom(pattern, relative, i, j)
<1> DEFINE n == Len(pattern)
           m == Len(relative)
<1>1. PICK rest \in [i + 1 .. n + 1 -> 0 .. m] : Laid(pattern, relative, i + 1, k, rest)
      BY DEF LiesFrom
<1>2. n \in Nat /\ m \in Nat /\ i \in Nat /\ i <= n /\ j \in Nat /\ k \in Nat
      OBVIOUS
<1> DEFINE cut == [l \in i .. n + 1 |-> IF l = i THEN j - 1 ELSE rest[l]]
<1>3. \A l \in i .. n + 1 : l # i => l \in i + 1 .. n + 1
      BY <1>2
<1>4. j - 1 \in 0 .. m
      BY <1>2
<1>5. cut \in [i .. n + 1 -> 0 .. m]
      BY <1>1, <1>3, <1>4
<1>6. /\ cut[i] = j - 1
      /\ \A l \in i + 1 .. n + 1 : cut[l] = rest[l]
      BY <1>2
<1> HIDE DEF cut
<1>7. cut[i + 1] = k - 1 /\ cut[n + 1] = m
  <2>1. i + 1 \in i + 1 .. n + 1 /\ n + 1 \in i + 1 .. n + 1
        BY <1>2
  <2> QED BY <1>1, <1>6, <2>1 DEF Laid
<1>8. ASSUME NEW l \in i .. n
      PROVE  IF pattern[l] = "**" THEN cut[l] <= cut[l + 1]
             ELSE cut[l + 1] = cut[l] + 1 /\ pattern[l] \in {"*", relative[cut[l + 1]]}
  <2>1. CASE l = i
    <3>1. CASE pattern[i] = "**"
          BY <1>2, <1>6, <1>7, <2>1, <3>1
    <3>2. CASE pattern[i] # "**"
      <4>1. k = j + 1 /\ pattern[i] \in {"*", relative[j]}
            BY <3>2
      <4>2. cut[i + 1] = j /\ cut[i + 1] = cut[i] + 1
            BY <1>2, <1>6, <1>7, <4>1
      <4> QED BY <2>1, <3>2, <4>1, <4>2
    <3> QED BY <3>1, <3>2
  <2>2. CASE l # i
    <3>1. l \in i + 1 .. n /\ l \in i + 1 .. n + 1 /\ l + 1 \in i + 1 .. n + 1
          BY <1>2, <2>2
    <3>2. cut[l] = rest[l] /\ cut[l + 1] = rest[l + 1]
          BY <1>6, <3>1
    <3>3. IF pattern[l] = "**" THEN rest[l] <= rest[l + 1]
          ELSE rest[l + 1] = rest[l] + 1 /\ pattern[l] \in {"*", relative[rest[l + 1]]}
          BY <1>1, <3>1 DEF Laid
    <3> QED BY <3>2, <3>3
  <2> QED BY <2>1, <2>2
<1>9. Laid(pattern, relative, i, j, cut)
      BY <1>6, <1>7, <1>8 DEF Laid
<1> QED BY <1>5, <1>9 DEF LiesFrom

\* Entry j of row i, as the matcher computes it from the rows below.
Entry(pattern, relative, match, i, j) ==
  IF i > Len(pattern) THEN j > Len(relative)
  ELSE IF pattern[i] = "**"
  THEN \E k \in j .. Len(relative) + 1 : match[i + 1][k]
  ELSE j <= Len(relative) /\ pattern[i] \in {"*", relative[j]} /\ match[i + 1][j + 1]

\* What lies where satisfies the equation of the matcher, entry by entry.
LEMMA LiesEntry ==
  ASSUME NEW pattern \in Seq(STRING), NEW relative \in Seq(STRING),
         NEW i \in 1 .. Len(pattern) + 1, NEW j \in 1 .. Len(relative) + 1
  PROVE  LiesFrom(pattern, relative, i, j)
           <=> Entry(pattern, relative, LiesTable(pattern, relative), i, j)
<1> DEFINE n == Len(pattern)
           m == Len(relative)
<1>1. n \in Nat /\ m \in Nat /\ i \in Nat /\ j \in Nat
      OBVIOUS
<1>2. CASE i > n
  <2>1. i = Len(pattern) + 1
        BY <1>1, <1>2
  <2>2. LiesFrom(pattern, relative, i, j) <=> j > Len(relative)
        BY <2>1, LiesAtEnd
  <2> QED BY <1>2, <2>2 DEF Entry
<1>3. CASE ~(i > n)
  <2>1. i \in 1 .. Len(pattern) /\ i + 1 \in 1 .. Len(pattern) + 1
        BY <1>1, <1>3
  <2>2. \A k \in 1 .. Len(relative) + 1 :
          LiesTable(pattern, relative)[i + 1][k] = LiesFrom(pattern, relative, i + 1, k)
        BY <2>1 DEF LiesTable
  <2>3. CASE pattern[i] = "**"
    <3>1. LiesFrom(pattern, relative, i, j)
            <=> \E k \in j .. Len(relative) + 1 : LiesFrom(pattern, relative, i + 1, k)
      <4>1. ASSUME NEW k \in j .. Len(relative) + 1, LiesFrom(pattern, relative, i + 1, k)
            PROVE  LiesFrom(pattern, relative, i, j)
        <5>1. k \in 1 .. Len(relative) + 1 /\ j <= k
              BY <1>1
        <5> QED BY <2>1, <2>3, <4>1, <5>1, LiesUp
      <4>2. ASSUME LiesFrom(pattern, relative, i, j)
            PROVE  \E k \in j .. Len(relative) + 1 : LiesFrom(pattern, relative, i + 1, k)
            BY <2>1, <2>3, <4>2, LiesDown
      <4> QED BY <4>1, <4>2
    <3>2. \A k \in j .. Len(relative) + 1 : k \in 1 .. Len(relative) + 1
          BY <1>1
    <3> QED BY <1>3, <2>2, <2>3, <3>1, <3>2 DEF Entry
  <2>4. CASE pattern[i] # "**"
    <3>1. LiesFrom(pattern, relative, i, j)
            <=> /\ j <= Len(relative) /\ pattern[i] \in {"*", relative[j]}
                /\ LiesFrom(pattern, relative, i + 1, j + 1)
      <4>1. ASSUME j <= Len(relative), pattern[i] \in {"*", relative[j]},
                   LiesFrom(pattern, relative, i + 1, j + 1)
            PROVE  LiesFrom(pattern, relative, i, j)
        <5>1. j + 1 \in 1 .. Len(relative) + 1
              BY <1>1, <4>1
        <5> QED BY <2>1, <2>4, <4>1, <5>1, LiesUp
      <4>2. ASSUME LiesFrom(pattern, relative, i, j)
            PROVE  /\ j <= Len(relative) /\ pattern[i] \in {"*", relative[j]}
                   /\ LiesFrom(pattern, relative, i + 1, j + 1)
            BY <2>1, <2>4, <4>2, LiesDown
      <4> QED BY <4>1, <4>2
    <3>2. j <= Len(relative) => j + 1 \in 1 .. Len(relative) + 1
          BY <1>1
    <3> QED BY <1>3, <2>2, <2>4, <3>1, <3>2 DEF Entry
  <2> QED BY <2>3, <2>4
<1> QED BY <1>2, <1>3

\* So it is a table of the matcher.
LEMMA LiesIsTable ==
  ASSUME NEW pattern \in Seq(STRING), NEW relative \in Seq(STRING)
  PROVE  IsTable(pattern, relative, LiesTable(pattern, relative))
<1> DEFINE table == LiesTable(pattern, relative)
<1>1. \A i \in 1 .. Len(pattern) + 1 : \A j \in 1 .. Len(relative) + 1 :
        LiesFrom(pattern, relative, i, j) = Entry(pattern, relative, table, i, j)
  <2> SUFFICES ASSUME NEW i \in 1 .. Len(pattern) + 1, NEW j \in 1 .. Len(relative) + 1
               PROVE  LiesFrom(pattern, relative, i, j) = Entry(pattern, relative, table, i, j)
      OBVIOUS
  <2>1. LiesFrom(pattern, relative, i, j) <=> Entry(pattern, relative, table, i, j)
        BY LiesEntry
  <2>2. LiesFrom(pattern, relative, i, j) \in BOOLEAN
        BY DEF LiesFrom
  <2>3. Entry(pattern, relative, table, i, j) \in BOOLEAN
    <3> HIDE DEF table
    <3>1. CASE i > Len(pattern)
          BY <3>1 DEF Entry
    <3>2. CASE ~(i > Len(pattern)) /\ pattern[i] = "**"
          BY <3>2 DEF Entry
    <3>3. CASE ~(i > Len(pattern)) /\ pattern[i] # "**"
          BY <3>3 DEF Entry
    <3> QED BY <3>1, <3>2, <3>3
  <2> QED BY <2>1, <2>2, <2>3
<1>2. \A i \in 1 .. Len(pattern) + 1 :
        MatchRow(pattern, relative, table, i)
          = [j \in 1 .. Len(relative) + 1 |-> Entry(pattern, relative, table, i, j)]
      BY Zenon DEF MatchRow, Entry
<1>3. \A i \in 1 .. Len(pattern) + 1 :
        MatchRow(pattern, relative, table, i)
          = [j \in 1 .. Len(relative) + 1 |-> LiesFrom(pattern, relative, i, j)]
      BY <1>1, <1>2
<1>4. table = [i \in 1 .. Len(pattern) + 1 |->
                 [j \in 1 .. Len(relative) + 1 |-> LiesFrom(pattern, relative, i, j)]]
      BY DEF LiesTable
<1> HIDE DEF table
<1>5. table = [i \in 1 .. Len(pattern) + 1 |-> MatchRow(pattern, relative, table, i)]
      BY <1>3, <1>4
<1> QED BY <1>5 DEF IsTable, table

\* Two tables of the matcher agree in every entry: the rows below the last one that differs
\* would determine it.
LEMMA TableUnique ==
  ASSUME NEW pattern \in Seq(STRING), NEW relative \in Seq(STRING), NEW match, NEW table,
         IsTable(pattern, relative, match), IsTable(pattern, relative, table)
  PROVE  match[1] = table[1]
<1> DEFINE n == Len(pattern)
           T == {d \in 0 .. n : match[n + 1 - d] # table[n + 1 - d]}
<1>0. n \in Nat
      OBVIOUS
<1>1. \A i \in 1 .. n + 1 :
        /\ match[i] = MatchRow(pattern, relative, match, i)
        /\ table[i] = MatchRow(pattern, relative, table, i)
      BY DEF IsTable
<1>2. ASSUME T # {}
      PROVE  FALSE
  <2>1. T \in SUBSET Nat
        BY <1>0
  <2>2. PICK d \in T : \A e \in T : d <= e
    <3> HIDE DEF T
    <3> QED BY <1>2, <2>1, Least
  <2>3. d \in 0 .. n /\ match[n + 1 - d] # table[n + 1 - d]
        OBVIOUS
  <2> DEFINE i == n + 1 - d
  <2>4. i \in 1 .. n + 1
        BY <1>0, <2>3
  <2>5. i <= n => match[i + 1] = table[i + 1]
    <3>1. SUFFICES ASSUME i <= n
                   PROVE  match[i + 1] = table[i + 1]
          OBVIOUS
    <3>2. d - 1 \in 0 .. n /\ n + 1 - (d - 1) = i + 1 /\ ~(d <= d - 1)
          BY <1>0, <2>3, <3>1
    <3>3. d - 1 \notin T
      <4> HIDE DEF T
      <4> QED BY <2>2, <3>2
    <3> QED BY <3>2, <3>3
  <2> HIDE DEF i, T
  <2>6. MatchRow(pattern, relative, match, i) = MatchRow(pattern, relative, table, i)
    <3>1. CASE i <= n
          BY <2>5, <3>1 DEF MatchRow
    <3>2. CASE i > n
          BY <3>2 DEF MatchRow
    <3>3. i <= n \/ i > n
          BY <1>0, <2>4
    <3> QED BY <3>1, <3>2, <3>3
  <2>7. match[i] = table[i]
        BY <1>1, <2>4, <2>6
  <2> QED BY <2>3, <2>7 DEF i
<1>3. n \in 0 .. n /\ n + 1 - n = 1
      BY <1>0
<1> HIDE DEF n
<1>4. match[n + 1 - n] = table[n + 1 - n]
      BY <1>2, <1>3
<1> QED BY <1>3, <1>4

\* Laying the whole pattern along the whole path is what the specification asks.
LEMMA LiesWhole ==
  ASSUME NEW pattern \in Seq(STRING), NEW relative \in Seq(STRING)
  PROVE  LiesFrom(pattern, relative, 1, 1) <=> Lies(pattern, relative)
<1>1. 1 - 1 = 0
      OBVIOUS
<1> QED BY <1>1 DEF LiesFrom, Lies, Laid

\* The matcher finds a match exactly if there is a way to lay the pattern along the path,
\* for every pattern and every path.
LEMMA MatcherMeaning ==
  ASSUME NEW pattern \in Seq(STRING), NEW relative \in Seq(STRING)
  PROVE  MatchWorkspacePattern(pattern, relative) <=> Lies(pattern, relative)
<1> DEFINE table == LiesTable(pattern, relative)
<1>1. IsTable(pattern, relative, table)
      BY LiesIsTable
<1> HIDE DEF table
<1>2. PICK match : /\ IsTable(pattern, relative, match)
                   /\ MatchWorkspacePattern(pattern, relative) = match[1][1]
      BY <1>1, MatcherTable
<1>3. match[1] = table[1]
      BY <1>1, <1>2, TableUnique
<1>4. table[1][1] = LiesFrom(pattern, relative, 1, 1)
  <2>1. 1 \in 1 .. Len(pattern) + 1 /\ 1 \in 1 .. Len(relative) + 1
        OBVIOUS
  <2> QED BY <2>1 DEF table, LiesTable
<1> QED BY <1>2, <1>3, <1>4, LiesWhole

-----------------------------------------------------------------------------
(* The workspace root.                                                     *)

\* What metadata m of the directory at depth d says, whatever has been read so far.
ClaimsOf(m, d) ==
  IF m.pnpm = "settings" THEN d = Depth
  ELSE \E pattern \in m.patterns : Lies(pattern, RelativeTo(d))

\* Metadata that must stop the search.
BlocksOf(m, d) == ~Readable(m) \/ (m.pnpm = "settings" /\ d # Depth)

\* Nothing is known of any directory.
Blank == metadata = [d \in 0 .. Depth |-> Unread]

\* The directories below the one whose turn it is were read and have nothing to say.
Passing == \A d \in candidate + 1 .. Depth : ~BlocksOf(metadata[d], d) /\ ~ClaimsOf(metadata[d], d)

\* The walk has read the directories from the package up to the candidate; before and after
\* it nothing is known of them.
WalkInv ==
  /\ metadata \in [0 .. Depth -> Metadata \cup {Unread}]
  /\ candidate \in 0 .. Depth
  /\ pc = "resolve" => candidate = Depth
  /\ pc = "walk" => Passing
  /\ pc \notin {"walk", "rooted", "rejected"} => Blank
  /\ NearestClaimingRoot

\* What a directory that was not read says.
LEMMA NothingUnread ==
  ASSUME NEW d
  PROVE  ~BlocksOf(Unread, d) /\ ~ClaimsOf(Unread, d)
  BY DEF BlocksOf, ClaimsOf, Unread, Readable

\* The depth of the package, and the path below a directory.
LEMMA PathBelow ==
  ASSUME NEW d \in 0 .. Depth
  PROVE  Depth \in Nat /\ RelativeTo(d) \in Seq(STRING)
<1>1. Path \in Seq(STRING) /\ Depth \in Nat /\ Depth = Len(Path)
      BY PathAssumption DEF Depth
<1>2. d + 1 \in 1 .. Len(Path) + 1 /\ Depth \in d .. Len(Path)
      BY <1>1
<1>3. SubSeq(Path, d + 1, Depth) \in Seq(STRING)
      BY <1>1, <1>2, SubSeqProperties
<1> QED BY <1>1, <1>3 DEF RelativeTo

\* The code's test for a claim is the claim.
LEMMA MatchedIsClaim ==
  ASSUME NEW m \in Metadata, NEW d \in 0 .. Depth, m.pnpm # "settings"
  PROVE  Matched(m, d) <=> ClaimsOf(m, d)
<1>1. \A pattern \in m.patterns :
        MatchWorkspacePattern(pattern, RelativeTo(d)) <=> Lies(pattern, RelativeTo(d))
  <2> SUFFICES ASSUME NEW pattern \in m.patterns
               PROVE  MatchWorkspacePattern(pattern, RelativeTo(d)) <=> Lies(pattern, RelativeTo(d))
      OBVIOUS
  <2>1. pattern \in Seq(STRING) /\ RelativeTo(d) \in Seq(STRING)
        BY PathAssumption, PathBelow
  <2> QED BY <2>1, MatcherMeaning
<1> QED BY <1>1 DEF Matched, ClaimsOf

\* Before the first step nothing is read.
LEMMA InitWalk == Init => WalkInv
<1> SUFFICES ASSUME Init
             PROVE  WalkInv
    OBVIOUS
<1>1. Depth \in Nat /\ Depth \in 0 .. Depth
      BY PathAssumption DEF Depth
<1>2. pc = "resolve" /\ candidate = Depth /\ Blank
      BY DEF Init, Blank
<1> QED BY <1>1, <1>2 DEF WalkInv, NearestClaimingRoot, Blank

\* A step that reads no metadata keeps what the walk knows.
LEMMA WalkKept ==
  ASSUME WalkInv, UNCHANGED <<metadata, candidate>>,
         pc \notin {"walk", "rooted", "rejected"}, pc' \notin {"resolve", "walk", "rooted"}
  PROVE  WalkInv'
<1>1. Blank /\ Blank'
      BY DEF WalkInv, Blank
<1>2. metadata[candidate] = Unread /\ metadata'[candidate'] = Unread
      BY <1>1 DEF WalkInv, Blank
<1> QED BY <1>1, <1>2 DEF WalkInv, NearestClaimingRoot

\* One directory more is read.
LEMMA NextDirectory ==
  ASSUME WalkInv, ReadMetadata
  PROVE  WalkInv'
<1>1. PICK m \in Metadata :
        /\ metadata' = [metadata EXCEPT ![candidate] = m]
        /\ \/ /\ ~Readable(m) /\ Reject("package-resolution-invalid")
              /\ UNCHANGED <<candidate, root, rootRead>>
           \/ /\ Readable(m) /\ m.pnpm = "settings" /\ candidate # Depth
              /\ Reject("package-resolution-invalid") /\ UNCHANGED <<candidate, root, rootRead>>
           \/ /\ Readable(m)
              /\ IF m.pnpm = "settings" THEN candidate = Depth ELSE Matched(m, candidate)
              /\ BecomesRoot(candidate, m)
           \/ /\ NoClaim(m) /\ candidate > 0
              /\ candidate' = candidate - 1
              /\ UNCHANGED <<pc, failure, root, rootRead>>
           \/ NoClaim(m) /\ candidate = 0 /\ BecomesRoot(Depth, m)
      BY DEF ReadMetadata
<1>2. /\ pc = "walk" /\ candidate \in 0 .. Depth /\ Depth \in Nat /\ Passing
      /\ metadata \in [0 .. Depth -> Metadata \cup {Unread}]
      BY PathBelow DEF ReadMetadata, WalkInv
<1>3. /\ metadata' \in [0 .. Depth -> Metadata \cup {Unread}]
      /\ metadata'[candidate] = m
      /\ \A d \in candidate + 1 .. Depth : metadata'[d] = metadata[d]
      BY <1>1, <1>2
<1>4. \A d \in candidate + 1 .. Depth :
        ~BlocksOf(metadata'[d], d) /\ ~ClaimsOf(metadata'[d], d)
      BY <1>2, <1>3 DEF Passing
<1>5. m.pnpm # "settings" => (Matched(m, candidate) <=> ClaimsOf(m, candidate))
      BY <1>2, MatchedIsClaim
<1>6. ASSUME BlocksOf(m, candidate), pc' = "rejected", candidate' = candidate
      PROVE  WalkInv'
  <2>1. /\ \/ ~Readable(metadata'[candidate'])
           \/ metadata'[candidate'].pnpm = "settings" /\ candidate' # Depth
        /\ \A d \in candidate' + 1 .. Depth :
             ~BlocksOf(metadata'[d], d) /\ ~ClaimsOf(metadata'[d], d)
        BY <1>3, <1>4, <1>6 DEF BlocksOf
  <2>2. NearestClaimingRoot'
        BY <1>6, <2>1 DEF NearestClaimingRoot, Blocks, Claims, BlocksOf, ClaimsOf
  <2> QED BY <1>2, <1>3, <1>6, <2>2 DEF WalkInv
<1>7. ASSUME ~BlocksOf(m, candidate), ClaimsOf(m, candidate), pc' = "rooted",
             candidate' = candidate, root' = candidate
      PROVE  WalkInv'
  <2> DEFINE claiming == {d \in candidate' .. Depth : ClaimsOf(metadata'[d], d)}
  <2>1. claiming = {candidate}
        BY <1>2, <1>3, <1>4, <1>7
  <2>2. Max({candidate}) = candidate
        BY <1>2 DEF Max
  <2>3. \A d \in candidate' .. Depth : ~BlocksOf(metadata'[d], d)
        BY <1>2, <1>3, <1>4, <1>7
  <2>4. /\ \A d \in candidate' .. Depth : ~BlocksOf(metadata'[d], d)
        /\ root' = IF claiming = {} THEN Depth ELSE Max(claiming)
        /\ claiming = {} => candidate' = 0
        BY <1>7, <2>1, <2>2, <2>3
  <2>5. NearestClaimingRoot'
        BY <1>7, <2>4 DEF NearestClaimingRoot, Blocks, Claims, BlocksOf, ClaimsOf
  <2> QED BY <1>2, <1>3, <1>7, <2>5 DEF WalkInv
<1>8. ASSUME ~BlocksOf(m, candidate), ~ClaimsOf(m, candidate)
      PROVE  \A d \in candidate .. Depth :
               ~BlocksOf(metadata'[d], d) /\ ~ClaimsOf(metadata'[d], d)
      BY <1>2, <1>3, <1>4, <1>8
<1>9. CASE ~Readable(m) \/ (m.pnpm = "settings" /\ candidate # Depth)
  <2>1. pc' = "rejected" /\ candidate' = candidate
        BY <1>1, <1>9 DEF Reject, NoClaim
  <2>2. BlocksOf(m, candidate)
        BY <1>9 DEF BlocksOf
  <2> QED BY <1>6, <2>1, <2>2
<1>10. CASE /\ Readable(m)
            /\ IF m.pnpm = "settings" THEN candidate = Depth ELSE Matched(m, candidate)
  <2>1. ~BlocksOf(m, candidate)
        BY <1>10 DEF BlocksOf
  <2>2. ClaimsOf(m, candidate)
        BY <1>5, <1>10 DEF ClaimsOf
  <2>3. BecomesRoot(candidate, m)
        BY <1>1, <1>10 DEF NoClaim
  <2>4. pc' = "rooted" /\ candidate' = candidate /\ root' = candidate
        BY <2>3 DEF BecomesRoot
  <2> QED BY <1>7, <2>1, <2>2, <2>4
<1>11. CASE NoClaim(m)
  <2>1. ~BlocksOf(m, candidate) /\ ~ClaimsOf(m, candidate)
        BY <1>5, <1>11 DEF NoClaim, BlocksOf
  <2>2. CASE candidate > 0
    <3>1. pc' = "walk" /\ candidate' = candidate - 1
          BY <1>1, <1>2, <1>11, <2>2 DEF NoClaim
    <3>2. candidate' \in 0 .. Depth /\ candidate' + 1 = candidate
          BY <1>2, <2>2, <3>1
    <3>3. Passing'
          BY <1>8, <2>1, <3>2 DEF Passing
    <3> QED BY <1>3, <3>1, <3>2, <3>3 DEF WalkInv, NearestClaimingRoot
  <2>3. CASE candidate = 0
    <3>1. BecomesRoot(Depth, m)
          BY <1>1, <1>11, <2>3 DEF NoClaim
    <3>2. pc' = "rooted" /\ candidate' = 0 /\ root' = Depth
          BY <2>3, <3>1 DEF BecomesRoot
    <3> DEFINE claiming == {d \in candidate' .. Depth : ClaimsOf(metadata'[d], d)}
    <3>3. claiming = {} /\ \A d \in candidate' .. Depth : ~BlocksOf(metadata'[d], d)
          BY <1>8, <2>1, <2>3, <3>2
    <3>4. NearestClaimingRoot'
          BY <3>2, <3>3 DEF NearestClaimingRoot, Blocks, Claims, BlocksOf, ClaimsOf
    <3>5. candidate' \in 0 .. Depth
          BY <1>2, <3>2
    <3> QED BY <1>3, <3>2, <3>4, <3>5 DEF WalkInv
  <2> QED BY <1>2, <2>2, <2>3
<1> QED BY <1>9, <1>10, <1>11 DEF NoClaim

\* Every step of the selection keeps what the walk knows.
LEMMA NextWalk ==
  ASSUME WalkInv, [Next]_vars
  PROVE  WalkInv'
<1>1. CASE ResolvePackage
  <2>1. /\ pc = "resolve" /\ UNCHANGED <<metadata, candidate>>
        /\ pc' = "walk" \/ pc' = "rejected"
        BY <1>1 DEF ResolvePackage, Reject, walkVars
  <2>2. CASE pc' = "rejected"
        BY <2>1, <2>2, WalkKept
  <2>3. CASE pc' = "walk"
    <3>1. Depth \in Nat /\ candidate' = Depth
          BY <2>1, PathAssumption DEF WalkInv, Depth
    <3>2. Passing'
          BY <3>1 DEF Passing
    <3> QED BY <2>1, <2>3, <3>2 DEF WalkInv, NearestClaimingRoot
  <2> QED BY <2>1, <2>2, <2>3
<1>2. CASE ReadMetadata
      BY <1>2, NextDirectory
<1>3. CASE RootFound
  <2>1. /\ pc' = "fields" /\ candidate' = Depth
        /\ metadata' = [d \in 0 .. Depth |-> Unread]
        BY <1>3 DEF RootFound
  <2>2. Depth \in 0 .. Depth
        BY PathAssumption DEF Depth
  <2> QED BY <2>1, <2>2 DEF WalkInv, NearestClaimingRoot, Blank
<1>4. CASE ReadField
  <2>1. pc = "fields" /\ UNCHANGED <<metadata, candidate>> /\ pc' \in {"fields", "rejected"}
        BY <1>4 DEF ReadField, Reject, walkVars
  <2> QED BY <2>1, WalkKept
<1>5. CASE SelectManager
  <2>1. pc = "fields" /\ UNCHANGED <<metadata, candidate>> /\ pc' \in {"lockfiles", "rejected"}
        BY <1>5 DEF SelectManager, Reject, walkVars
  <2> QED BY <2>1, WalkKept
<1>6. CASE ValidateLockfiles
  <2>1. pc = "lockfiles" /\ UNCHANGED <<metadata, candidate>> /\ pc' \in {"selected", "rejected"}
        BY <1>6 DEF ValidateLockfiles, Reject, walkVars
  <2> QED BY <2>1, WalkKept
<1>7. CASE InferFromLockfile
  <2>1. pc = "fields" /\ UNCHANGED <<metadata, candidate>> /\ pc' \in {"selected", "rejected"}
        BY <1>7 DEF InferFromLockfile, Reject, walkVars
  <2> QED BY <2>1, WalkKept
<1>8. CASE AnalyzeReturns
      BY <1>8, WalkKept DEF AnalyzeReturns
<1>9. CASE CompareVersion \/ NothingToCompare
      BY <1>9, WalkKept DEF CompareVersion, NothingToCompare, walkVars
<1>10. CASE UNCHANGED vars
  <2>1. UNCHANGED <<pc, metadata, candidate, root>>
        BY <1>10 DEF vars, walkVars
  <2> QED BY <2>1 DEF WalkInv, NearestClaimingRoot, Blank, Passing, Blocks, Claims
<1> QED BY <1>1, <1>2, <1>3, <1>4, <1>5, <1>6, <1>7, <1>8, <1>9, <1>10 DEF Next

\* The root that is found is the nearest that claims the package, for every tree of metadata
\* and every path; nothing malformed is passed over, and nothing else fails the search.
THEOREM RootIsNearest == Spec => []NearestClaimingRoot
<1>1. Spec => []WalkInv
      BY InitWalk, NextWalk, PTL DEF Spec
<1>2. WalkInv => NearestClaimingRoot
      BY DEF WalkInv
<1> QED BY <1>1, <1>2, PTL

-----------------------------------------------------------------------------
(* The selection.                                                          *)

\* What a field that was read and passed over declares.
PassedOver(f, d) == d = Absent \/ (d \in Descriptors /\ Parse(f, d) = "none")

\* The declarations are supported and agree; the first of them made the selection.
Agreed ==
  /\ Declaring # {}
  /\ \A f \in Declaring : Supported(f, fields[f])
  /\ \A f \in Declaring, g \in Declaring : ~Disagree(f, g)
  /\ selection = [name |-> fields[Min(Declaring)].name, source |-> Min(Declaring)]

\* The fields are read in their order, the lockfiles after them; nothing of either is known
\* before.
SelectionInv ==
  /\ fields \in [Fields -> Descriptors \cup {Absent}]
  /\ pc \in {"resolve", "walk", "rooted"} =>
       /\ field = 1 /\ \A f \in Fields : fields[f] = Absent
  /\ pc = "fields" =>
       /\ field \in 1 .. 5
       /\ \A f \in Fields : PassedOver(f, fields[f]) /\ (f >= field => fields[f] = Absent)
  /\ pc \in {"resolve", "walk", "rooted", "fields"} =>
       /\ lockfiles["npm"] = "unread" /\ ignored = {}
  /\ pc = "lockfiles" => Agreed
  /\ SelectionFollowsMatrix

\* The least of some fields is one of them.
LEMMA FirstField ==
  ASSUME NEW S \in SUBSET Fields, S # {}
  PROVE  Min(S) \in S
<1>1. \E x \in S : \A y \in S : x <= y
  <2>1. CASE 1 \in S
        BY <2>1 DEF Fields
  <2>2. CASE 1 \notin S /\ 2 \in S
        BY <2>2 DEF Fields
  <2>3. CASE 1 \notin S /\ 2 \notin S /\ 3 \in S
        BY <2>3 DEF Fields
  <2>4. CASE 1 \notin S /\ 2 \notin S /\ 3 \notin S
    <3>1. \A x \in S : x = 4
          BY <2>4 DEF Fields
    <3> QED BY <3>1
  <2> QED BY <2>1, <2>2, <2>3, <2>4
<1> QED BY <1>1 DEF Min

\* parsePackageManager and parseDevEngines accept exactly what the profile supports.
LEMMA ParseIsSupport ==
  ASSUME NEW f \in Fields, NEW d \in Descriptors
  PROVE  Parse(f, d) = "none" <=> Supported(f, d)
<1>1. /\ d.shape \in {"malformed", "bare", "full"} /\ d.exact \in {"yes", "no"}
      /\ d.shape = "bare" => d.exact = "no"
      /\ d.version \in Versions
      BY DescriptorAssumption
<1>2. d.version.major \in Nat
      BY <1>1 DEF Versions
<1>3. PNPMUnsupported(d.version)
        <=> Less(d.version, Release(10, 0, 0)) \/ ~(d.version.major <= 11)
  <2>1. d.version.major < 10 => Less(d.version, Release(10, 0, 0))
        BY <1>2 DEF Less, Release
  <2> QED BY <1>2, <2>1 DEF PNPMUnsupported
<1>4. ~Less(d.version, Release(4, 0, 0))
        => (YarnUnsupported(d.version) <=> ~(d.version.major <= 5))
  <2>1. d.version.major < 4 => Less(d.version, Release(4, 0, 0))
        BY <1>2 DEF Less, Release
  <2> QED BY <1>2, <2>1 DEF YarnUnsupported
<1>5. CASE d.name = "npm"
  <2>1. Classify(d) = "none" <=> d.suffix = "none"
        BY <1>5 DEF Classify, Managers
  <2> QED BY <1>1, <1>5, <2>1 DEF Parse, Supported, Fields
<1>6. CASE d.name = "pnpm"
  <2>1. Classify(d) = "none" <=>
          d.suffix # "malformed" /\ d.exact = "yes" /\ ~PNPMUnsupported(d.version)
        BY <1>1, <1>6 DEF Classify, Managers
  <2> QED BY <1>1, <1>3, <1>6, <2>1 DEF Parse, Supported, Fields
<1>7. CASE d.name = "yarn"
  <2>1. Classify(d) = "none" <=>
          /\ d.suffix # "malformed" /\ d.exact = "yes"
          /\ ~Less(d.version, Release(4, 0, 0)) /\ ~YarnUnsupported(d.version)
        BY <1>1, <1>7 DEF Classify, Managers
  <2> QED BY <1>1, <1>4, <1>7, <2>1 DEF Parse, Supported, Fields
<1>8. CASE d.name \notin Managers
  <2>1. Classify(d) # "none"
        BY <1>8 DEF Classify, Managers
  <2> QED BY <1>8, <2>1 DEF Parse, Supported, Managers
<1> QED BY <1>5, <1>6, <1>7, <1>8 DEF Managers

\* An absent field is none that a descriptor gives.
LEMMA DescriptorPresent == \A d \in Descriptors : d # Absent
<1>1. Absent.shape = "absent"
      BY DEF Absent
<1> QED BY <1>1, DescriptorAssumption

\* The matrix speaks of the fields and the lockfiles alone.
LEMMA MatrixKept ==
  ASSUME UNCHANGED <<fields, lockfiles>>
  PROVE  /\ Declaring' = Declaring
         /\ \A f, g \in Fields : Disagree(f, g)' <=> Disagree(f, g)
         /\ Admissible' <=> Admissible
<1>1. Declaring' = Declaring
      BY DEF Declaring
<1>3. \A f, g \in Fields : Disagree(f, g)' <=> Disagree(f, g)
      BY DEF Disagree
<1>4. Admissible' <=> Admissible
      BY <1>1, <1>3 DEF Admissible, Found, Declaring
<1> QED BY <1>1, <1>3, <1>4

\* Initially nothing is read.
LEMMA InitSelection == Init => SelectionInv
<1> SUFFICES ASSUME Init PROVE SelectionInv
    OBVIOUS
<1>1. fields \in [Fields -> Descriptors \cup {Absent}] /\ \A f \in Fields : fields[f] = Absent
      BY DEF Init
<1>2. lockfiles["npm"] = "unread"
      BY DEF Init, Managers
<1> QED BY <1>1, <1>2 DEF Init, SelectionInv, SelectionFollowsMatrix

\* A step outside selectManager leaves what was read alone, or throws it away.
LEMMA SelectionKept ==
  ASSUME SelectionInv, UNCHANGED <<field, fields, lockfiles, ignored>>,
         pc' \in {"resolve", "walk", "rooted"} => pc \in {"resolve", "walk", "rooted"},
         pc' = "fields" => pc \in {"rooted", "fields"},
         pc' = "lockfiles" \/ pc' = "selected" => pc = pc' /\ selection' = selection,
         pc' = "rejected" => pc \in {"resolve", "walk", "rejected"}
  PROVE  SelectionInv'
<1>1. /\ Declaring' = Declaring
      /\ \A f, g \in Fields : Disagree(f, g)' <=> Disagree(f, g)
      /\ Admissible' <=> Admissible
      BY MatrixKept
<1>2. pc' = "lockfiles" => Agreed'
      BY <1>1 DEF SelectionInv, Agreed, Declaring
<1>3. pc \in {"resolve", "walk"} => Declaring = {} /\ lockfiles["npm"] = "unread"
      BY DEF SelectionInv, Declaring
<1>4. SelectionFollowsMatrix'
      BY <1>1, <1>3 DEF SelectionInv, SelectionFollowsMatrix, Found
<1>5. /\ pc' \in {"resolve", "walk", "rooted"} =>
           field' = 1 /\ \A f \in Fields : fields'[f] = Absent
      /\ pc' \in {"resolve", "walk", "rooted", "fields"} =>
           lockfiles'["npm"] = "unread" /\ ignored' = {}
      BY DEF SelectionInv
<1>6. pc' = "fields" =>
        /\ field' \in 1 .. 5
        /\ \A f \in Fields : PassedOver(f, fields'[f]) /\ (f >= field' => fields'[f] = Absent)
      BY DEF SelectionInv, PassedOver
<1> QED BY <1>2, <1>4, <1>5, <1>6 DEF SelectionInv

\* Every step of the selection reads or concludes what the matrix says.
LEMMA NextSelection == SelectionInv /\ [Next]_vars => SelectionInv'
<1> SUFFICES ASSUME SelectionInv, [Next]_vars PROVE SelectionInv'
    OBVIOUS
<1>1. CASE ResolvePackage
      BY <1>1, SelectionKept DEF ResolvePackage, Reject, fieldVars
<1>2. CASE ReadMetadata
      BY <1>2, SelectionKept DEF ReadMetadata, Reject, BecomesRoot, fieldVars
<1>3. CASE RootFound
      BY <1>3, SelectionKept DEF RootFound, fieldVars
<1>4. CASE ReadField
  <2>1. PICK d \in Descriptors \cup {Absent} :
          /\ fields' = [fields EXCEPT ![field] = d]
          /\ IF d = Absent \/ Parse(field, d) = "none"
             THEN field' = field + 1 /\ UNCHANGED <<pc, failure>>
             ELSE Reject(Parse(field, d)) /\ UNCHANGED field
        BY <1>4 DEF ReadField
  <2>2. /\ pc = "fields" /\ field \in Fields
        /\ UNCHANGED <<lockfiles, selection, ignored>>
        BY <1>4 DEF ReadField, SelectionInv, LastField, Fields
  <2>3. /\ fields' \in [Fields -> Descriptors \cup {Absent}]
        /\ fields'[field] = d
        /\ \A f \in Fields : f # field => fields'[f] = fields[f]
        BY <2>1, <2>2 DEF SelectionInv
  <2>4. CASE d = Absent \/ Parse(field, d) = "none"
    <3>1. field' = field + 1 /\ pc' = "fields"
          BY <2>1, <2>2, <2>4
    <3>2. field' \in 1 .. 5
          BY <2>2, <3>1 DEF Fields
    <3>3. PassedOver(field, d)
          BY <2>4 DEF PassedOver
    <3>4. ASSUME NEW f \in Fields
          PROVE  PassedOver(f, fields'[f]) /\ (f >= field' => fields'[f] = Absent)
      <4>1. CASE f = field
            BY <2>2, <2>3, <3>1, <3>3, <4>1 DEF Fields
      <4>2. CASE f # field
        <5>1. PassedOver(f, fields[f]) /\ (f >= field => fields[f] = Absent)
              BY <2>2 DEF SelectionInv
        <5>2. f >= field' => f >= field
              BY <2>2, <3>1 DEF Fields
        <5> QED BY <2>3, <4>2, <5>1, <5>2
      <4> QED BY <4>1, <4>2
    <3>5. lockfiles'["npm"] = "unread" /\ ignored' = {}
          BY <2>2 DEF SelectionInv
    <3>6. SelectionFollowsMatrix'
          BY <3>1 DEF SelectionFollowsMatrix
    <3> QED BY <2>3, <3>1, <3>2, <3>4, <3>5, <3>6 DEF SelectionInv, PassedOver
  <2>5. CASE d # Absent /\ Parse(field, d) # "none"
    <3>1. pc' = "rejected"
          BY <2>1, <2>5 DEF Reject
    <3>2. field \in Declaring'
          BY <2>2, <2>3, <2>5 DEF Declaring
    <3>3. ~Supported(field, fields'[field])
          BY <2>2, <2>3, <2>5, ParseIsSupport
    <3>4. ~Admissible'
          BY <3>2, <3>3 DEF Admissible
    <3> QED BY <2>3, <3>1, <3>4 DEF SelectionInv, SelectionFollowsMatrix
  <2> QED BY <2>4, <2>5
<1>5. CASE SelectManager
  <2> DEFINE first == Min(Declaring)
  <2>1. /\ pc = "fields" /\ Declaring # {} /\ UNCHANGED <<field, fields, lockfiles, ignored>>
        BY <1>5 DEF SelectManager
  <2>2. first \in Declaring
        BY <2>1, FirstField DEF Declaring
  <2>3. \A f \in Declaring : fields[f] \in Descriptors /\ Supported(f, fields[f])
    <3>1. ASSUME NEW f \in Declaring
          PROVE  fields[f] \in Descriptors /\ Supported(f, fields[f])
      <4>1. f \in Fields /\ fields[f] # Absent
            BY DEF Declaring
      <4>2. fields[f] \in Descriptors /\ Parse(f, fields[f]) = "none"
            BY <2>1, <4>1 DEF SelectionInv, PassedOver
      <4> QED BY <4>1, <4>2, ParseIsSupport
    <3> QED BY <3>1
  <2>4. /\ Declaring' = Declaring
          /\ \A f, g \in Fields : Disagree(f, g)' <=> Disagree(f, g)
        /\ Admissible' <=> Admissible
        BY <2>1, MatrixKept
  <2>5. CASE \E f \in Declaring : Conflict(fields[f], fields[first])
    <3>1. pc' = "rejected"
          BY <1>5, <2>5 DEF SelectManager, Reject
    <3>2. ~Admissible
          BY <2>2, <2>5 DEF Admissible, Conflict, Disagree
    <3> QED BY <2>1, <2>4, <3>1, <3>2 DEF SelectionInv, SelectionFollowsMatrix
  <2>6. CASE \A f \in Declaring : ~Conflict(fields[f], fields[first])
    <3>1. /\ pc' = "lockfiles"
          /\ selection' = [name |-> fields[first].name, source |-> first]
          BY <1>5, <2>6 DEF SelectManager
    <3>2. \A f \in Declaring, g \in Declaring : ~Disagree(f, g)
          BY <2>6 DEF Conflict, Disagree
    <3>3. Agreed'
          BY <2>1, <2>3, <2>4, <3>1, <3>2 DEF Agreed, Declaring
    <3>4. SelectionFollowsMatrix'
          BY <3>1 DEF SelectionFollowsMatrix
    <3> QED BY <2>1, <3>1, <3>3, <3>4 DEF SelectionInv
  <2> QED BY <2>5, <2>6
<1>6. CASE ValidateLockfiles
  <2>1. PICK found \in Findings :
          /\ lockfiles' = found
          /\ IF Odd(found) # {} \/ selection.name \notin Regular(found)
             THEN Reject("required-lockfile-missing") /\ UNCHANGED ignored
             ELSE /\ pc' = "selected" /\ ignored' = Regular(found) \ {selection.name}
                  /\ UNCHANGED failure
        BY <1>6 DEF ValidateLockfiles
  <2>2. pc = "lockfiles" /\ UNCHANGED <<field, fields, selection>>
        BY <1>6 DEF ValidateLockfiles
  <2>3. Agreed /\ Declaring' = Declaring /\ Min(Declaring) \in Declaring
    <3>1. Agreed
          BY <2>2 DEF SelectionInv
    <3> QED BY <2>2, <3>1, FirstField DEF Agreed, Declaring
  <2>4. /\ lockfiles'["npm"] # "unread" /\ Found' = Regular(found)
        /\ (\A m \in Managers : lockfiles'[m] # "odd") <=> Odd(found) = {}
        BY <2>1 DEF Findings, Managers, Found, Regular, Odd
  <2>5. /\ \A f \in Declaring : Supported(f, fields'[f])
        /\ \A f \in Declaring, g \in Declaring : ~Disagree(f, g)'
        BY <2>2, <2>3 DEF Agreed, Disagree
  <2>6. \A f \in Declaring : fields[f].name = selection.name
        BY <2>3 DEF Agreed, Disagree
  <2>7. CASE Odd(found) # {} \/ selection.name \notin Regular(found)
    <3>1. pc' = "rejected"
          BY <2>1, <2>7 DEF Reject
    <3>2. ~Admissible'
          BY <2>2, <2>3, <2>4, <2>6, <2>7 DEF Admissible
    <3> QED BY <2>2, <3>1, <3>2 DEF SelectionInv, SelectionFollowsMatrix
  <2>8. CASE Odd(found) = {} /\ selection.name \in Regular(found)
    <3>1. pc' = "selected" /\ ignored' = Regular(found) \ {selection.name}
          BY <2>1, <2>8
    <3>2. Admissible'
          BY <2>2, <2>3, <2>4, <2>5, <2>6, <2>8 DEF Admissible
    <3>3. /\ Declaring' # {}
          /\ selection' = [name |-> fields'[Min(Declaring')].name, source |-> Min(Declaring')]
          BY <2>2, <2>3 DEF Agreed
    <3>4. ignored' = Found' \ {selection'.name}
          BY <2>2, <2>4, <3>1
    <3> QED BY <2>2, <3>1, <3>2, <3>3, <3>4 DEF SelectionInv, SelectionFollowsMatrix
  <2> QED BY <2>7, <2>8
<1>7. CASE InferFromLockfile
  <2>1. PICK found \in Findings :
          /\ lockfiles' = found
          /\ \/ /\ Odd(found) # {} \/ Cardinality(Regular(found)) # 1
                /\ Reject("package-manager-conflict") /\ UNCHANGED selection
             \/ /\ Odd(found) = {} /\ Regular(found) = {"npm"}
                /\ selection' = [name |-> "npm", source |-> 0]
                /\ pc' = "selected" /\ UNCHANGED failure
             \/ /\ Odd(found) = {} /\ Regular(found) = {"pnpm"}
                /\ Reject("package-manager-version-required") /\ UNCHANGED selection
             \/ /\ Odd(found) = {} /\ Regular(found) = {"yarn"}
                /\ Reject("yarn-selection-invalid") /\ UNCHANGED selection
        BY <1>7 DEF InferFromLockfile
  <2>2. /\ pc = "fields" /\ Declaring = {} /\ UNCHANGED <<field, fields, ignored>>
        BY <1>7 DEF InferFromLockfile
  <2>3. Declaring' = {} /\ ignored' = {}
        BY <2>2 DEF Declaring, SelectionInv
  <2>4. /\ lockfiles'["npm"] # "unread" /\ Found' = Regular(found)
        /\ (\A m \in Managers : lockfiles'[m] # "odd") <=> Odd(found) = {}
        BY <2>1 DEF Findings, Managers, Found, Regular, Odd
  <2>5. Admissible' <=> Odd(found) = {} /\ Regular(found) = {"npm"}
        BY <2>3, <2>4 DEF Admissible
  <2>6. CASE Odd(found) = {} /\ Regular(found) = {"npm"}
    <3>1. Cardinality({"npm"}) = 1
          BY FS_Singleton
    <3>2. {"npm"} # {"pnpm"} /\ {"npm"} # {"yarn"}
          OBVIOUS
    <3>3. pc' = "selected" /\ selection' = [name |-> "npm", source |-> 0]
          BY <2>1, <2>6, <3>1, <3>2
    <3>4. ignored' = Found' \ {selection'.name}
          BY <2>3, <2>4, <2>6, <3>3
    <3> QED BY <2>2, <2>3, <2>5, <2>6, <3>3, <3>4 DEF SelectionInv, SelectionFollowsMatrix
  <2>7. CASE ~(Odd(found) = {} /\ Regular(found) = {"npm"})
    <3>1. pc' = "rejected"
          BY <2>1, <2>7 DEF Reject
    <3> QED BY <2>2, <2>5, <2>7, <3>1 DEF SelectionInv, SelectionFollowsMatrix
  <2> QED BY <2>6, <2>7
<1>8. CASE AnalyzeReturns
  <2>1. pc' = "analyzed" /\ fields' \in [Fields -> Descriptors \cup {Absent}]
        BY <1>8 DEF AnalyzeReturns, SelectionInv
  <2> QED BY <2>1 DEF SelectionInv, SelectionFollowsMatrix
<1>9. CASE CompareVersion \/ NothingToCompare
      BY <1>9, SelectionKept DEF CompareVersion, NothingToCompare, fieldVars
<1>10. CASE UNCHANGED vars
      BY <1>10, SelectionKept DEF vars, fieldVars
<1> QED BY <1>1, <1>2, <1>3, <1>4, <1>5, <1>6, <1>7, <1>8, <1>9, <1>10 DEF Next

\* A manager is selected exactly if the matrix admits the checkout, for any descriptors.
THEOREM SelectionIsRight == Spec => []SelectionFollowsMatrix
<1>1. Spec => []SelectionInv
      BY InitSelection, NextSelection, PTL DEF Spec
<1>2. SelectionInv => SelectionFollowsMatrix
      BY DEF SelectionInv
<1> QED BY <1>1, <1>2, PTL
=============================================================================
