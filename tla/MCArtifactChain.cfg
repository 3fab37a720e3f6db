SPECIFICATION Spec
CONSTANTS
  Identities = {i1, i2}
  Registries = {r1, r2}
  Tags = {t1, t2}
  Variants = {v1, v2}
  None = None
INVARIANT SignedAsBuilt
INVARIANT PublishedAsInspected
INVARIANT OnlyCheckedContents
CHECK_DEADLOCK FALSE
SYMMETRY ChainSymmetry
