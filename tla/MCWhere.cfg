\* The where.Options builder with an 8-bit int: the arithmetic of P and
\* WithPage wraps exactly as Go's 64-bit int does, at a width TLC can count.
CONSTANTS
    IntBits = 8
    Keys = {k1, k2}
    Vals = {v1, v2}
    Ctxs = {c1}
    MaxClauses = 2
    NoTenant = NoTenant
    Panicked = Panicked
SPECIFICATION Spec
INVARIANT OffsetNonNegative
