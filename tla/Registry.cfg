SPECIFICATION Spec
CONSTANTS
    v1 = v1 v2 = v2 sub = sub c1 = c1 c2 = c2 m1 = m1 m2 = m2 x1 = x1 x2 = x2 Nil = Nil
    Client = {c1, c2} Version = {v1, v2}
    Subs = {sub} DefSpecs <- MCDefSpecs
    Labels = {m1, m2} Values = {x1, x2}
    MaxRev = 4
INVARIANTS RegistryTypeOK GenerationIdentifiesSpec PutBackIsNoOp StoredVersionsAreKept
PROPERTIES StatusIsSeparate
CHECK_DEADLOCK FALSE
SYMMETRY Symmetry
