SPECIFICATION Spec
CONSTANTS
    User = {u1}
    Group = {g1, g2}
    Template = {t1}
    Content = {c1, c2}
    Request = {r1, r2}
    MaxRevision = 2
SYMMETRY Alike
CHECK_DEADLOCK FALSE
INVARIANTS
    TypeOK
    RevisionNamesContent
PROPERTY DeletionOpensNothing
