SPECIFICATION Spec
CONSTANTS
    None = None
    User = {u1, u2}
    Address = {a1}
    Workspace = {w1}
    Request = {r1, r2}
    MaxRows = 2
SYMMETRY Alike
CHECK_DEADLOCK FALSE
INVARIANTS
    TypeOK
    AdministratorRemains
    AddressesDistinct
    NoRowCascades
