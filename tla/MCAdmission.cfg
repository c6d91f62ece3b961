\* Two operations at once on two workspaces of an administrator, who has no limit until one is
\* set; two services each, three ports: one too few for both.
SPECIFICATION MCSpec
CONSTANTS
    None = None
    User = {u1}
    Administrator = {u1}
    Groups = 1
    Workspace = {w1, w2}
    Service = {s1, s2}
    Port = {p1, p2, p3}
    Request = {r1, r2}
    Size = {1}
    Quota <- SmallQuotas
    Capacity = {1, 2}
    Host = 2
    MaxLimit = 1
    MaxContainer = 2
    MaxChange = 1
    MaxReconcile = 1
SYMMETRY Alike
CHECK_DEADLOCK FALSE
INVARIANTS
    TypeOK
    StartsFindTheirPorts
 
