\* A terminal, a desktop, three callers on one workspace in two states, two callers on three
\* workspaces, two requests in flight over three sources, two operations on two names,
\* a template with two images.
SPECIFICATION PartsSpec
CONSTANTS
    Terminal = {t1}
    Desktop = {d1}
    Workspace = {w1}
    Fingerprint = {p1, p2}
    Caller = {c1, c2, c3}
    Many = {w1, w2, w3}
    Fewer = {c1, c2}
    MaxCache = 1
    Source = {s1, s2, s3}
    Resets = {s3}
    Login = {l1, l2}
    MaxFailures = 2
    Window = 2
    MaxTracked = 2
    Request = {r1, r2}
    Name = {a, b}
    Programs = TRUE
    MaxCrash = 1
    Template = {k1}
    Image = {i1, i2}
    Page = {v1}
    Puller = {g1, g2}
    None = None
SYMMETRY Alike
INVARIANTS
    PartsTypeOK
    BridgesSettle
    UsageIsShared
    TablesBounded
    PullsMatch
PROPERTIES
    PartsEnd
    FilesKept
