\* One account, two handlers at once, two links: enough for a link to supersede
\* another while a handler still holds the first.
CONSTANTS
    User = {u1}
    Address = {a1, a2}
    Request = {r1, r2}
    Session = {s1, s2}
    MaxVersion = 2
    MaxSerial = 2
    None = None
SPECIFICATION Spec
SYMMETRY Alike
INVARIANTS
    TypeOK
    RevocationIsComplete
    LinksFollowAddress
    PendingMailOpens
PROPERTY ReplacedMeansRevoked
CHECK_DEADLOCK FALSE
