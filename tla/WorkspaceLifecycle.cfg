\* One request after the other against the loop, with every fault; one container.
CONSTANTS
    Request = {r1}
    Loop = loop
    Workspace = {w1}
    Free = free
    Absent = absent
    MaxContainer = 1
SPECIFICATION FairSpec
INVARIANT DirectoriesRecoverable
PROPERTIES
    FollowsLockProtocol
    RowsConverge
CHECK_DEADLOCK FALSE
