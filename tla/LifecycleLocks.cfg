\* Three requests and the background loop on two workspaces.
CONSTANTS
    Request = {r1, r2, r3}
    Loop = loop
    Workspace = {w1, w2}
    Free = free
SPECIFICATION FairSpec
INVARIANTS
    LocksMatchTasks
    WorkspaceExclusion
    AdmissionExclusion
PROPERTY OperationsEnd
