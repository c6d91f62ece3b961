\* A workspace and the one that takes over its storage, one piece of data in one of two
\* directories; every fault but one: a rename that has just been made can be undone.
CONSTANTS
    Workspace = {w1, w2}
    Directory = {d1, d2}
    Volume = {v1}
    Template = {{d1, d2, v1}}
    Fault = {"podman", "disk", "crash", "leave"}
    WriteLimit = 1
    None = None
SPECIFICATION Spec
INVARIANTS
    DataSurvives
    VolumesExclusive
PROPERTY KeepsCustody
SYMMETRY Identifiers
CHECK_DEADLOCK FALSE
