CONSTANTS
    Request = {r1, r2}
    Loop = loop
    Workspace = {w1}
    Free = free
    Absent = absent
    MaxContainer = 2
SPECIFICATION CalmSpec
INVARIANT RowsTrueWhenUnlocked
CHECK_DEADLOCK FALSE
