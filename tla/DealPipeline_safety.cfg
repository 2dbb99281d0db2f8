SPECIFICATION Spec
SYMMETRY Symmetry
INVARIANTS TypeOK RevenueFollowsStages LastMoveIsTrue EveryOrderCanBeSaved
CONSTANTS
    Deals = {d1, d2}
    Stages = {s1, s2, s3}
    First = s1
    Won = s2
    Users = {u1, u2}
    Offset = 100
    MaxWrites = 3
    Null = Null
CHECK_DEADLOCK FALSE
