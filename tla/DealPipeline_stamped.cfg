SPECIFICATION Spec
PROPERTY StampedOnce
CONSTANTS
    Deals = {d1}
    Stages = {s1, s2, s3}
    First = s1
    Won = s2
    Users = {u1}
    Offset = 100
    MaxWrites = 3
    Null = Null
CHECK_DEADLOCK FALSE
