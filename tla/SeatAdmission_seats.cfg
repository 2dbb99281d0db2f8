SPECIFICATION FairSpec
CONSTANTS
    Users = {o, u1}
    Owner = o
    Invites = {i1, i2}
    Requests = {r1, r2}
    Plans = {1, 2}
    Null = Null
INVARIANTS TypeOK SeatCap AdmissionsPerInvite
PROPERTIES AdmissionWithinPlan EveryRequestEnds
