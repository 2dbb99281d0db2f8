SPECIFICATION Spec
CONSTANTS
    d1 = d1
    u1 = u1
    u2 = u2
    p1 = p1
    Deals = {d1}
    Units = {u1, u2}
    Offered <- OneDeal
    Plans = {p1}
    NoPlan = NoPlan
    Milestones <- OnePlan
    Agents = {a1, a2}
    MaxRequests = 2
    MaxFaults = 1
    Null = Null
SYMMETRY Symmetry
INVARIANTS TypeOK BookedHasSchedule BookedDealHoldsUnit
PROPERTY ForwardOnly
CHECK_DEADLOCK FALSE
