SPECIFICATION FairSpec
INVARIANTS TypeOK 
PROPERTIES  EventsAreHandled
CONSTANTS
    Workspaces = {a, b}
    Plans = {builder, pro}
    Pro = pro
    Customers = {c1, c2}
    Subs = {s1, s2}
    Handlers = {h1}
    Ordered = TRUE
    Exclusive = TRUE
    MaxEvents = 4
    MaxFaults = 1
    Null = Null
    NoRow = NoRow
CHECK_DEADLOCK FALSE
