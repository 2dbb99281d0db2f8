SPECIFICATION FairSpec
INVARIANTS TypeOK ProcessedIsIngested CopiesBounded
 
CONSTANTS
    Workspaces = {a}
    Senders = {s}
    Messages = {m1, m2}
    Outgoing = {o1}
    Batches = {single, mixed}
    EventsOf <- MCEventsOf
    FromOf <- OneCustomer
    SentBy <- FirstWorkspace
    SentTo <- ToCustomer
    Default = Null
    Handlers = {h1, h2}
    Limit = 3
    MaxLinks = 1
    MaxFaults = 1
    mixed = mixed
    single = single
    delivered = delivered
    failed = failed
    m1 = m1
    m2 = m2
    o1 = o1
    Null = Null
    NoRow = NoRow
CHECK_DEADLOCK FALSE
