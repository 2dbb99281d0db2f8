SPECIFICATION Spec
INVARIANTS TypeOK DuplicatesBounded AutomationOncePerContact
PROPERTY DeliverySpec
SYMMETRY WorkerSymmetry
CONSTANTS
    Workspaces = {a}
    Leads = {hashed}
    Keys = {k2, k3}
    Sources = {s2}
    Workers = {w1, w2}
    AutoAck = {a}
    Configs <- AnyConfig
    ContactLimit = 1
    Limit = 2
    MaxFaults = 1
    MaxReconfigs = 1
    Anonymous = {}
    Ready = {a}
    Persons = {p1}
    KeyOf <- MCKeyOf
    MappedKeyOf <- MCMappedKeyOf
    PersonOf <- MCPersonOf
    SourceOf <- MCSourceOf
    portal = portal
    hashed = hashed
    k1 = k1
    k2 = k2
    k3 = k3
    k4 = k4
    p2 = p2
    nameless = nameless
    p1 = p1
    s1 = s1
    s2 = s2
    Null = Null
    NoEvent = NoEvent
    NoConfig = NoConfig
