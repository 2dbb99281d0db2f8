SPECIFICATION Spec
PROPERTY ReplayIdempotent
CONSTANTS
    Workspaces = {a}
    Leads = {portal}
    Keys = {k1}
    Sources = {s1}
    Workers = {w1}
    AutoAck = {a}
    Configs <- EnabledConfig
    ContactLimit = 5
    Limit = 1
    MaxFaults = 1
    MaxReconfigs = 0
    Anonymous = {}
    Ready = {a}
    Persons = {p1}
    KeyOf <- MCKeyOf
    MappedKeyOf <- MCMappedKeyOf
    PersonOf <- MCPersonOf
    SourceOf <- MCSourceOf
    portal = portal
    hashed = hashed
    k1 = k1
    k2 = k2
    k3 = k3
    k4 = k4
    p2 = p2
    nameless = nameless
    p1 = p1
    s1 = s1
    s2 = s2
    Null = Null
    NoEvent = NoEvent
    NoConfig = NoConfig
