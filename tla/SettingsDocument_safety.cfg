SPECIFICATION SettingsSpec
CONSTANTS
    Writers = {w1, w2}
    MaxRequests = 3
    MaxFaults = 1
SYMMETRY Symmetric
INVARIANTS
    SettingsTypeOK
    LastWriteStands
    AuditComplete

    
CHECK_DEADLOCK FALSE
