\* Two clients: an older snapshot is renamed last.
SPECIFICATION SerialSpec
CONSTANTS
    Ids = {i1, i2}
    Contents = {v1}
    Clients = {c1, c2}
    NoSet = NoSet
    NoId = NoId
    NoClient = NoClient
    Torn = Torn
    NoWrite = NoWrite
    Steps = 1
    LoadMayFail = FALSE
INVARIANTS
    AckedIsDurable
