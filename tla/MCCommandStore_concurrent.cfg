\* Several clients of one set: executions, updates, failing saves, restarts.
SPECIFICATION SerialSpec
CONSTANTS
    Ids = {i1}
    Contents = {v1, v2}
    Clients = {c1, c2}
    NoSet = NoSet
    NoId = NoId
    NoClient = NoClient
    Torn = Torn
    NoWrite = NoWrite
    Steps = 2
    LoadMayFail = TRUE
SYMMETRY Symmetry
INVARIANTS
    TypeOK
    FileIsSnapshot
    ExecutesOneVersion
    SerialSavesAreDurable
PROPERTIES
    StoreIsDurableMap
