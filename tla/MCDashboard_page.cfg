\* The page: lists, changes and executions of one user, two requests in flight.
SPECIFICATION Spec
CONSTANTS
    d1 = d1
    d2 = d2
    i1 = i1
    v1 = v1
    v2 = v2
    Devices = {d1, d2}
    Ids = {i1, i2}
    Contents = {v1, v2}
    Calls = {c1, c2}
    Runs = {q1, q2}
    Intervals = {t1, t2}
    MaxInFlight = 2
    LocalSets <- MCLocalSets
    DeviceSets <- MCDeviceSets
    NoRun = NoRun
    NoId = NoId
    NoDevice = NoDevice
    NoSet = NoSet
    NoCall = NoCall
    NoInterval = NoInterval
SYMMETRY Symmetry
INVARIANTS
    TypeOK
    ShownSetsAreReal
    RunningIsShown
    OneMonitor
