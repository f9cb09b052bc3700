\* Two devices are selected one after the other.
SPECIFICATION Spec
CONSTANTS
    d1 = d1
    d2 = d2
    i1 = i1
    v1 = v1
    v2 = v2
    Devices = {d1, d2}
    Ids = {i1}
    Contents = {v1, v2}
    Calls = {c1, c2}
    Runs = {q1}
    Intervals = {t1, t2}
    MaxInFlight = 2
    LocalSets <- MCLocalSets
    DeviceSets <- MCDeviceSets
    NoRun = NoRun
    NoId = NoId
    NoDevice = NoDevice
    NoSet = NoSet
    NoCall = NoCall
    NoInterval = NoInterval
INVARIANT
    ListIsOfSelected
