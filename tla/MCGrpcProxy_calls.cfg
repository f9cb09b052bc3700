\* Two calls over two streams of one device: replacement, cancellation, loss.
SPECIFICATION Spec
CONSTANTS
    Devices = {d1}
    Streams = {s1, s2}
    Requests = {r1, r2}
    NoDevice = NoDevice
    NoStream = NoStream
    NoRequest = NoRequest
    SendQCap = 1
    Beating = {}
    BeatCap = 0
    Logging = {}
SYMMETRY Symmetry
INVARIANTS
    TypeOK
    NoPanic
    RoutedIsServed
    TablesAgree
    CancelReachesCall
    DisconnectedIsOffline
