\* One call, two streams of one device, late log lines: the promise to the caller, and
\* sendLoops and device status over a reconnect.
SPECIFICATION FairSpec
CONSTANTS
    Devices = {d1}
    Streams = {s1, s2}
    Requests = {r1}
    NoDevice = NoDevice
    NoStream = NoStream
    NoRequest = NoRequest
    SendQCap = 1
    Beating = {}
    BeatCap = 0
    Logging = {s1}
INVARIANTS
    IInv
    NoLoopLeaks
PROPERTIES
    PromiseKept
    UnroutedByClosed
    CloseCancelsCalls
    SendLoopStops
    GoneBecomesOffline
