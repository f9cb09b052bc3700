\* Who writes to a control stream.
SPECIFICATION Spec
CONSTANTS
    Devices = {d1}
    Streams = {s1}
    Requests = {r1}
    NoDevice = NoDevice
    NoStream = NoStream
    NoRequest = NoRequest
    SendQCap = 1
    Beating = {}
    BeatCap = 0
    Logging = {}
INVARIANT
    SingleWriter
