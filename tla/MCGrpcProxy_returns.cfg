\* Liveness of calls that compete for a queue of one command, with heartbeats between the
\* answers.
SPECIFICATION FairSpec
CONSTANTS
    Devices = {d1}
    Streams = {s1}
    Requests = {r1, r2}
    NoDevice = NoDevice
    NoStream = NoStream
    NoRequest = NoRequest
    SendQCap = 1
    Beating = {s1}
    BeatCap = 1
    Logging = {}
PROPERTY
    CallsReturn
