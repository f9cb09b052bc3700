\* A reconnect before the old stream's end is noticed.
SPECIFICATION Spec
CONSTANTS
    Devices = {d1}
    Streams = {s1, s2}
    Requests = {}
    NoDevice = NoDevice
    NoStream = NoStream
    NoRequest = NoRequest
    SendQCap = 1
    Beating = {}
    BeatCap = 0
    Logging = {}
PROPERTY
    LiveStreamStaysRouted
