CONSTANTS
    Clients = {c1, c2}
    Requests = {"SEND"}
    Ports = {"serial"}
    MaxRequests = 1
    MaxLinkEvents = 0
SPECIFICATION CtlSpec
INVARIANT WaitsForResponse
CHECK_DEADLOCK FALSE
