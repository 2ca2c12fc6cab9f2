CONSTANTS
    Clients = {c1}
    Requests = {"PING"}
    Ports = {"tcp"}
    MaxRequests = 1
    MaxLinkEvents = 0
SPECIFICATION Spec
INVARIANT Survives
CHECK_DEADLOCK FALSE
