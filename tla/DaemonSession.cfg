CONSTANTS
    Clients = {c1}
    Requests = {"CONNECT", "DISCONNECT", "RECONNECT", "PING", "STATUS", "STATS",
                "SEND", "BAD", "OTHER"}
    Ports = {"tcp"}
    MaxRequests = 2
    MaxLinkEvents = 1
SPECIFICATION Spec
INVARIANTS TypeOK OneRead StreamInOrder ViewsAgree
CHECK_DEADLOCK FALSE
