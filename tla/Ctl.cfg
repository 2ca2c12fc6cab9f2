CONSTANTS
    Clients = {c1, c2}
    Requests = {"PING", "SEND", "CONNECT", "DISCONNECT"}
    Ports = {"tcp", "serial", "none"}
    MaxRequests = 1
    MaxLinkEvents = 0
SPECIFICATION CtlFairSpec
INVARIANTS StreamInOrder HelloFirst ViewsAgree QueriesServed FailsOnItsOwn
PROPERTIES CtlReturns
CHECK_DEADLOCK FALSE
