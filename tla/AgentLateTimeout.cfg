\* Two prompts at once: the timer of an answered one still runs.
CONSTANTS
    c1 = c1
    c2 = c2
    c3 = c3
    c4 = c4
    d1 = d1
    d2 = d2
    Conns = {c1, c2}
    Devices = {d1, d2}
    NoIface = NoIface
    NoCall = NoCall
    NoConn = NoConn
    IfaceOf <- BoundTwo
    KindOf <- PskKinds
    AgentOwned = {}
    Inputs <- RetryInputs
    MaxCalls = 2
SPECIFICATION Spec
INVARIANTS SubmittedIsDelivered
