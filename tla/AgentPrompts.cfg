\* Two calls in every form over a profile of each kind: nested loops, answers in flight, timeouts.
CONSTANTS
    c1 = c1
    c2 = c2
    c3 = c3
    c4 = c4
    d1 = d1
    d2 = d2
    Conns = {c1, c2, c3, c4}
    Devices = {d1, d2}
    NoIface = NoIface
    NoCall = NoCall
    NoConn = NoConn
    IfaceOf <- BoundIface
    KindOf <- EveryKind
    AgentOwned = {c3}
    Inputs <- EveryInput
    MaxCalls = 2
SPECIFICATION FairSpec
INVARIANTS WaitingIsSuspended OwnPassword PromptCanceledByUser DialogDelivered
PROPERTIES EveryCallAnswered AnswerReaches
