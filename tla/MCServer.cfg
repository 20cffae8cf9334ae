SPECIFICATION Spec
CONSTANTS
    c1 = c1
    c2 = c2
    p1 = p1
    NONE = NONE
    Conns = {c1, c2}
    Peers = {p1}
    PeerId <- MCPeerId
    Outbound = {}
    Exempt = {c1}
    MAX_INBOUND = 1
    HALF = 2
    MaxRequests = 2
    MaxTasks = 1
INVARIANTS
    TypeOK
    AnswersMatch
    TasksTracked
    
PROPERTIES
    ExecuteTasksRunFully
CHECK_DEADLOCK FALSE
