SPECIFICATION ProgressSpec
CHECK_DEADLOCK FALSE
CONSTANTS
    Runs = {r1, r2, r3}
    NoRun = NoRun
    Messages = {j1, j2}
    NoMessage = NoMessage
    Workers = {w1}
    ReplyIds = {}
    NoReplyId = NoReplyId
    TriggerSource = "time"
    OneShot = TRUE
    MaxReclaims = 0
    MaxCrashes = 1
    TaskMessages = {m1}
    Contexts = {c1}
    NoContext = NoContext
PROPERTIES
    
    TaskStops
    
