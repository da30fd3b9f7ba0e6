SPECIFICATION Spec
CONSTANTS
  Runs = {r1, r2, r3}
  NoRun = NoRun
  Messages = {m1, m2}
  NoMessage = NoMessage
  Workers = {w1, w2}
  ReplyIds = {a}
  NoReplyId = NoReplyId
  TriggerSource = "time"
  OneShot = TRUE
  MaxReclaims = 1
  MaxCrashes = 1
SYMMETRY Symmetry
CHECK_DEADLOCK FALSE
INVARIANTS
    LeaseConsistent
    SingleExecutor
    ReplyRecordedOnce
    RunCountExact
PROPERTIES
    EndedRunsStayEnded
