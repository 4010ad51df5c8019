CONSTANTS
  MaxTotal = 4
  MaxInput = 2
  MaxSystem = 1
  MaxLogs = 1
  MaxTurns = 2
  MaxLines = 2
  Tabs = {t1, t2}
  MaxSessions = 3
  MaxFailures = 1
  Requests = {r1, r2}
  Messages = {m1, m2}
  Keys = {k1}
  FreshFor = 1
  MaxTime = 1
  MaxBeats = 2
  Alerts = {a1, a2}
  KeepLocal = 1
  MaxStreams = 3
  MaxChecks = 2
  Rows = {x1, x2}
  KeepFor = 1
  MaxClock = 2
  Abouts = {{}, {"greeting", "cpu"}, {"cpu", "log"}, {"memory"}, {"disk"}, {"network"}, {"ai"}, {"process", "ai"}, {"process"}, {"log"}, {"security"}}
SPECIFICATION MCSpec
INVARIANTS
  PromptFits
  QuestionSentWhileRoom
  ReplyIsWhatWasSent
  PagesCarryTheirOwner
  VisibleIsConnected
  SnapshotIsTold
PROPERTIES
  FallbackAnswersQuestion
  RepliesAreCurrent
  HeartbeatsGrow
  ComingBackFindsASession
  ToastsAreDue
  ExplanationsStay
CHECK_DEADLOCK FALSE
