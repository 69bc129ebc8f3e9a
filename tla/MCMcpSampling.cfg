SPECIFICATION Spec
CONSTANTS
  s1 = s1
  s2 = s2
  c1 = c1
  c2 = c2
  a1 = a1
  Session = {s1, s2}
  NoSession = NoSession
  SseCapacity = 1
  AutoCall = {a1}
  ToolCall = {c1}
  text = text
  bad = bad
  Body = {text, bad}
  StaleSession = StaleSession
  NoAnswer = NoAnswer
SYMMETRY Symmetry
CHECK_DEADLOCK FALSE
INVARIANTS
  TypeOK
  AnswerMatches
  WaiterPresent
  LeaksOnlyCancelled
  ResponseOnOwnStream
PROPERTY FirstReplyWins
