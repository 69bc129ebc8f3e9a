SPECIFICATION FairSpec
CONSTANTS
  s1 = s1
  s2 = s2
  c1 = c1
  c2 = c2
  a1 = a1
  Session = {s1}
  NoSession = NoSession
  SseCapacity = 1
  AutoCall = {a1}
  ToolCall = {c1}
  text = text
  bad = bad
  Body = {text}
  StaleSession = StaleSession
  NoAnswer = NoAnswer
CHECK_DEADLOCK FALSE
PROPERTY SessionCleanedUp
