SPECIFICATION ReadingSpec
CONSTANTS
  s1 = s1
  s2 = s2
  Session = {s1}
  NoSession = NoSession
  SseCapacity = 1
  Recorder = Recorder
  AutoReply = AutoReply
  PeerStatus = {"Disconnected", "Connected"}
  BroadcastCapacity = 2
  HistoryLimit = 2
  MaxEvents = 4
  AutoReplyOn = FALSE
  MaxPushes = 0
CHECK_DEADLOCK FALSE
INVARIANT NotificationsUnbroken
PROPERTIES
  Recorded
  Delivered
