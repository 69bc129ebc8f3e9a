SPECIFICATION Spec
CONSTANTS
  s1 = s1
  s2 = s2
  Session = {}
  NoSession = NoSession
  SseCapacity = 1
  Recorder = Recorder
  AutoReply = AutoReply
  PeerStatus = {"Disconnected", "Connected"}
  BroadcastCapacity = 2
  HistoryLimit = 2
  MaxEvents = 5
  AutoReplyOn = TRUE
  MaxPushes = 2
CHECK_DEADLOCK FALSE
INVARIANTS
  TypeOK
  HistoryFaithful
  HistoryAnswer
  StatusOnceSeen
  RepliesInOrder
  AnnouncedWasSent
