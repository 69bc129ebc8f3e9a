SPECIFICATION FairSpec
CONSTANTS
  s1 = s1
  s2 = s2
  Session = {}
  NoSession = NoSession
  SseCapacity = 1
  Recorder = Recorder
  AutoReply = AutoReply
  PeerStatus = {"Disconnected", "Connected"}
  BroadcastCapacity = 1
  HistoryLimit = 2
  MaxEvents = 5
  AutoReplyOn = TRUE
  MaxPushes = 0
CHECK_DEADLOCK FALSE
PROPERTY EachChatAsked
