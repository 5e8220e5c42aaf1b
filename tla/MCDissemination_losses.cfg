SPECIFICATION FairDissSpec
CONSTANTS
  Client = {s1, s2}
  ConnPtr = {c1, c2}
  TopicName = {news}
  Message = {m1, m2}
  NoMessage = NoMessage
  topicTimeout = 2
  Jumps = {3}
  MaxSetBacks = 1
PROPERTIES EveryoneCatchesUp
