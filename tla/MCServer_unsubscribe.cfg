SPECIFICATION Spec
CONSTANTS
  Address = {a1, a2}
  Port = {p1}
  TopicName = {news, sport}
  Message = {m1}
  NoMessage = NoMessage
  TopicPtr = {t1, t2}
  ConnPtr = {c1, c2}
  NullPtr = NullPtr
  topicTimeout = 1
  MaxTime = 0
SYMMETRY Symmetry
PROPERTIES UnsubscribeRemovesCaller
