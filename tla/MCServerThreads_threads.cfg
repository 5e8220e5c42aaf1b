SPECIFICATION ThreadsSpec
CONSTANTS
  Thread = {h1, h2}
  Heartbeat = Heartbeat
  NoThread = NoThread
  Address = {a1, a2}
  Port = {p1}
  TopicName = {news, sport}
  Message = {m1}
  NoMessage = NoMessage
  TopicPtr = {t1, t2}
  ConnPtr = {c1, c2}
  NullPtr = NullPtr
  topicTimeout = 1
  MaxTime = 1
SYMMETRY Symmetry
INVARIANTS PointersAreLive MutexIsHeldInside
PROPERTIES ImplementsServer
