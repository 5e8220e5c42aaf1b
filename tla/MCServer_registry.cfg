SPECIFICATION Spec
CONSTANTS
  Address = {a1, a2, a3}
  Port = {p1}
  TopicName = {news, sport}
  Message = {m1, m2}
  NoMessage = NoMessage
  TopicPtr = {t1, t2}
  ConnPtr = {c1, c2, c3}
  NullPtr = NullPtr
  topicTimeout = 1
  MaxTime = 1
SYMMETRY Symmetry
INVARIANTS TypeOK MemorySafety UniqueRegistration NoEmptyTopic
PROPERTIES ImplementsService
