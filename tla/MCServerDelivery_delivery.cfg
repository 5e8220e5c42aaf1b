SPECIFICATION DeliverySpec
CONSTANTS
  Address = {a1, a2}
  Port = {p1}
  TopicName = {news, sport}
  Message = {m1, m2}
  NoMessage = NoMessage
  TopicPtr = {t1, t2}
  ConnPtr = {c1, c2}
  NullPtr = NullPtr
  Never = Never
  topicTimeout = 1
  MaxTime = 2
SYMMETRY Symmetry
INVARIANTS OwedIsDue
PROPERTIES PassSettlesAll HeartbeatSpacing
