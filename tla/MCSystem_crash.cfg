SPECIFICATION SystemSpec
CONSTANTS
  news = news
  sport = sport
  hello = hello
  Proc = {p1, p2}
  CommandLine <- Subscribers
  Faults = {}
  HostPort = {q1, q2}
  NoPort = NoPort
  Loopback = Loopback
  Address = {Loopback}
  Port = {q1, q2}
  TopicName = {news, sport}
  Message = {hello}
  NoMessage = NoMessage
  TopicPtr = {t1, t2}
  ConnPtr = {c1, c2}
  NullPtr = NullPtr
  topicTimeout = 1
  MaxTime = 0
SYMMETRY Symmetry
INVARIANTS NeverCrashes
