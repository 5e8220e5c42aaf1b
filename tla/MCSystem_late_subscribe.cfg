SPECIFICATION SystemSpec
CONSTANTS
  news = news
  sport = sport
  hello = hello
  Proc = {p1}
  CommandLine <- OneSubscriber
  Faults = {"timeout"}
  HostPort = {q1}
  NoPort = NoPort
  Loopback = Loopback
  Address = {Loopback}
  Port = {q1}
  TopicName = {news}
  Message = {hello}
  NoMessage = NoMessage
  TopicPtr = {t1}
  ConnPtr = {c1}
  NullPtr = NullPtr
  topicTimeout = 1
  MaxTime = 0
INVARIANTS LeavesNothing
