SPECIFICATION FairSystemSpec
CONSTANTS
  news = news
  sport = sport
  hello = hello
  Proc = {p1, p2}
  CommandLine <- AllCommands
  Faults = {"timeout", "connect", "kill"}
  HostPort = {q1}
  NoPort = NoPort
  Loopback = Loopback
  Address = {Loopback}
  Port = {q1}
  TopicName = {news}
  Message = {hello}
  NoMessage = NoMessage
  TopicPtr = {t1}
  ConnPtr = {c1}
  NullPtr = NullPtr
  topicTimeout = 1
  MaxTime = 1
PROPERTIES ClientEnds
