SPECIFICATION LinesSpec
CONSTANTS
  Text <- Arguments
  Lines <- ClientLines
  Intents <- ClientIntents
  ServerNumber <- Words
  ServerLines <- ShortServerLines
  ServerIntents <- DocumentedIntents
INVARIANTS ClientLinesRun ServerLinesRun
PROPERTIES SubscribersStay
CHECK_DEADLOCK FALSE
