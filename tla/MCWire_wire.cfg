SPECIFICATION WireSpec
CONSTANTS
  MaxText = 2
  MaxList = 3
  Digit = {0, 1}
  OutOfRange = OutOfRange
  Unset = {0, 3, 4}
  Text <- SomeTexts
  Lists <- AnyLists
  Foreign <- Strange
  Names <- Sizes
  Messages <- Sizes
  Registries <- ManyTopics
  MaxSegment = 65495
  Behind = {0, 1}
INVARIANTS ArgumentsArrive NobodyTerminates ListsArrive MessagesArrive WrongFormatIsRefused AcceptedMessagesFit RestrictionSuffices ListsFit
