SPECIFICATION FairProcessSpec
CONSTANTS
  Conn = {k1, k2, k3, k4}
  NoSocket = NoSocket
  MaxDescriptor = 3
  MaxThreads = 3
  backlog = 2
  HasMessage = TRUE
  SetupFaults = {"socket", "bind", "listen"}
INVARIANTS ProcessTypeOK SocketsAreOwned
PROPERTIES ConnectionsAreServed
