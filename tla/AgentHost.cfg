SPECIFICATION FairSpec
CONSTANTS
  Peers = {"p", "q"}
  Workspaces = {"w"}
  Reloaders = {"rpcP", "pushP", "rpcQ"}
  PeerOf <- MCPeerOf
  Cancellable = {"rpcP"}
  Pushers = {"pushP"}
  Closing = {"p"}
  First <- MCFirst
  MaxRuns = 2
  MaxSelects = 1
CHECK_DEADLOCK FALSE
INVARIANTS TypeOK AttachmentsSound
PROPERTIES CallsSettle
