SPECIFICATION LiveSpec
CONSTANTS
  PeerCount = 2
  MinConnectedPeers = 2
  MaxMessages = 1
  MaxFaults = 2
INVARIANTS
  TypeOK
  StreamFollowsMonitor
  NoSilentLoss
  StoppedIsQuiet
PROPERTIES
  FlipsAreDebounced
  SettlesOnSide
  ReachablePeersRedialed
  StopCompletes
