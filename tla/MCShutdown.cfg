\* A poller and the exit collector with full channels and rings, pids that are
\* reused, and a signal at any time.
SPECIFICATION FairSpec
CONSTANTS
  Pids = {1}
  Cpus = {1}
  Cids = {a}
  Host = Host
  RingSize = 3
  ChannelSize = 1
  MaxLives = 3
  SnapChannel = 1
  Pollers <- MCPollers
INVARIANTS
  TypeOK
  ExitsAccounted
  ExitsNotInvented
  ClosedIsUnused
PROPERTIES
  SignalEndsAgent
  ResolvedIsIngested
