SPECIFICATION FairSpec
CONSTANTS
  N = 3
  Versions = 3
  TicksPerTransfer = 1
  Slack = 2
INVARIANT TypeOK
INVARIANT NoOverlap
INVARIANT ConsecutiveFrames
INVARIANT UntornFrame
INVARIANT NoUnderrun
INVARIANT OneUpdatePerTick
PROPERTY StoppedComesToRest
PROPERTY KeepsRefreshing
