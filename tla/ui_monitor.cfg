SPECIFICATION FairSpec
CONSTANTS
  Location = {l1, l2}
  Poll <- TwoPolls
  MaxActs = 3
  MaxFaults = 1
CHECK_DEADLOCK FALSE
INVARIANTS
  MonitorInv
  PollingGoesOn
PROPERTIES
  PollsDoNotMultiply
  IndicatorClears
  ShownEndIsFlushed
