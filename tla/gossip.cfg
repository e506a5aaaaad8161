SPECIFICATION FairSpec
CONSTANTS
  Node = {1, 2, 3}
  Channel <- MCChannel
  Topologies <- MCTopologies
  MaxRefreshes = 1
  MaxCuts = 1
CHECK_DEADLOCK FALSE
INVARIANTS
  GraphsAgree
  AnnouncedByBoth
PROPERTIES
  ChannelsAreAnnounced
