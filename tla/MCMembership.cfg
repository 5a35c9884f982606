SPECIFICATION FairSpec
CONSTANTS
  goer = goer
  stayer = stayer
  Host = {goer, stayer}
  Group = {"home", "work"}
  NoGroup = "none"
  PeerTtl = 2
  MaxSkew = 1
  MaxLead = 1
  Delay = 1
  Lead <- MCLead
  Native = {goer}
  Scenes <- MCScenes
INVARIANTS TypeOK LeftTableEmpty ListedInTime SuppressionReachable
PROPERTIES LeaveReturns DiscoveredEventually
CHECK_DEADLOCK FALSE
