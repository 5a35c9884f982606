SPECIFICATION HeldByBFairSpec
CONSTANTS
  a = a  b = b  c = c  hp1 = hp1  hp2 = hp2  n1 = n1  n2 = n2
  Host = {a, b}
  Headset = {hp1}
  Nonce = {n1}
  NoHost = NoHost  NoHeadset = NoHeadset  NoNonce = NoNonce
  HandoffDeadline = 2
  ConnectGap = 1
  MaxClock = 4
  ControlQueueCapacity = 1
  ReplyReserve = 0
  Skew <- NoSkew
  Unsuppressable = {}
  Faults = {"send"}
  Inputs = {}
  Claimants = {a, b}
  Native = {a, b}
INVARIANT RestoredUnlessTaken
