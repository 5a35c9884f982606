SPECIFICATION SharedByAllSpec
CONSTANTS
  a = a  b = b  c = c  hp1 = hp1  hp2 = hp2  n1 = n1  n2 = n2
  Host = {a, b}
  Headset = {hp1}
  Nonce = {n1}
  NoHost = NoHost  NoHeadset = NoHeadset  NoNonce = NoNonce
  HandoffDeadline = 2
  ConnectGap = 1
  MaxClock = 5
  ControlQueueCapacity = 1
  ReplyReserve = 1
  Skew <- OneAhead
  Unsuppressable = {}
  Faults = {"send", "suppress", "restore", "connect", "select", "disconnect", "cd"}
  Inputs = {}
  Claimants = {a}
  Native = {a, b}
INVARIANTS TypeOK ReleaseBounded ConnectingUnderLock GapAfterCd SuppressionRecorded
