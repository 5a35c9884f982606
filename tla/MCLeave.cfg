SPECIFICATION HeldByBSpec
CONSTANTS
  a = a  b = b  c = c  hp1 = hp1  hp2 = hp2  n1 = n1  n2 = n2
  Host = {a, b}
  Headset = {hp1, hp2}
  Nonce = {n1}
  NoHost = NoHost  NoHeadset = NoHeadset  NoNonce = NoNonce
  HandoffDeadline = 1
  ConnectGap = 1
  MaxClock = 2
  ControlQueueCapacity = 1
  ReplyReserve = 0
  Skew <- NoSkew
  Unsuppressable = {}
  Faults = {}
  Inputs = {"rebind", "leave"}
  Claimants = {a}
  Native = {a, b}
CHECK_DEADLOCK FALSE
INVARIANTS CdOnlyToTarget OneVerdict
PROPERTIES ClosedIsQuiet
