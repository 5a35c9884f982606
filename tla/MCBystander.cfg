SPECIFICATION HeldByBSpec
CONSTANTS
  a = a  b = b  c = c  hp1 = hp1  hp2 = hp2  n1 = n1  n2 = n2
  Host = {a, b, c}
  Headset = {hp1}
  Nonce = {n1, n2}
  NoHost = NoHost  NoHeadset = NoHeadset  NoNonce = NoNonce
  HandoffDeadline = 1
  ConnectGap = 1
  MaxClock = 1
  ControlQueueCapacity = 1
  ReplyReserve = 0
  Skew <- NoSkew
  Unsuppressable = {}
  Faults = {"observe"}
  Inputs = {}
  Claimants = {a}
  Native = {a, b, c}
SYMMETRY NonceSymmetry
INVARIANTS HeldAudioIsNotGrabbed
PROPERTIES PromiseKept
