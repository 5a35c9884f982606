SPECIFICATION Spec
CONSTANTS
  h1 = h1  h2 = h2
  Headset = {h1, h2}
  NoHeadset = NoHeadset
  Platform = "linux"
  MaxLinks = 3
  MaxChunks = 2
INVARIANTS NoForeignBytes
SYMMETRY HeadsetSymmetry
