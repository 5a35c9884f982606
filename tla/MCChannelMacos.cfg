SPECIFICATION FairSpec
CONSTANTS
  h1 = h1  h2 = h2
  Headset = {h1, h2}
  NoHeadset = NoHeadset
  Platform = "macos"
  MaxLinks = 2
  MaxChunks = 1
INVARIANTS CdNeverCrosses PumpServesLink
PROPERTIES LostLinkNoticed CallsReturn
