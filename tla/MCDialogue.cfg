SPECIFICATION DialogueSpec
CONSTANTS
  Chunk <- MCChunk
  Profiles <- MCProfiles
  Pieces <- MCPieces
  Requests <- MCRequests
  Files <- MCFiles
  MaxRequests = 1
  MaxFaults = 1
  MaxAir = 5
  MaxReadouts = 1
INVARIANTS TypeOK CutsIgnoreChunks FramesArrive ShownIsMeant
CHECK_DEADLOCK FALSE
