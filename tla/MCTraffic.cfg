SPECIFICATION FairSpec
CONSTANTS
    Settings <- MCSettings
    Gap = 3
    ChunkDelay = 1
    Cap = 2
    ReadoutLen = 2
    MaxLinks = 2
INVARIANTS TypeOK EventsInOrder DrainedShowsLink
PROPERTIES WholeFrames Paced ShownEventually SendsReturn
CHECK_DEADLOCK FALSE
