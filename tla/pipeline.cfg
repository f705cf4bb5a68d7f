SPECIFICATION PipelineSpec
CONSTANTS
    Width = 4
    CapBits = 2
    Calls <- MCCalls
    Ifaces <- MCIfaces
    Open <- MCOpen
    Answers <- MCAnswers
    ArpReplies <- MCArpReplies
    Announced <- MCAnnounced
    HttpWorker = {w1, w2}
    Capacity = 1
CHECK_DEADLOCK FALSE
INVARIANTS
    PipelineTypeOK
    NothingLost
PROPERTY ImplementsScanResults
