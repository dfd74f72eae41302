SPECIFICATION FairSpec
CONSTANTS
    Recordings <- MCRecordings
    Extra = 1
INVARIANTS
    NoPanic
    DelaysAddUp
PROPERTIES
    Answered
