SPECIFICATION FairSpec
CONSTANTS
    MaxRounds <- Rounds
    MaxCalls <- Calls
INVARIANTS
    TypeOK
    ConversationIsValid
PROPERTY
    Ends
