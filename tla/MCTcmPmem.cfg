SPECIFICATION FairSpec
CONSTANTS
    NumAddrs = 3
    Commands <- MCCommands
INVARIANTS
    ResponseFits
    AnswersInOrder
    WordsAtHome
PROPERTIES
    HoldsRequest
    Answered
