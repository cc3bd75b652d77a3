CONSTANTS
    MaxQuestions = 2
    MaxUpdates = 3
    Listeners = 2
SPECIFICATION AskFairSpec
INVARIANT YesWasPressed
PROPERTIES AsksReturn 
