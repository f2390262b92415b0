SPECIFICATION FairSpec
CONSTANTS
    Prompts = {none, helpful}
    EmptyPrompt = none
    DefaultIterations = 2
    Iterations <- FewIterations
    MaxReply = 2
    MaxRuns = 2
    MaxLoads = 1
    MaxMessages = 30
    NoDocument = NoDocument
INVARIANTS
    TypeOK
    AskedWithAnswers
PROPERTIES
    AppendsOnlyNewWithPrompt
    ResultTellsTruth
    NoCallLeftBehind
    RunReturns
