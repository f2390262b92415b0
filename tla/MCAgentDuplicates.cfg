SPECIFICATION Spec
CONSTANTS
    Prompts = {none, helpful}
    EmptyPrompt = none
    DefaultIterations = 2
    Iterations <- FewIterations
    MaxReply = 1
    MaxRuns = 2
    MaxLoads = 0
    MaxMessages = 30
    NoDocument = NoDocument
PROPERTY AppendsOnlyNew
