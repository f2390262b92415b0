SPECIFICATION Spec
CONSTANTS
    Templates <- SomeTemplates
    Models <- SomeModels
    Inputs <- SomeInputs
    NameOrder <- Names4
    Replies <- SomeReplies
    MaxNodes = 3
    MaxLoads = 1
INVARIANTS
    TypeOK
    AskedWithLatestAnswer
    ResultTellsRun
    RenderedByPieces

    
