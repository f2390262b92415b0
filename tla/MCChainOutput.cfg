SPECIFICATION Spec
CONSTANTS
    Templates <- SomeTemplates
    Models <- SomeModels
    Inputs <- SomeInputs
    NameOrder <- Names4
    Replies <- SomeReplies
    MaxNodes = 2
    MaxLoads = 0
INVARIANTS
    ReceivesPreviousOutput
