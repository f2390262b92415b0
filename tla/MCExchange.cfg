SPECIFICATION Spec
\* After the last run there is nothing left to do.
CHECK_DEADLOCK FALSE
CONSTANTS
    ToolExecute <- Calculated
    Prompts <- SomePrompts
    UserTexts <- SomeTexts
    Bodies <- SomeBodies
    MaxIterations = 2
    MaxRuns = 2
    Numbers <- SomeNumbers
    Nesting = 2
INVARIANTS
    ContextIsComplete
    CallsAnsweredInPlace
    CalculatorEvaluates
