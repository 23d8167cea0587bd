SPECIFICATION Spec
CONSTANTS
    MaxMessages = 2
    MaxSteps = 3
    MaxCalls = 2
    MaxIterations = 2
INVARIANTS
    TypeOK
    ResumesAsker
    NoStepTwice
    SummaryIsLast
    CallsAnswered
PROPERTIES
    AnswerReachesQuestion
