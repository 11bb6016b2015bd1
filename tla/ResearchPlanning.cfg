\* Two commands with the same or other inputs, one write of another between
\* their steps, two attempts at each level instead of the code's three.
SPECIFICATION Spec
CONSTANTS
    f1 = f1
    f2 = f2
    f3 = f3
    p1 = p1
    p2 = p2
    NoFamily = NoFamily
    NoParams = NoParams
    Families = {f1, f2, f3}
    FundingFamilies = {f1, f2}
    OwnEvidenceFamilies = {f2}
    PostAttempts = 2
    OutputAttempts = 2
    AnswerAttempts = 2
    MaxPosts = 13
    Inputs <- GivenInputs
    Answers <- GivenAnswers
    Batches <- GivenBatches
    OwnerRefs <- GivenOwnerRefs
    Others <- GivenOthers
    Remembered <- GivenRemembered
    ValidationRows <- GivenValidations
    OutcomeRows <- GivenOutcomes
    HealthRows <- GivenHealth
    RecentLimit = 2
    Recorded <- GivenRecorded
    Lists <- GivenLists
    MaxCommands = 2
    MaxOthers = 1
INVARIANTS
    PostsAreBounded
    ProposalsRespectMemory
    OthersSurvivePlanning
    UnsafeAnswerIsRemembered
PROPERTIES
    AcceptedIterationIsGrounded
    CommandEnds
CHECK_DEADLOCK FALSE
