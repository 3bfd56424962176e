SPECIFICATION AnsweringSpec
CONSTANTS
    None = None
    d1 = d1
    d2 = d2
    Docs = {d1, d2}
    FacetCount = 2
    Rivals <- AllRivals
    Runs = {r1}
    MaxRewrites = 2
    MaxRequests = 2
    MaxCrashes = 1
    Callers = {c1, c2, c3, c4}
    FailureThreshold = 3
    SuccessThreshold = 2
    HalfOpenMaxCalls = 2
    Cancellable = TRUE
    MaxAdmin = 2
    Unjudged = Unjudged
    a = a
    b = b
    s = s
    q1 = q1
    q2 = q2
    Threshold = 2
    Requests = {q1, q2}
    Claims <- SomeClaims
    EvidencesFor <- SomeEvidence
    SizeOf <- Sizes
    Budget = 3
    DraftsFor <- SomeDrafts
    Hard <- HardClaims
    Boilerplate <- Texts
    CorrectionClaims <- JustB
    MaxAttempts = 2
    MaxRatings = 1
    MaxRestarts = 1
INVARIANTS
    AnswerIsGrounded
    ResponseIsOwn
    NoFalseAlarm
    EscalationSurvives
PROPERTIES
    EarnedClose
    Recovers
    AnswersComeBack
CHECK_DEADLOCK FALSE
