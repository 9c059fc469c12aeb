SPECIFICATION ScoringSpec
CONSTANTS
    Prompts <- MCPrompts
    Contexts <- MCContexts
    Texts = {"a"}
    Verdicts = {"grounded"}
    None = None
    Workers = {w1, w2}
    TopK = 2
    DefaultK = 2
    CacheSize = 1
INVARIANT EvidenceIsOfOneAnswer
PROPERTY ImplementsAnswerLog
\* A stage that is done, or has failed, is over.
CHECK_DEADLOCK FALSE
