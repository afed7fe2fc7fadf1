SPECIFICATION FairSpec
CONSTANTS
    Threads = {t1, t2, t3}
    Adapters = {"ollama", "kimi", "gemini", "anthropic", "openai"}
    MaxAttempts = 2
    Threshold = 2
    Recovery = 2
    Bodies <- MCBodies
INVARIANTS
    BurstIsBounded
    AnswersAreDelivered
PROPERTIES
    OpenBreakerRecovers
CHECK_DEADLOCK FALSE
