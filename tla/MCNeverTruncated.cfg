SPECIFICATION Spec
CONSTANTS
    Turns = {t1, t2}
    Review = Review
    MAX_TURNS = 2
    PRESERVE_RECENT_MESSAGES = 2
    MAX_LLM_MESSAGES = 14
    MaxToolCalls = 1
    MaxClears = 0
    MaxSaveFailures = 0
    MaxRestarts = 0
PROPERTIES
    NeverTruncated
CHECK_DEADLOCK FALSE
