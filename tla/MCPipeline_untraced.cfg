SPECIFICATION PipelineSpec
CONSTANTS
    Requests = {r1, r2}
    Given = {t1}
    NoTrace = none
    Malformed = malformed
INVARIANT EveryAnswerIsTraced
CHECK_DEADLOCK FALSE
