CONSTANTS
    Programs <- ThePrograms
    Begins <- TheBegins
SPECIFICATION Spec
CHECK_DEADLOCK FALSE
INVARIANT ConditionalInclusion
