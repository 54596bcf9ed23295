SPECIFICATION Spec
CONSTANTS
    MaxTraces = 4
    mMaxArchivedTraces = 2
PROPERTIES InFlightKept
CHECK_DEADLOCK FALSE
