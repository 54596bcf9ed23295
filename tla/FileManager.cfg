SPECIFICATION Spec
CONSTANTS
    MaxTraces = 4
    mMaxArchivedTraces = 2
 
PROPERTIES ScheduledKept 
CHECK_DEADLOCK FALSE
