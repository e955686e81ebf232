SPECIFICATION FairSpec
ACTION_CONSTRAINT OneThinks
CHECK_DEADLOCK FALSE
PROPERTIES PendingIsResolved ApprovedIsRun CallsReturn EveryRunEnds QueuedIsRun
