SPECIFICATION OneCopy
INVARIANTS
    FirstSyncFiltersAll
CHECK_DEADLOCK FALSE
