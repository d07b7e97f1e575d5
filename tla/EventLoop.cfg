SPECIFICATION FairSpec
CONSTANTS
    Thread = {t1, t2}
    MaxFunctors = 4
INVARIANTS QueueInv NoSleep
\* After the loop has exited and every thread has returned nothing is left to do.
CHECK_DEADLOCK FALSE
PROPERTIES EventuallyRun QuitStops
