SPECIFICATION FairSpec
CONSTANTS
    MaxProcs = 4
    MaxKeys = 1
    Faulting = {1, 2, 3}
    KillAny = FALSE
INVARIANTS  SchedulerFindsTask  RunsInOwnAddressSpace ThreadSharesData
PROPERTIES DeadStaysDead WokenForAReason RunnableEventuallyRuns
