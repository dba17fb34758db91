\* Programs that keep the contract.
SPECIFICATION FairSpec
CONSTANTS
    Nodes = {n1, n2, n3}
    Spaces = {s1, s2}
    Null = null
    Signals <- MCSignals
    Rules <- Contract
    MaxPid = 2
    MaxQueue = 3
    MaxLevel = 2
INVARIANTS NoFault SchedulesRunnable ScheduledOnce RunsInOwnSpace HandlerCanReturn
PROPERTIES NoStarvation
