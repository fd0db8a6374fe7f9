SPECIFICATION PoolSpec
CONSTANTS
    task1 = task1
    task2 = task2
    task3 = task3
    sentinel = sentinel
    Tasks <- MCTasks
    Sentinel = sentinel
    MaxWorkers = 2
    MaxStarts = 2
INVARIANTS
    StopDrains
    
PROPERTY StopReturns
CHECK_DEADLOCK FALSE
