CONSTANTS
    d1 = d1  d2 = d2  d3 = d3
    k1 = k1  k2 = k2  k3 = k3
    t1 = t1
    Dispatches = {d1, d2, d3}
    Turns = {t1}
    Tasks = {k1, k2, k3}
    TaskOf <- MCTaskOf
    MaxConcurrent = 1
    MaxTakeovers = 1
    Main = Main
    NoTurn = NoTurn
SPECIFICATION FairPoolSpec
INVARIANTS PoolTypeOK PoolBound SlotsHeldByLive RowsWillClear
PROPERTIES SlotFreed QueueAdvances
