CONSTANTS
    m1 = m1
    m2 = m2
    Modules = {m1, m2}
    DetChans <- MCDetChans
    ModOf <- MCModOf
    MasterOrders <- MCMasterOrders
    Products = {"xmap", "mercury", "stj", "saturn", "udxp"}
    Faults = {"start", "stop", "task"}
SPECIFICATION Spec
INVARIANTS
    XerxesRunIsKnown
    BoardRunIsKnown
    StopMeansStopped
    StartMeansStarted
