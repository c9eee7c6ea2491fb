SPECIFICATION Spec
CONSTANTS
    t1 = t1  t2 = t2  t3 = t3  r1 = r1  r2 = r2  c1 = c1  c2 = c2  w1 = w1  w2 = w2
    Task <- ThreeTasks
    RequestId = {r1, r2}
    Inference = {"text"}
    Control = {"control"}
    Command = {}
    Waiter = {w1}
    Limit <- SmallLimit
    NoTask = NoTask
    NoRequest = NoRequest
    NoCommand = NoCommand
SYMMETRY TaskSymmetry
INVARIANTS Accounting DrainedMeansQuiet NoLostWakeup ReaderNeverParks
PROPERTIES DrainContractSpec
