SPECIFICATION FairSpec
CONSTANTS
    t1 = t1  t2 = t2  t3 = t3  r1 = r1  r2 = r2  c1 = c1  c2 = c2  w1 = w1  w2 = w2
    Task <- TwoTasks
    RequestId = {r1, r2}
    Inference = {"text"}
    Control = {}
    Command = {c1}
    Waiter = {w1}
    Limit <- WideLimit
    NoTask = NoTask
    NoRequest = NoRequest
    NoCommand = NoCommand
PROPERTIES DrainWaitReturns DrainCommandAnswered
