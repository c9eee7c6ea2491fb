SPECIFICATION PartsSpec
CONSTANTS
    a1 = a1  a2 = a2  a3 = a3  m1 = m1  m2 = m2  v1 = v1  v2 = v2
    Ask = {a1, a2, a3}
    Model = {m1, m2}
    Wanted <- WantedModel
    Move = {v1, v2}
    Recommended = {m2}
    Visits <- VisitSets
    NoJob = NoJob
    Capacity = 2
    Window = 2
    Amount <- Amounts
    MaxReceipts = 6
    MaxBuf = 4
    MaxWrite = 3
    MaxStream = 9
    Browser = {b1, b2}
    MaxTokens = 2
    Agent = {g1, g2}
    NoKey = NoKey
    Saver = {s1, s2}
    MaxSaves = 2
    Minutes = 6
    Parts = 2
    Video = {c1, c2}
    Generator = "stub"
    MaxVideoFaults = 2
    Render = {w1}
    Outputs = 2
    MaxRenderFaults = 2
    Editor = {q1, q2}
    DefaultEditor = q1
    Selector = {p1, p2}
    Edit = {e1, e2}
    Generation = {n1}
    MaxImageFaults = 2
INVARIANTS QueueSound CancelSticks CopyUndisturbed LedgerExact UsageFound StoredIsUsed NotWedged DelayExact MediaKept
PROPERTIES CancelTakesEffect DisabledStopsChecks SettingsTakeEffect MediaContract
CHECK_DEADLOCK FALSE
