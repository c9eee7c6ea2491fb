SPECIFICATION FairSpec
CONSTANTS
    b1 = b1  b2 = b2  speech = speech  refused = refused  chat = chat  bench = bench
    Buyer = {b1, b2, speech, refused}
    Playground = {chat}
    Benchmark = {bench}
    Route <- Routes
    Crews <- Arrivals
INVARIANTS GateHeldOnce DoneMeansWhole
PROPERTIES CancelledStaysSilent RequestEnds
CHECK_DEADLOCK FALSE
