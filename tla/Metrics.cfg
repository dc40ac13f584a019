SPECIFICATION Spec
CONSTANTS
    Handlers = {h1, h2}
    TickCap = 2
    MaxReports = 3
    MaxDrops = 1
    MaxLosses = 1
INVARIANTS TypeOK TicksInOrder TotalsCoverTicks RatesHonest
