SPECIFICATION FairSpec
CONSTANTS
    o1 = o1
    o2 = o2
    paid = paid
    again = again
    wrong = wrong
    completed = completed
    failed = failed
    refund = refund
    dispute = dispute
    other = other
    weird = weird
    bare = bare
    paid2 = paid2
    None = None
    Handlers = {h1, h2}
    Offers = {f1}
    Orders = {o1}
    Events = {paid, failed, bare}
    Kind <- MCKind
    OrderOf <- MCOrderOf
    Amount <- MCAmount
    MaxRetained = 2
    Faults = {"error", "lostAnswer", "enqueue"}
    MaxMishaps = 1
PROPERTY EventsAreApplied
CHECK_DEADLOCK FALSE
