SPECIFICATION Spec
CONSTANTS
    o1 = o1
    o2 = o2
    paid = paid
    again = again
    wrong = wrong
    completed = completed
    failed = failed
    refund = refund
    dispute = dispute
    other = other
    weird = weird
    bare = bare
    paid2 = paid2
    None = None
    Handlers = {h1, h2}
    Offers = {f1}
    Orders = {o1}
    Events = {paid, wrong, completed, refund, weird}
    Kind <- MCKind
    OrderOf <- MCOrderOf
    Amount <- MCAmount
    MaxRetained = 2
    Faults = {"error", "lostAnswer", "enqueue"}
    MaxMishaps = 1
INVARIANTS ApplyInv RightsArePaidFor RowIsExplained
SYMMETRY Symmetry
CHECK_DEADLOCK FALSE
