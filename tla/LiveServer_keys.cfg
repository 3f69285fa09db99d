SPECIFICATION Spec
CONSTANTS
    ann = ann
    bob = bob
    k1 = k1
    reg1 = reg1
    reg2 = reg2
    reg3 = reg3
    log = log
    out = out
    r1 = r1
    c1 = c1
    q = q
    q2 = q2
    NoCall = NoCall
    NoKey = NoKey
    Emails = {ann, bob}
    Keys = {k1}
    Calls = {reg1, reg2, reg3, log, out, r1, c1, q}
    KindOf <- MCKindOf
    EmailOf <- MCEmailOf
    KeyOf <- MCKeyOf
    Faults = {"error", "crash"}
    MaxMishaps = 1
INVARIANTS TypeOK StoredAnswersAreTrue OnceInSequence
SYMMETRY Symmetry
CHECK_DEADLOCK FALSE
