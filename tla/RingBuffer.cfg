SPECIFICATION LiveSpec
CONSTANTS
    Cap = 3
    Values = {v1, v2}
    Zero = Zero
    Writers = {w1, w2}
    Readers = {r1}
    Nobody = Nobody
INVARIANTS ReadsAreConsistent
PROPERTIES ImplementsBoundedLog PushReturns ReadReturns
