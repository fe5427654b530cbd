SPECIFICATION Spec
CONSTANTS
    Idle = Idle
    Missing = Missing
    User = {ann, bob}
    Worker = {w1, w2}
    MaxVersion = 2
INVARIANTS
    WriteSeen
