SPECIFICATION Spec
CONSTANTS
    Role = {"MD", "Emp"}
    Email = {"x"}
    MaxHeads = 2
    Worker = {w1}
    Idle = Idle
    None = None
INVARIANTS
    OneLeaveAMonth
CHECK_DEADLOCK FALSE
