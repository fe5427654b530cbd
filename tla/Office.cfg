SPECIFICATION OfficeSpec
CONSTANTS
    a = a  b = b  dan = dan  eva = eva
    w1 = w1  w2 = w2
    None = None
    Unlinked = Unlinked
    Gone = Gone
    Idle = Idle
    Item = {a, b}
    Slot = {1, 2}
    Worker = {w1, w2}
    Payloads <- MCPayloads
    MaxRound = 3
    EntryId = {1}  Value = {"a", "b"}
    Module = {"boq", "lidar"}  Extra = {"gpr"}
    Meeting = {1, 2}  Guest = {dan, eva}  Indoor = {r1}  Outdoor = Outdoor  Hours = 2
    SessionId = {1, 2, 3}  Limit = 2  MaxPw = 1
    Role = {"MD", "Emp"}  Email = {"x"}  MaxHeads = 2
    Colleague = {cr, dan, eva}  Creator = cr  Md = {}  MaxPosts = 2  MaxAsks = 2
    First = a  Second = b  Uploader = a  MaxMessages = 2
CHECK_DEADLOCK FALSE
SYMMETRY Symmetry
INVARIANTS
    TypesOK
    EachItemOnce
    PointsNeedApproval
    
    BookedApart
    AccountsKept
    ChatsKept
PROPERTIES
    KeepsContract
    OthersKept
    NothingUndone
