SPECIFICATION RecordsSpec
CONSTANTS
    ann = ann  bob = bob  eve = eve
    cr = cr  dan = dan  a = a  b = b
    vendor = vendor  cat = cat  ned = ned  staff = staff
    w1 = w1  w2 = w2
    Idle = Idle
    Nothing = Nothing
    NoOne = NoOne
    User = {cr, a, b}
    Creator = cr
    Worker = {w1, w2}
    Party = {ann, bob, eve}  CallId = {1, 2}  Handler = {ned}  ProcessOf <- MCOneProcess  MayAge = {1}
    Person = {cr, dan}
    Day = {"yesterday", "today"}  UtcDay = "today"  LocalDay = "today"  MaxNotes = 1  MaxAcks = 1
    Employee = {cr, dan}  Money = {0, 1}
    Assignee = {a, b}  MaxMessages = 2  LastMonth = 2
    Viewer = {dan}  Admin = {}  Price = {1, 2}  Payment = {1, 2}
    Manager = {dan}  MaxApps = 2
    Expense = {1}  Vendor = {vendor}  Category = {cat}  Month = {1, 2}  Amount = {1}
    Name = {ned}  Staff = {staff}
CHECK_DEADLOCK FALSE
SYMMETRY Symmetry
INVARIANTS
    TypesOK
    
    CreatorGoneEndsIt
    MissedCounted
    FiguresAgree
    
PROPERTIES
    EndedForGood
    
    StateIsTheCreators
