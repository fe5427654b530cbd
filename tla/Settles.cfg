SPECIFICATION SettlesSpec
CONSTANTS
    s1 = s1  s2 = s2  s3 = s3
    cr = cr  co = co  a = a  b = b
    w1 = w1
    Idle = Idle
    NoOne = NoOne
    User = {a, b}  CallId = {1}  Worker = {w1, w2}  ProcessOf <- MCSameProcess  MayAge = {1}
    Socket = {s1, s2, s3}  ServedBy <- MCServedBy  MaxCount = 3  Absent = Absent
    Reader = {cr, co}  Server = {w1, w2}  MaxVersion = 2  Missing = Missing
    Colleague = {cr, co, a, b}  Creator = cr  Md = {}  CoAuthors = {cr, co}
    Patches <- MCPatches  MaxChain = 3  MaxEdits = 2
    Nothing = Nothing
    Same = Same
CHECK_DEADLOCK FALSE
INVARIANTS
    TypesOK
    CountedMeansMissed
    TabsCounted
    
    
PROPERTIES
    RingsOnce
    GhostFades
    StaleFades
    KeepsEntryContract
    EntryCompleted
