SPECIFICATION Spec
CONSTANTS
    emp = emp
    cover = cover
    lead = lead
    hr = hr
    adm = adm
    md = md
    w1 = w1
    w2 = w2
    NoOne = NoOne
    Idle = Idle
    Applicant = emp
    Workers = {w1}
    Users <- MCUsers
    RoleOf <- MCRoleOf
    Summary0 <- MCSummary0
    Requests <- AllRequests
    Creations <- AllWays
    ApplicantRoles = {"Employee"}
    Leads = {lead}
    Attentive <- MCAttentive
    NewLeads = {}
    Leavers = {}
    MaxCharges = 2
    MaxCredits = 0
    Casual = 1
    Earn = 2
    ShortQuota = 1
CHECK_DEADLOCK FALSE
INVARIANTS
    TypeOK
    ChargedOnce
    CoverConsent
PROPERTIES
    ApprovedStays
