SPECIFICATION Spec
CONSTANTS
    emp = emp
    cover = cover
    lead = lead
    hr = hr
    adm = adm
    md = md
    w1 = w1
    w2 = w2
    NoOne = NoOne
    Idle = Idle
    Applicant = emp
    Workers = {w1}
    Users <- MCUsers
    RoleOf <- MCRoleOf
    Summary0 <- MCSummary0
    Requests <- Approvals
    Creations <- Ordinary
    ApplicantRoles = {"Employee"}
    Leads = {lead}
    Attentive <- MCAttentive
    NewLeads = {}
    Leavers = {}
    MaxCharges = 1
    MaxCredits = 1
    Casual = 1
    Earn = 2
    ShortQuota = 1
CHECK_DEADLOCK FALSE
INVARIANTS
    BalancesAddUp
