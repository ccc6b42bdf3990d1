SPECIFICATION AdministrationSpec
CONSTANTS
    u1 = u1
    y1 = y1
    y2 = y2
    b1 = b1
    b2 = b2
    trial = trial
    basic = basic
    pro = pro
    Row = {u1, y1, y2, b1, b2}
    NumResources = 2
    KindOf <- Kinds
    Opening <- OpeningRows
    Plan = {trial, basic, pro}
    Trial = trial
    LimitsOf <- Limits
    Unlimited = Unlimited
    Writer = {x1, x2}
    Changer = {y1, y2}
    None = None
    PointCall = {x1, x2, x3}
    Point <- OneOrTwo
    Crashes = TRUE
    Nobody = Nobody
    User = {owner, clerk}
    Role = {cashier}
    Permission = {update, sell}
    Owner = owner
    RoleUpdate = update
    Admin = {y1, y2}
    Login = {l1}
    Seed = Seed
    Otp = {y1, y2}
    VerifyCall = {y1, y2}
    FinalizeCall = {x1, x2}
    Intent = {y1, y2}
    MaxAttempts = 2
    MaxSends = 1
    Content = {y1, y2}
    MaxSubmissions = 3
    Nothing = Nothing
    BackupRun = {y1, y2}
    RestoreRun = {y1, y2}
    LastSecond = 3
    KeepCount = 1
    Existing = {1}
    Earlier = Earlier
SYMMETRY Symmetry
INVARIANTS TypesOK WithinLimits NoWaitCycle OneLateRow PaidNeverExpires PointsExplained StaleGrantRejected OneOrganizationPerOtp OnePaymentPerAttempt BackupsKept
CHECK_DEADLOCK FALSE
