SPECIFICATION BackOfficeSpec
CONSTANTS
    k1 = k1
    k2 = k2
    root = root
    boss = boss
    mgr = mgr
    super = super
    manager = manager
    clerk = clerk
    cable = cable
    phone = phone
    Parts = {"staff", "warranties", "media", "barcode", "choice", "template",
             "supplier", "customer", "advice", "forecast", "purchasing",
             "promotions"}
    Employees = {root, boss, mgr}
    StaffRequests = {k1, k2}
    Super = super
    Roles = {manager, clerk}
    RoleSets <- MCRoleSets
    Grants <- MCGrants
    AdminKey = "users:manage"
    Founders = {root, boss}
    Managers = {mgr}
    ManagerRole = manager
    MaxWrites = 3
    Policies = {p1, p2}
    Units = {u1, u2}
    Links = {u2}
    Desks = {k1, k2}
    Moments <- MCMoments
    Duration = 1
    Uploaders = {k1, k2}
    MaxImages = 1
    MaxObjects = 3
    Barcodes = {b1, b2}
    MaxDraws = 2
    Callers = {k1, k2}
    Rows = {r1, r2, r3}
    Standard = r1
    Tenants = {o1, o2}
    Shops = {s1}
    Dashboards = {r1, r2}
    MaxStandard = 2
    Buyers = {k1, k2}
    MaxAttempts = 3
    Widest = 4
    MaxCustomers = 6
    Goods = {g1, g2}
    Alien = alien
    Shoppers = {c1, c2}
    MaxSold = 1
    SaleTimes = {35, 37, 301, 4525}
    Totals = {0, 1200}
    DiscountRules <- MCDiscountRules
    Horizons = {1, 7}
    Now = 4900
    Items = {cable, phone}
    Serialized = {phone}
    Whole = 2
    Ordered <- MCOrdered
    Proposals <- MCProposals
    Clerks = {k1, k2}
    MaxResponses = 2
    MaxShipments = 1
    sale = sale
    bundle = bundle
    Rules = {sale, bundle}
    Priority <- MCPriority
    Editors = {k1, k2}
    Editable = {sale}
    MaxClock = 2
    MaxEdits = 1
SYMMETRY MCSymmetry
INVARIANTS
    BackOfficeTypeOK
    SuperAdminStays
    NoEscalation
    WarrantiesKept
    CatalogAgrees
    OneDefault
    PartnersServed
    AdviceIsNew
    ForecastsFromThePast
    OrderTellsTruth
    TermsHold
PROPERTIES
    ThemeKept
    StatusMovesOn
CHECK_DEADLOCK FALSE
