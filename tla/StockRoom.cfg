SPECIFICATION Spec
CONSTANTS
    shop = shop
    depot = depot
    cable = cable
    phone = phone
    u1 = u1
    u2 = u2
    outbound = outbound
    inbound = inbound
    s1 = s1
    s2 = s2
    d1 = d1
    d2 = d2
    c1 = c1
    c2 = c2
    Branches = {shop, depot}
    Products = {cable, phone}
    Serialized = {phone}
    Units = {u1, u2}
    Stocked = {u1}
    ProductOf <- MCProductOf
    Home <- MCHome
    Opening <- MCOpening
    Transfers = {outbound, inbound}
    Source <- MCSource
    Destination <- MCDestination
    Lines <- MCLines
    Sales = {s1, s2}
    SaleBranch <- MCSaleBranch
    SaleLines <- MCSaleLines
    Desks = {d1, d2}
    Tills = {c1, c2}
    MaxDelta = 1
    MaxLevel = 1
SYMMETRY MCSymmetry
INVARIANTS
    TypeOK
    StockIsBooked
    TransfersKeepGoods
    LevelCountsUnits
    SoldForGood
