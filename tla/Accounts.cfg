SPECIFICATION Spec
CONSTANTS
    ann = ann
    s1 = s1
    s2 = s2
    k1 = k1
    k2 = k2
    Customers = {ann}
    Sales = {s1, s2}
    CustomerOf <- MCCustomerOf
    Basket <- MCBasket
    OpeningPoints <- MCOpeningPoints
    OpeningCredit <- MCOpeningCredit
    Limits = {2, 3}
    SpendAmount = 4
    PointsAwarded = 1
    PointValue = 1
    RefundUnit = 2
    Adjustments <- MCAdjustments
    Clerks = {k1, k2}
    MaxGranted = 3
    Amounts = {2}
SYMMETRY MCSymmetry
INVARIANTS
    TypeOK
    BalancesCovered
PROPERTIES
    CreditGrantedWithinLimit
