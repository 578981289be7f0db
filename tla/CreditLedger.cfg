SPECIFICATION Spec
CONSTANTS
    sale = sale
    case = case
    charger = charger
    c1 = c1
    c2 = c2
    Sales = {sale}
    Lines = {case, charger}
    Quantity <- MCQuantity
    Grain <- MCGrain
    Price <- MCPrice
    Tendered <- MCTendered
    Balance <- MCBalance
    Plan <- MCPlan
    Clerks = {c1, c2}
    Amounts = {3, 7}
    MaxRepaid = 7
    MaxDay = 3
SYMMETRY MCSymmetry
INVARIANTS
    TypeOK
    MoneyAddsUp
    StatusesSayWhatHappened
PROPERTIES
    PaidStaysPaid
