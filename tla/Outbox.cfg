SPECIFICATION Spec
CONSTANTS
    reminder = reminder
    notice = notice
    timer = timer
    admin = admin
    none = none
    Rows = {reminder, notice}
    Reminders = {reminder}
    Timer = timer
    Requests = {admin}
    MaxAttempts = 2
    MaxStops = 2
    None = none
INVARIANTS
    TypeOK
    RowsLookedAfter
PROPERTIES
    DeliversAsPromised
    NothingForgotten
CHECK_DEADLOCK FALSE
