SPECIFICATION Spec
CONSTANTS
    NoUser = NoUser
    Products = {p1, p2}
    Categories = {c1}
    Category <- SingleCategory
    Price <- TwoPrices
    Unit = 16384
    Significand = 18
    Accounts = {a1}
    Countdown = 2
    MaxItems = 2
    MaxChecks = 2
    MaxRequests = 1
INVARIANT CellsWithinCart
PROPERTIES
    CrashesOnlyLate
    VisibleOrderTakesCart
    ConfirmationEnds
