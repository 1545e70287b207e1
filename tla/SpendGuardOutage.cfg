SPECIFICATION SpendSpec
CONSTANTS
    Amounts = {0, 1}
    Consoles = {w1}
    MaxRequests = 1
    MaxSpend = 2
    MaxSaves = 1
    MaxDays = 0
    MaxDbOutages = 1
CHECK_DEADLOCK FALSE
PROPERTIES
    FailClosed
