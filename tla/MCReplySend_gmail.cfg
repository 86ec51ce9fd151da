SPECIFICATION FairSpec
CONSTANTS
    r1 = r1
    r2 = r2
    w1 = w1
    Request = {r1, r2}
    Worker = {w1}
    Provider = "gmail"
    NoOne = NoOne
CHECK_DEADLOCK FALSE
PROPERTIES
    DeliveredIsRecorded
