SPECIFICATION OrdersSpec
CONSTANTS
    o1 = o1
    Orders = {o1}
    Total <- MCTotal
    Capacity = 1
INVARIANT AnsweredPaymentIsRecorded
CHECK_DEADLOCK FALSE
