CONSTANTS
    Writers = {w1, w2}
    PayloadSizes = {5, 9, 80}
    Size = 8
    MaxWrites = 4
SPECIFICATION Spec
INVARIANTS RingInv ReadsIntact LossAccounted
PROPERTIES PublishedDelivered QueueSpec
CHECK_DEADLOCK FALSE
