CONSTANTS
    Hosted = {"sched", "oncpu"}
    Enabled = {"oncpu"}
    kernel_buffer_events = 2
    DRAIN_CAPACITY = 2
    MaxEvents = 1
    MaxFlushes = 1
SPECIFICATION Spec
PROPERTY StopAnswered
CHECK_DEADLOCK FALSE
