CONSTANTS
    Hosted = {"sched", "oncpu"}
    Enabled = {"sched", "oncpu"}
    kernel_buffer_events = 1
    DRAIN_CAPACITY = 1
    MaxEvents = 1
    MaxFlushes = 1
SPECIFICATION Spec
INVARIANTS HostSafe
PROPERTIES HostServes
CHECK_DEADLOCK FALSE
