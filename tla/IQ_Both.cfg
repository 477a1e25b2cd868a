\* Both kinds of backend: one device thread and the CPU thread, scaled-down
\* credits.
SPECIFICATION Spec
CONSTANTS
    v1 = v1
    v2 = v2
    d1 = d1
    Cpu = Cpu
    None = None
    Vectors <- MCVectors
    Devices <- MCDevices
    CpuThread = Cpu
    Backends = {"tunnel", "whvp"}
    MaxCredits = 8
    Cost = 4
    Increment = 1
    MaxRaised = 3
INVARIANTS PopFindsVector BoundedBurst DeliverySound
PROPERTY DeliversAll
CHECK_DEADLOCK FALSE
