SPECIFICATION Spec
CONSTANTS
    Interval = 12
    Timeout = 8
    ConnectTimeout = 20
    Delay = 2
    Restores <- Quarters
INVARIANTS
    ProbeChain
    NoStrayTimer
    HealthyKept
    ForgetsLast
    BothLetGo
