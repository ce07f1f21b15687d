SPECIFICATION Spec
CONSTANTS
    None = None
    MaxPort = 1
    FirstEphemeral = 1
    ExplicitPorts = {0}
    OverflowChecks = FALSE
    MaxHandle = 3
    MaxBytes = 1
    MaxQueue = 1
INVARIANT ListenersServe
INVARIANT RegisteredAreOpen
PROPERTY AcceptedOnce
