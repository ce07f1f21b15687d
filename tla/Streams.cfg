SPECIFICATION Spec
CONSTANTS
    MaxHandle = 2
    MaxBytes = 3
    MaxPoll = 1
INVARIANT CountersAgree
INVARIANT BytesKept
PROPERTY LostOnlyInClosed
PROPERTY ReadyStays
