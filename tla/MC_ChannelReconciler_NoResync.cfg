CONSTANTS
    u1 = u1
    u2 = u2
    Subscribers <- MC_Subscribers
    x1 = x1
    x2 = x2
    URIs <- MC_URIs
    MaxEdits = 3
    MaxFailures = 2
SPECIFICATION SpecNoResync
PROPERTY EventuallyRunning
