CONSTANTS
    n1 = n1
    n2 = n2
    h1 = h1
    h2 = h2
    h3 = h3
    Namespaces <- MC_Namespaces
    EventHubs <- MC_EventHubs
    MaxEventHubsPerNamespace = 2
    MaxSecrets = 2
    MaxUpdates = 2
    InvalidSecret = InvalidSecret
    Nil = Nil
SPECIFICATION Spec
SYMMETRY MC_Symmetry
INVARIANTS
    ReverseIndexLive
