------------------------- MODULE MC_EventHubCache -------------------------
(* Model-checking instance of EventHubCache: two namespaces, three event  *)
(* hubs, room for two event hubs per namespace.                           *)
EXTENDS EventHubCache, TLC

CONSTANTS n1, n2, h1, h2, h3

MC_Namespaces == {n1, n2}
MC_EventHubs == {h1, h2, h3}

\* Namespaces and event hubs are only compared for equality.
MC_Symmetry == Permutations(MC_Namespaces) \cup Permutations(MC_EventHubs)
\* The placement the cache promises (EventHubPlacement), with the call in
\* progress hidden: the scan steps are stuttering steps and the end of the
\* scan is the atomic Provision step.
Placement == INSTANCE EventHubPlacement

\* The cache with its iterative GetNamespaceWithMaxCapacity, in every
\* iteration order of the map, implements atomic least-loaded placement.
ImplementsPlacement == Placement!Spec

=============================================================================
