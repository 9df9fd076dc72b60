-------------------- MODULE MC_ConcurrentProvisioning --------------------
(* Model-checking instance of ConcurrentProvisioning: two workers, two    *)
(* namespaces, three event hubs.                                          *)
EXTENDS ConcurrentProvisioning, TLC

CONSTANTS n1, n2, h1, h2, h3, w1, w2

MC_Namespaces == {n1, n2}
MC_EventHubs == {h1, h2, h3}
MC_Workers == {w1, w2}

=============================================================================
