------------------------ MODULE MC_ChannelReconciler ------------------------
EXTENDS ChannelReconciler, TLC

CONSTANTS u1, u2, x1, x2

MC_Subscribers == {u1, u2}
MC_URIs == {x1, x2}

MC_Symmetry == Permutations(MC_Subscribers)

=============================================================================
