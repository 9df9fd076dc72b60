------------------------- MODULE EventHubPlacement -------------------------
(***************************************************************************)
(* What the EventHub cache promises its provisioning caller, with the     *)
(* call to GetNamespaceWithMaxCapacity as one atomic step: a new event    *)
(* hub goes to a namespace of the cache that is below capacity and no     *)
(* more loaded than any other namespace of the cache, or nowhere when all *)
(* are full.  Ties are broken arbitrarily.  The other operations of the   *)
(* cache (Update, RemoveEventHub) and of its environment are those of     *)
(* EventHubCache, with no provisioning call in progress.                  *)
(***************************************************************************)
EXTENDS Naturals, FiniteSets

CONSTANTS Namespaces, EventHubs, MaxEventHubsPerNamespace, MaxSecrets,
          MaxUpdates, InvalidSecret, Nil

VARIABLES namespaceMap, eventhubMap, count, updates, secrets, hubNs

avars == <<namespaceMap, eventhubMap, count, updates, secrets, hubNs>>

\* No call of the provisioning path is in progress.
NoCall == [pc |-> "idle", hub |-> Nil, left |-> {}, best |-> Nil]

C == INSTANCE EventHubCache WITH prov <- NoCall

\* The namespaces GetNamespaceWithMaxCapacity may return.
LeastLoaded ==
    {ns \in C!Live : /\ count[ns] < MaxEventHubsPerNamespace
                     /\ \A o \in C!Live : count[ns] <= count[o]}

\* Provisioning event hub h creates it in a least-loaded namespace and
\* records it with AddEventHub; Azure accepts the create only when the
\* namespace has room.  A call that finds no namespace, or whose
\* Azure create fails, changes nothing: a stuttering step.
Provision(h) ==
    /\ hubNs[h] = Nil
    /\ \E ns \in LeastLoaded :
         /\ C!AzureHasRoom(C!NsName(ns))
         /\ hubNs' = [hubNs EXCEPT ![h] = C!NsName(ns)]
         /\ C!AddEventHub(h, ns)
    /\ UNCHANGED <<namespaceMap, updates, secrets>>

Init == C!Init

Next ==
    \/ \E f \in 0..MaxSecrets : C!Update(f)
    \/ \E h \in EventHubs : Provision(h)
    \/ \E h \in EventHubs : C!Deprovision(h)
    \/ C!ChangeSecrets
    \/ C!Restart

Spec == Init /\ [][Next]_avars

=============================================================================
