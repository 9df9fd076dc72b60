--------------------------- MODULE EventHubCache ---------------------------
(***************************************************************************)
(* The Azure EventHub namespace cache of knative-kafka                     *)
(* (components/common/pkg/kafka/admin/eventhubcache/cache.go), together   *)
(* with the broker it mirrors and the provisioning path of the controller *)
(* that calls it, one caller at a time.                                    *)
(*                                                                         *)
(* The cache keeps two Go maps of *Namespace pointers.  Update builds a    *)
(* fresh Namespace struct per Kafka secret and re-points the event hubs it *)
(* lists, so pointer identity matters: a Namespace struct is an element of *)
(* Obj, a triple <<name, update, listed>>.  "update" is the number of the  *)
(* Update call that allocated it; "listed" is FALSE only for the struct    *)
(* whose HubManager.List call failed (Update returns right after creating  *)
(* it).  Two secrets naming the same namespace in one Update give two      *)
(* structs in Go; the first becomes unreachable once the second replaces   *)
(* it in both maps, so one identity per (name, update, listed) suffices.   *)
(***************************************************************************)
EXTENDS Naturals, FiniteSets, Sequences

CONSTANTS
    Namespaces,                \* names of the Azure EventHub namespaces
    EventHubs,                 \* names of event hubs (Kafka topics)
    MaxEventHubsPerNamespace,  \* constants.MaxEventHubsPerNamespace
    MaxSecrets,                \* bound on the number of Kafka secrets listed
    MaxUpdates,                \* bound on the number of Update calls
    InvalidSecret,             \* a secret that fails validateKafkaSecret
    Nil                        \* the nil *Namespace, and "no namespace"

ASSUME NamespacesAssumption == IsFiniteSet(Namespaces) /\ Nil \notin Namespaces
ASSUME EventHubsAssumption == IsFiniteSet(EventHubs) /\ Nil \notin EventHubs
ASSUME MaxAssumption == MaxEventHubsPerNamespace \in Nat \ {0}
ASSUME BoundsAssumption == MaxSecrets \in Nat /\ MaxUpdates \in Nat
ASSUME InvalidAssumption == InvalidSecret \notin Namespaces

VARIABLES
    namespaceMap,  \* Cache.namespaceMap: namespace name -> *Namespace
    eventhubMap,   \* Cache.eventhubMap: event hub name -> *Namespace
    count,         \* Namespace.Count of every Namespace struct
    updates,       \* Update calls so far (allocates struct identities)
    secrets,       \* the Kafka secrets in the K8S namespace, in list order
    hubNs,         \* Azure: the namespace hosting each event hub, or Nil
    prov           \* the controller's provisioning call in progress

vars == <<namespaceMap, eventhubMap, count, updates, secrets, hubNs, prov>>

Obj == Namespaces \X (1..MaxUpdates) \X BOOLEAN
NsName(o) == o[1]

\* A secret is a namespace name (valid data) or InvalidSecret.
SecretLists == UNION {[1..k -> Namespaces \cup {InvalidSecret}] : k \in 0..MaxSecrets}

\* The event hubs Azure reports for namespace n (HubManager.List).
HubsIn(n) == {h \in EventHubs : hubNs[h] = n}

\* Azure enforces the limit of event hubs per namespace: a create in a
\* namespace that is full fails.
AzureHasRoom(n) == Cardinality(HubsIn(n)) < MaxEventHubsPerNamespace

\* Mutant: the loop without its "skip any invalid data" nil check.
LiveWithNil == {namespaceMap[n] : n \in Namespaces}

\* Namespace structs the loop of GetNamespaceWithMaxCapacity visits: the
\* values of namespaceMap, nil entries skipped.
Live == {namespaceMap[n] : n \in Namespaces} \ {Nil}

ProvStates ==
    [pc : {"idle", "scan"}, hub : EventHubs \cup {Nil},
     left : SUBSET Obj, best : Obj \cup {Nil}]

ProvIdle == [pc |-> "idle", hub |-> Nil, left |-> {}, best |-> Nil]

TypeOK ==
    /\ namespaceMap \in [Namespaces -> Obj \cup {Nil}]
    /\ eventhubMap \in [EventHubs -> Obj \cup {Nil}]
    /\ count \in [Obj -> Nat]
    /\ updates \in 0..MaxUpdates
    /\ secrets \in SecretLists
    /\ hubNs \in [EventHubs -> Namespaces \cup {Nil}]
    /\ prov \in ProvStates

\* NewCache: both maps empty.  Azure enforces its own limit per namespace,
\* so the event hubs that already exist respect it.
Init ==
    /\ namespaceMap = [n \in Namespaces |-> Nil]
    /\ eventhubMap = [h \in EventHubs |-> Nil]
    /\ count = [o \in Obj |-> 0]
    /\ updates = 0
    /\ secrets \in SecretLists
    /\ hubNs \in {f \in [EventHubs -> Namespaces \cup {Nil}] :
                    \A n \in Namespaces :
                      Cardinality({h \in EventHubs : f[h] = n}) <= MaxEventHubsPerNamespace}
    /\ prov = ProvIdle

-----------------------------------------------------------------------------
(* Cache operations *)

\* Update(ctx).  The loop over the secrets stops at the first invalid
\* secret (before touching the cache for it) or right after the first
\* failing List (after namespaceMap already holds the new struct).
\* failAt = 0: every List succeeds; failAt = i: the List of secret i fails.
\* Entries of earlier secrets stay applied: nothing is rolled back, and
\* neither map is cleared first.
Update(failAt) ==
    LET s == secrets
        e == updates + 1
        reach == {i \in 1..Len(s) : \A j \in 1..i : s[j] # InvalidSecret}
        listed == {s[i] : i \in {j \in reach : failAt = 0 \/ j < failAt}}
        failed == {s[i] : i \in reach \cap {failAt}}
    IN
    /\ prov.pc = "idle"
    /\ updates < MaxUpdates
    /\ namespaceMap' = [n \in Namespaces |->
                          IF n \in failed THEN <<n, e, FALSE>>
                          ELSE IF n \in listed THEN <<n, e, TRUE>>
                          ELSE namespaceMap[n]]
    /\ eventhubMap' = [h \in EventHubs |->
                          IF hubNs[h] \in listed THEN <<hubNs[h], e, TRUE>>
                          ELSE eventhubMap[h]]
    /\ count' = [o \in Obj |->
                    IF o[2] = e /\ o[1] \in listed /\ o[3]
                    THEN Cardinality(HubsIn(o[1]))
                    ELSE IF o[2] = e THEN 0
                    ELSE count[o]]
    /\ updates' = e
    /\ UNCHANGED <<secrets, hubNs, prov>>

\* AddEventHub(ctx, eventhub, namespace), as a change of the cache state.
AddEventHub(h, ns) ==
    IF ns # Nil /\ count[ns] < MaxEventHubsPerNamespace
    THEN /\ count' = [count EXCEPT ![ns] = @ + 1]
         /\ eventhubMap' = [eventhubMap EXCEPT ![h] = ns]
    ELSE UNCHANGED <<count, eventhubMap>>

\* Mutant: RemoveEventHub that forgets to decrement the Count.
RemoveEventHubNoDecrement(h) ==
    /\ eventhubMap' = [eventhubMap EXCEPT ![h] = Nil]
    /\ UNCHANGED count

\* RemoveEventHub(ctx, eventhub): GetNamespace, decrement if positive, and
\* delete the map entry in any case.
RemoveEventHub(h) ==
    LET ns == eventhubMap[h] IN
    /\ count' = IF ns # Nil /\ count[ns] > 0
                THEN [count EXCEPT ![ns] = @ - 1] ELSE count
    /\ eventhubMap' = [eventhubMap EXCEPT ![h] = Nil]

-----------------------------------------------------------------------------
(* The controller's provisioning path: GetNamespaceWithMaxCapacity, then   *)
(* create the event hub in that namespace and AddEventHub.  The range loop *)
(* over namespaceMap visits the structs in an arbitrary order: each step   *)
(* takes any struct not yet visited.                                       *)

StartProvision(h) ==
    /\ prov.pc = "idle"
    /\ hubNs[h] = Nil
    /\ prov' = [pc |-> "scan", hub |-> h, left |-> Live, best |-> Nil]
    /\ UNCHANGED <<namespaceMap, eventhubMap, count, updates, secrets, hubNs>>

\* Mutant: the first namespace is taken whether or not it has room.
ScanNamespaceNoCapacityCheck ==
    LET best == prov.best IN
    /\ prov.pc = "scan"
    /\ \E ns \in prov.left :
         \/ /\ best = Nil
            /\ prov' = [prov EXCEPT !.best = ns, !.left = @ \ {ns}]
         \/ /\ best # Nil /\ count[best] = 0
            /\ prov' = [prov EXCEPT !.left = {}]
         \/ /\ best # Nil /\ count[best] # 0 /\ count[ns] < count[best]
            /\ prov' = [prov EXCEPT !.best = ns, !.left = @ \ {ns}]
         \/ /\ best # Nil /\ count[best] # 0 /\ count[ns] >= count[best]
            /\ prov' = [prov EXCEPT !.left = @ \ {ns}]
    /\ UNCHANGED <<namespaceMap, eventhubMap, count, updates, secrets, hubNs>>

\* Mutant: the comparison of counts reversed (keeps the most loaded).
ScanNamespaceMostLoaded ==
    LET best == prov.best IN
    /\ prov.pc = "scan"
    /\ \E ns \in prov.left :
         \/ /\ best = Nil /\ count[ns] < MaxEventHubsPerNamespace
            /\ prov' = [prov EXCEPT !.best = ns, !.left = @ \ {ns}]
         \/ /\ best = Nil /\ count[ns] >= MaxEventHubsPerNamespace
            /\ prov' = [prov EXCEPT !.left = @ \ {ns}]
         \/ /\ best # Nil /\ count[best] = 0
            /\ prov' = [prov EXCEPT !.left = {}]
         \/ /\ best # Nil /\ count[best] # 0 /\ count[ns] > count[best]
            /\ prov' = [prov EXCEPT !.best = ns, !.left = @ \ {ns}]
         \/ /\ best # Nil /\ count[best] # 0 /\ count[ns] <= count[best]
            /\ prov' = [prov EXCEPT !.left = @ \ {ns}]
    /\ UNCHANGED <<namespaceMap, eventhubMap, count, updates, secrets, hubNs>>

\* One iteration of the loop of GetNamespaceWithMaxCapacity.
ScanNamespace ==
    LET best == prov.best IN
    /\ prov.pc = "scan"
    /\ \E ns \in prov.left :
         \/ /\ best = Nil /\ count[ns] < MaxEventHubsPerNamespace
            /\ prov' = [prov EXCEPT !.best = ns, !.left = @ \ {ns}]
         \/ /\ best = Nil /\ count[ns] >= MaxEventHubsPerNamespace
            /\ prov' = [prov EXCEPT !.left = @ \ {ns}]
         \/ /\ best # Nil /\ count[best] = 0
            /\ prov' = [prov EXCEPT !.left = {}]
         \/ /\ best # Nil /\ count[best] # 0 /\ count[ns] < count[best]
            /\ prov' = [prov EXCEPT !.best = ns, !.left = @ \ {ns}]
         \/ /\ best # Nil /\ count[best] # 0 /\ count[ns] >= count[best]
            /\ prov' = [prov EXCEPT !.left = @ \ {ns}]
    /\ UNCHANGED <<namespaceMap, eventhubMap, count, updates, secrets, hubNs>>

\* The loop is over: no namespace has room (error), the creation of the
\* event hub fails in Azure (error: always possible, and certain when the
\* namespace is full in Azure), or it succeeds and is recorded.
FinishProvision ==
    /\ prov.pc = "scan"
    /\ prov.left = {}
    /\ \/ /\ prov.best = Nil
          /\ UNCHANGED <<count, eventhubMap, hubNs>>
       \/ /\ prov.best # Nil
          /\ UNCHANGED <<count, eventhubMap, hubNs>>
       \/ /\ prov.best # Nil
          /\ AzureHasRoom(NsName(prov.best))
          /\ hubNs' = [hubNs EXCEPT ![prov.hub] = NsName(prov.best)]
          /\ AddEventHub(prov.hub, prov.best)
    /\ prov' = ProvIdle
    /\ UNCHANGED <<namespaceMap, updates, secrets>>

\* The controller deletes a channel's event hub in Azure, then removes it
\* from the cache (an event hub already gone is "not found", and tolerated).
Deprovision(h) ==
    /\ prov.pc = "idle"
    /\ hubNs' = [hubNs EXCEPT ![h] = Nil]
    /\ RemoveEventHub(h)
    /\ UNCHANGED <<namespaceMap, updates, secrets, prov>>

-----------------------------------------------------------------------------
(* Environment *)

\* An operator adds, removes or edits Kafka secrets.
ChangeSecrets ==
    /\ \E s \in SecretLists : secrets' = s
    /\ UNCHANGED <<namespaceMap, eventhubMap, count, updates, hubNs, prov>>

\* The controller process restarts: NewCache again, Azure keeps its state.
Restart ==
    /\ namespaceMap' = [n \in Namespaces |-> Nil]
    /\ eventhubMap' = [h \in EventHubs |-> Nil]
    /\ count' = [o \in Obj |-> 0]
    /\ prov' = ProvIdle
    /\ UNCHANGED <<updates, secrets, hubNs>>

Next ==
    \/ \E f \in 0..MaxSecrets : Update(f)
    \/ \E h \in EventHubs : StartProvision(h)
    \/ ScanNamespace
    \/ FinishProvision
    \/ \E h \in EventHubs : Deprovision(h)
    \/ ChangeSecrets
    \/ Restart

Spec == Init /\ [][Next]_vars

-----------------------------------------------------------------------------
(* Properties *)

\* The structs reachable from the cache.
Referenced == ({namespaceMap[n] : n \in Namespaces} \ {Nil}) \cup ({eventhubMap[h] : h \in EventHubs} \ {Nil})

\* Spec section 3: a Namespace's Count equals the number of eventhubMap
\* entries pointing to it, maintained incrementally by AddEventHub and
\* RemoveEventHub and reseeded by Update from the Azure listing.
CountMatchesEntries ==
    \A o \in Referenced :
        count[o] = Cardinality({h \in EventHubs : eventhubMap[h] = o})

\* Spec section 8, selection correctness: when the loop of
\* GetNamespaceWithMaxCapacity is over, it holds a namespace of the cache
\* below capacity with the lowest Count of them all, or nil if every
\* namespace of the cache is at capacity.
SelectionCorrect ==
    (prov.pc = "scan" /\ prov.left = {}) =>
      IF prov.best = Nil
      THEN \A o \in Live : count[o] >= MaxEventHubsPerNamespace
      ELSE /\ prov.best \in Live
           /\ count[prov.best] < MaxEventHubsPerNamespace
           /\ \A o \in Live : count[prov.best] <= count[o]

\* Spec section 3: every eventhubMap entry points to a Namespace that is
\* also the one namespaceMap holds for that name.
ReverseIndexLive ==
    \A h \in EventHubs :
        eventhubMap[h] # Nil => namespaceMap[NsName(eventhubMap[h])] = eventhubMap[h]

\* Spec sections 4.1 and 8: the namespace GetNamespaceWithMaxCapacity
\* returns has room for the new event hub, so that the create in Azure
\* that follows can succeed: the cache's view of a namespace's load does
\* not understate what Azure hosts in it.
SelectedHasRoom ==
    (prov.pc = "scan" /\ prov.left = {} /\ prov.best # Nil)
      => AzureHasRoom(NsName(prov.best))

=============================================================================
