------------------------ MODULE EventHubCache_proofs ------------------------
(***************************************************************************)
(* Proofs about EventHubCache, for every value of the constants that       *)
(* satisfies the module's assumptions.                                     *)
(***************************************************************************)
EXTENDS EventHubCache, FiniteSetTheorems, TLAPS

USE NamespacesAssumption, EventHubsAssumption, MaxAssumption,
    BoundsAssumption, InvalidAssumption

\* Azure's listing of a namespace is a finite set, so Update seeds every
\* Count with a natural number.
LEMMA HubsInCardinality ==
    ASSUME NEW n
    PROVE  Cardinality(HubsIn(n)) \in Nat
<1>1. IsFiniteSet(HubsIn(n))
  BY FS_Subset DEF HubsIn
<1>2. QED
  BY <1>1, FS_CardinalityType

\* A secret that the loop of Update reaches names a namespace.
LEMMA ReachedSecretIsNamespace ==
    ASSUME NEW s \in SecretLists, NEW i \in 1..Len(s),
           \A j \in 1..i : s[j] # InvalidSecret
    PROVE  s[i] \in Namespaces
<1>1. PICK k \in 0..MaxSecrets : s \in [1..k -> Namespaces \cup {InvalidSecret}]
  BY DEF SecretLists
<1>2. Len(s) = k
  BY <1>1
<1>3. QED
  BY <1>1, <1>2

\* The loop invariant of GetNamespaceWithMaxCapacity: the structs visited
\* so far are all at capacity while none is held, and none has room with a
\* lower Count than the one held.  Nothing else runs during the loop, so
\* the Counts and namespaceMap it reads stay as they were.
ScanInv ==
    prov.pc = "scan" =>
      /\ prov.hub \in EventHubs
      /\ hubNs[prov.hub] = Nil
      /\ prov.left \subseteq Live
      /\ prov.best = Nil =>
           \A o \in Live \ prov.left : count[o] >= MaxEventHubsPerNamespace
      /\ prov.best # Nil =>
           /\ prov.best \in Live
           /\ count[prov.best] < MaxEventHubsPerNamespace
           /\ \A o \in Live \ prov.left : count[prov.best] <= count[o]

IInv == TypeOK /\ ScanInv

LEMMA InitTypeOK == Init => TypeOK
BY DEF Init, TypeOK, ProvIdle, ProvStates

LEMMA UpdateTypeOK ==
    ASSUME TypeOK, NEW f \in 0..MaxSecrets, Update(f)
    PROVE  TypeOK'
<1> DEFINE s == secrets
           e == updates + 1
           reach == {i \in 1..Len(s) : \A j \in 1..i : s[j] # InvalidSecret}
           listed == {s[i] : i \in {j \in reach : f = 0 \/ j < f}}
           failed == {s[i] : i \in reach \cap {f}}
<1>1. e \in 1..MaxUpdates
  BY DEF Update, TypeOK
<1>2. listed \subseteq Namespaces /\ failed \subseteq Namespaces
  <2>1. ASSUME NEW i \in reach PROVE s[i] \in Namespaces
    BY ReachedSecretIsNamespace DEF TypeOK
  <2>2. QED
    BY <2>1
<1>3. namespaceMap' \in [Namespaces -> Obj \cup {Nil}]
  BY <1>1, <1>2 DEF Update, TypeOK, Obj
<1>4. eventhubMap' \in [EventHubs -> Obj \cup {Nil}]
  BY <1>1, <1>2 DEF Update, TypeOK, Obj
<1>5. count' \in [Obj -> Nat]
  BY HubsInCardinality DEF Update, TypeOK
<1>6. updates' \in 0..MaxUpdates /\ UNCHANGED <<secrets, hubNs, prov>>
  BY <1>1 DEF Update
<1>7. QED
  BY <1>3, <1>4, <1>5, <1>6 DEF TypeOK

LEMMA StartProvisionTypeOK ==
    ASSUME TypeOK, NEW h \in EventHubs, StartProvision(h)
    PROVE  TypeOK'
BY DEF StartProvision, TypeOK, ProvStates, Live

LEMMA ScanNamespaceTypeOK ==
    ASSUME TypeOK, ScanNamespace
    PROVE  TypeOK'
BY DEF ScanNamespace, TypeOK, ProvStates

LEMMA FinishProvisionTypeOK ==
    ASSUME TypeOK, FinishProvision
    PROVE  TypeOK'
<1>1. CASE prov.best = Nil \/ UNCHANGED <<count, eventhubMap, hubNs>>
  BY <1>1 DEF FinishProvision, TypeOK, ProvIdle, ProvStates
<1>2. CASE /\ prov.best # Nil
           /\ AzureHasRoom(NsName(prov.best))
           /\ hubNs' = [hubNs EXCEPT ![prov.hub] = NsName(prov.best)]
           /\ AddEventHub(prov.hub, prov.best)
  <2>1. prov.best \in Obj /\ NsName(prov.best) \in Namespaces
    BY <1>2 DEF TypeOK, ProvStates, Obj, NsName
  <2>2. hubNs' \in [EventHubs -> Namespaces \cup {Nil}]
    BY <1>2, <2>1 DEF TypeOK
  <2>3. count' \in [Obj -> Nat] /\ eventhubMap' \in [EventHubs -> Obj \cup {Nil}]
    BY <1>2, <2>1 DEF AddEventHub, TypeOK
  <2>4. QED
    BY <2>2, <2>3 DEF FinishProvision, TypeOK, ProvIdle, ProvStates
<1>3. QED
  BY <1>1, <1>2 DEF FinishProvision

LEMMA DeprovisionTypeOK ==
    ASSUME TypeOK, NEW h \in EventHubs, Deprovision(h)
    PROVE  TypeOK'
BY DEF Deprovision, RemoveEventHub, TypeOK

LEMMA ChangeSecretsTypeOK ==
    ASSUME TypeOK, ChangeSecrets
    PROVE  TypeOK'
BY DEF ChangeSecrets, TypeOK

LEMMA RestartTypeOK ==
    ASSUME TypeOK, Restart
    PROVE  TypeOK'
BY DEF Restart, TypeOK, ProvIdle, ProvStates

\* Every step of the cache, of the Azure mirror and of the provisioning
\* call keeps the variables in their types.
LEMMA NextTypeOK == TypeOK /\ [Next]_vars => TypeOK'
<1> SUFFICES ASSUME TypeOK, [Next]_vars PROVE TypeOK'
  OBVIOUS
<1>1. CASE \E f \in 0..MaxSecrets : Update(f)
  BY <1>1, UpdateTypeOK
<1>2. CASE \E h \in EventHubs : StartProvision(h)
  BY <1>2, StartProvisionTypeOK
<1>3. CASE ScanNamespace
  BY <1>3, ScanNamespaceTypeOK
<1>4. CASE FinishProvision
  BY <1>4, FinishProvisionTypeOK
<1>5. CASE \E h \in EventHubs : Deprovision(h)
  BY <1>5, DeprovisionTypeOK
<1>6. CASE ChangeSecrets
  BY <1>6, ChangeSecretsTypeOK
<1>7. CASE Restart
  BY <1>7, RestartTypeOK
<1>8. CASE UNCHANGED vars
  BY <1>8 DEF TypeOK, vars
<1>9. QED
  BY <1>1, <1>2, <1>3, <1>4, <1>5, <1>6, <1>7, <1>8 DEF Next

\* Type correctness of the cache, its Azure mirror and the provisioning call.
THEOREM TypeCorrect == Spec => []TypeOK
<1>1. Init => TypeOK
  BY InitTypeOK
<1>2. QED
  BY <1>1, NextTypeOK, PTL DEF Spec

-----------------------------------------------------------------------------
(* Selection correctness of GetNamespaceWithMaxCapacity *)

LEMMA ScanNamespaceScanInv ==
    ASSUME TypeOK, ScanInv, ScanNamespace
    PROVE  ScanInv'
<1> DEFINE best == prov.best
           left == prov.left
           Max == MaxEventHubsPerNamespace
<1>1. PICK ns \in left :
        \/ /\ best = Nil /\ count[ns] < Max
           /\ prov' = [prov EXCEPT !.best = ns, !.left = @ \ {ns}]
        \/ /\ best = Nil /\ count[ns] >= Max
           /\ prov' = [prov EXCEPT !.left = @ \ {ns}]
        \/ /\ best # Nil /\ count[best] = 0
           /\ prov' = [prov EXCEPT !.left = {}]
        \/ /\ best # Nil /\ count[best] # 0 /\ count[ns] < count[best]
           /\ prov' = [prov EXCEPT !.best = ns, !.left = @ \ {ns}]
        \/ /\ best # Nil /\ count[best] # 0 /\ count[ns] >= count[best]
           /\ prov' = [prov EXCEPT !.left = @ \ {ns}]
  BY DEF ScanNamespace
<1>2. Live' = Live /\ count' = count /\ prov.pc = "scan"
  BY DEF ScanNamespace, Live
<1>3. left \subseteq Live /\ ns \in Live /\ ns # Nil
  BY <1>2 DEF ScanInv, Live
<1>4. \A o \in Live : count[o] \in Nat
  BY DEF Live, TypeOK, Obj
<1>5. prov \in ProvStates
  BY DEF TypeOK
<1>12. /\ prov'.hub = prov.hub /\ hubNs' = hubNs
       /\ prov.hub \in EventHubs /\ hubNs[prov.hub] = Nil
  BY <1>1, <1>2, <1>5 DEF ProvStates, ScanNamespace, ScanInv
<1> HIDE DEF best, left
<1>6. CASE best = Nil /\ count[ns] < Max
          /\ prov' = [prov EXCEPT !.best = ns, !.left = @ \ {ns}]
  <2>1. prov'.pc = "scan" /\ prov'.best = ns /\ prov'.left = left \ {ns}
    BY <1>2, <1>5, <1>6 DEF ProvStates, left
  <2>2. \A o \in Live \ left : count[o] >= Max
    BY <1>2, <1>6 DEF ScanInv, best, left
  <2>3. \A o \in Live \ (left \ {ns}) : count[ns] <= count[o]
    <3> SUFFICES ASSUME NEW o \in Live \ (left \ {ns}) PROVE count[ns] <= count[o]
      OBVIOUS
    <3>1. CASE o = ns
      BY <3>1, <1>3, <1>4
    <3>2. CASE o # ns
      BY <3>2, <2>2, <1>3, <1>4, <1>6, MaxAssumption
    <3>3. QED
      BY <3>1, <3>2
  <2>4. QED
    BY <1>2, <1>3, <1>6, <1>12, <2>1, <2>3 DEF ScanInv
<1>7. CASE best = Nil /\ count[ns] >= Max
          /\ prov' = [prov EXCEPT !.left = @ \ {ns}]
  <2>1. prov'.pc = "scan" /\ prov'.best = Nil /\ prov'.left = left \ {ns}
    BY <1>2, <1>5, <1>7 DEF ProvStates, left, best
  <2>2. \A o \in Live \ left : count[o] >= Max
    BY <1>2, <1>7 DEF ScanInv, best, left
  <2>3. QED
    BY <1>2, <1>3, <1>7, <1>12, <2>1, <2>2 DEF ScanInv
<1>8. CASE best # Nil /\ count[best] = 0
          /\ prov' = [prov EXCEPT !.left = {}]
  <2>1. prov'.pc = "scan" /\ prov'.best = best /\ prov'.left = {}
    BY <1>2, <1>5, <1>8 DEF ProvStates, best
  <2>2. best \in Live /\ count[best] < Max
    BY <1>2, <1>8 DEF ScanInv, best
  <2>3. QED
    BY <1>2, <1>4, <1>8, <1>12, <2>1, <2>2 DEF ScanInv
<1>9. CASE best # Nil /\ count[best] # 0 /\ count[ns] < count[best]
          /\ prov' = [prov EXCEPT !.best = ns, !.left = @ \ {ns}]
  <2>1. prov'.pc = "scan" /\ prov'.best = ns /\ prov'.left = left \ {ns}
    BY <1>2, <1>5, <1>9 DEF ProvStates, left
  <2>2. /\ best \in Live /\ count[best] < Max
        /\ \A o \in Live \ left : count[best] <= count[o]
    BY <1>2, <1>9 DEF ScanInv, best, left
  <2>3. count[ns] < Max
    BY <1>3, <1>4, <1>9, <2>2, MaxAssumption
  <2>4. \A o \in Live \ (left \ {ns}) : count[ns] <= count[o]
    <3> SUFFICES ASSUME NEW o \in Live \ (left \ {ns}) PROVE count[ns] <= count[o]
      OBVIOUS
    <3>1. CASE o = ns
      BY <3>1, <1>3, <1>4
    <3>2. CASE o # ns
      BY <3>2, <2>2, <1>3, <1>4, <1>9
    <3>3. QED
      BY <3>1, <3>2
  <2>5. QED
    BY <1>2, <1>3, <1>9, <1>12, <2>1, <2>3, <2>4 DEF ScanInv
<1>10. CASE best # Nil /\ count[best] # 0 /\ count[ns] >= count[best]
          /\ prov' = [prov EXCEPT !.left = @ \ {ns}]
  <2>1. prov'.pc = "scan" /\ prov'.best = best /\ prov'.left = left \ {ns}
    BY <1>2, <1>5, <1>10 DEF ProvStates, left, best
  <2>2. /\ best \in Live /\ count[best] < Max
        /\ \A o \in Live \ left : count[best] <= count[o]
    BY <1>2, <1>10 DEF ScanInv, best, left
  <2>3. QED
    BY <1>2, <1>3, <1>10, <1>12, <2>1, <2>2 DEF ScanInv
<1>11. QED
  BY <1>1, <1>6, <1>7, <1>8, <1>9, <1>10

LEMMA NextScanInv == IInv /\ [Next]_vars => ScanInv'
<1> SUFFICES ASSUME TypeOK, ScanInv, [Next]_vars PROVE ScanInv'
  BY DEF IInv
<1>1. CASE \E f \in 0..MaxSecrets : Update(f)
  BY <1>1 DEF Update, ScanInv
<1>2. CASE \E h \in EventHubs : StartProvision(h)
  <2>1. Live' = Live
    BY <1>2 DEF StartProvision, Live
  <2>2. QED
    BY <1>2, <2>1 DEF StartProvision, ScanInv
<1>3. CASE ScanNamespace
  BY <1>3, ScanNamespaceScanInv
<1>4. CASE FinishProvision
  BY <1>4 DEF FinishProvision, ScanInv, ProvIdle
<1>5. CASE \E h \in EventHubs : Deprovision(h)
  BY <1>5 DEF Deprovision, ScanInv
<1>6. CASE ChangeSecrets
  <2>1. Live' = Live
    BY <1>6 DEF ChangeSecrets, Live
  <2>2. QED
    BY <1>6, <2>1 DEF ChangeSecrets, ScanInv
<1>7. CASE Restart
  BY <1>7 DEF Restart, ScanInv, ProvIdle
<1>8. CASE UNCHANGED vars
  <2>1. Live' = Live
    BY <1>8 DEF vars, Live
  <2>2. QED
    BY <1>8, <2>1 DEF vars, ScanInv
<1>9. QED
  BY <1>1, <1>2, <1>3, <1>4, <1>5, <1>6, <1>7, <1>8 DEF Next

LEMMA IInvImpliesSelectionCorrect == IInv => SelectionCorrect
BY DEF IInv, ScanInv, SelectionCorrect, TypeOK, ProvStates

LEMMA InitIInv == Init => IInv
BY InitTypeOK DEF Init, IInv, ScanInv, ProvIdle

LEMMA NextIInv == IInv /\ [Next]_vars => IInv'
<1>1. TypeOK /\ [Next]_vars => TypeOK'
  BY NextTypeOK
<1>2. QED
  BY <1>1, NextScanInv DEF IInv

\* Spec section 8: whenever the loop of GetNamespaceWithMaxCapacity is
\* over, for every iteration order of the namespaceMap, it holds a least
\* loaded namespace of the cache below capacity, or nil when all are full.
THEOREM SelectionCorrectness == Spec => []SelectionCorrect
<1>1. Init => IInv
  BY InitIInv
<1>2. IInv /\ [Next]_vars => IInv'
  BY NextIInv
<1>3. QED
  BY <1>1, <1>2, IInvImpliesSelectionCorrect, PTL DEF Spec

-----------------------------------------------------------------------------
(* Refinement of the atomic placement of EventHubPlacement                 *)

Placement == INSTANCE EventHubPlacement

\* The instance's Cardinality is that of FiniteSets.
LEMMA PlacementCardinality ==
    ASSUME NEW S PROVE Placement!C!Cardinality(S) = Cardinality(S)
BY DEF Placement!C!Cardinality, Cardinality

\* The step of FinishProvision that records a created event hub is the
\* atomic Provision step of the abstract specification: the namespace the
\* loop returned is a least-loaded one with room, and the hub had none.
LEMMA FinishProvisionRefines ==
    ASSUME IInv, FinishProvision
    PROVE  [Placement!Next]_Placement!avars
<1> USE DEF IInv
<1>1. CASE prov.best = Nil \/ UNCHANGED <<count, eventhubMap, hubNs>>
  <2>1. UNCHANGED <<count, eventhubMap, hubNs>>
    BY <1>1 DEF FinishProvision
  <2>2. QED
    BY <2>1 DEF FinishProvision, Placement!avars
<1>2. CASE /\ prov.best # Nil
           /\ AzureHasRoom(NsName(prov.best))
           /\ hubNs' = [hubNs EXCEPT ![prov.hub] = NsName(prov.best)]
           /\ AddEventHub(prov.hub, prov.best)
  <2>1. /\ prov.pc = "scan" /\ prov.left = {}
        /\ UNCHANGED <<namespaceMap, updates, secrets>>
    BY DEF FinishProvision
  <2>2. prov.hub \in EventHubs /\ hubNs[prov.hub] = Nil
    BY <2>1 DEF ScanInv
  <2>3. prov.best \in Placement!LeastLoaded
    BY <1>2, <2>1 DEF ScanInv, Placement!LeastLoaded, Placement!C!Live, Live
  <2>4. Placement!C!AzureHasRoom(Placement!C!NsName(prov.best))
    BY <1>2, PlacementCardinality
       DEF AzureHasRoom, Placement!C!AzureHasRoom, HubsIn, Placement!C!HubsIn,
           NsName, Placement!C!NsName
  <2>5. Placement!Provision(prov.hub)
    BY <1>2, <2>1, <2>2, <2>3, <2>4
       DEF Placement!Provision, Placement!C!NsName, NsName,
           Placement!C!AddEventHub, AddEventHub
  <2>6. QED
    BY <2>2, <2>5 DEF Placement!Next
<1>3. QED
  BY <1>1, <1>2 DEF FinishProvision

LEMMA NextRefines ==
    IInv /\ [Next]_vars => [Placement!Next]_Placement!avars
<1> SUFFICES ASSUME IInv, [Next]_vars PROVE [Placement!Next]_Placement!avars
  OBVIOUS
<1>1. CASE \E f \in 0..MaxSecrets : Update(f)
  <2>1. PICK f \in 0..MaxSecrets : Update(f)
    BY <1>1
  <2>2. Placement!C!Update(f)
    BY <2>1, PlacementCardinality
       DEF Update, Placement!C!Update, Placement!NoCall, Placement!C!HubsIn, HubsIn,
           Placement!C!Obj, Obj
  <2>3. QED
    BY <2>2 DEF Placement!Next
<1>2. CASE \E h \in EventHubs : StartProvision(h)
  BY <1>2 DEF StartProvision, Placement!avars
<1>3. CASE ScanNamespace
  BY <1>3 DEF ScanNamespace, Placement!avars
<1>4. CASE FinishProvision
  BY <1>4, FinishProvisionRefines
<1>5. CASE \E h \in EventHubs : Deprovision(h)
  <2>1. PICK h \in EventHubs : Deprovision(h)
    BY <1>5
  <2>2. Placement!C!Deprovision(h)
    BY <2>1 DEF Deprovision, RemoveEventHub, Placement!C!Deprovision,
                Placement!C!RemoveEventHub, Placement!NoCall
  <2>3. QED
    BY <2>2 DEF Placement!Next
<1>6. CASE ChangeSecrets
  <2>1. Placement!C!ChangeSecrets
    BY <1>6 DEF ChangeSecrets, Placement!C!ChangeSecrets, Placement!C!SecretLists, SecretLists
  <2>2. QED
    BY <2>1 DEF Placement!Next
<1>7. CASE Restart
  <2>1. Placement!C!Restart
    BY <1>7 DEF Restart, Placement!C!Restart, Placement!C!ProvIdle, Placement!NoCall, ProvIdle, Placement!C!Obj, Obj
  <2>2. QED
    BY <2>1 DEF Placement!Next
<1>8. CASE UNCHANGED vars
  BY <1>8 DEF vars, Placement!avars
<1>9. QED
  BY <1>1, <1>2, <1>3, <1>4, <1>5, <1>6, <1>7, <1>8 DEF Next

\* The cache with its iterative, unsynchronised GetNamespaceWithMaxCapacity
\* (in every iteration order of the namespaceMap, with secrets changing and
\* the controller restarting mid-loop) implements the atomic placement of
\* EventHubPlacement: every event hub the provisioning path records goes
\* to a least-loaded namespace of the cache that had room.
THEOREM Refinement == Spec => Placement!Spec
<1>1. Spec => []IInv
  BY InitIInv, NextIInv, PTL DEF Spec
<1>2. Init => Placement!Init
  <2> SUFFICES ASSUME Init PROVE Placement!Init
    OBVIOUS
  <2>1. /\ hubNs \in [EventHubs -> Namespaces \cup {Nil}]
        /\ \A n \in Namespaces :
             Cardinality({h \in EventHubs : hubNs[h] = n}) <= MaxEventHubsPerNamespace
    BY DEF Init
  <2>2. \A n \in Namespaces :
          Placement!C!Cardinality({h \in EventHubs : hubNs[h] = n}) <= MaxEventHubsPerNamespace
    BY <2>1, PlacementCardinality
  <2>3. QED
    BY <2>1, <2>2 DEF Init, Placement!Init, Placement!C!Init, Placement!NoCall, Placement!C!ProvIdle,
                      Placement!C!Obj, Obj, Placement!C!SecretLists, SecretLists
<1>3. QED
  BY <1>1, <1>2, NextRefines, PTL DEF Spec, Placement!Spec

=============================================================================
