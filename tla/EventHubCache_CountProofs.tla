--------------------- MODULE EventHubCache_CountProofs ---------------------
(***************************************************************************)
(* Proof that the Count of every Namespace struct the cache references     *)
(* equals the number of eventhubMap entries pointing to it                 *)
(* (CountMatchesEntries), for every value of the constants.                *)
(*                                                                         *)
(* CountMatchesEntries is not inductive: Update re-points event hubs to    *)
(* new structs and leaves the Count of the old struct as it was.  That is  *)
(* harmless only because the old struct is then referenced by no map at   *)
(* all, and that follows from where the pointers come from: a struct in    *)
(* namespaceMap[n] was allocated for n, a struct in eventhubMap[h] for the *)
(* namespace Azure hosts h in, and both by an Update that already ran.     *)
(***************************************************************************)
EXTENDS EventHubCache_proofs

\* The eventhubMap entries pointing to struct o.
Entries(o) == {h \in EventHubs : eventhubMap[h] = o}

\* Where the pointers of the two maps come from.
StructsWellFormed ==
    /\ \A n \in Namespaces :
         namespaceMap[n] # Nil => namespaceMap[n][1] = n /\ namespaceMap[n][2] <= updates
    /\ \A h \in EventHubs :
         eventhubMap[h] # Nil => eventhubMap[h][1] = hubNs[h] /\ eventhubMap[h][2] <= updates

CInv == IInv /\ StructsWellFormed /\ CountMatchesEntries

LEMMA EntriesFinite ==
    ASSUME NEW o PROVE IsFiniteSet(Entries(o))
<1>1. Entries(o) \subseteq EventHubs
  BY DEF Entries
<1>2. QED
  BY <1>1, EventHubsAssumption, FS_Subset

-----------------------------------------------------------------------------
(* StructsWellFormed is inductive (given the scan invariant)               *)

\* The event hub being provisioned does not exist in Azure, so the cache
\* maps it to no struct.
LEMMA ProvHubUnmapped ==
    ASSUME IInv, StructsWellFormed, prov.pc = "scan"
    PROVE  prov.hub \in EventHubs /\ eventhubMap[prov.hub] = Nil
BY NamespacesAssumption DEF IInv, ScanInv, StructsWellFormed, TypeOK, Obj

LEMMA UpdateWellFormed ==
    ASSUME TypeOK, StructsWellFormed, NEW f \in 0..MaxSecrets, Update(f)
    PROVE  StructsWellFormed'
<1> DEFINE e == updates + 1
<1>1. updates' = e /\ hubNs' = hubNs /\ updates \in Nat
  BY DEF Update, TypeOK
<1>2. \A n \in Namespaces : namespaceMap'[n] # Nil =>
        \/ namespaceMap'[n] = namespaceMap[n]
        \/ namespaceMap'[n][1] = n /\ namespaceMap'[n][2] = e
  BY DEF Update
<1>3. \A h \in EventHubs : eventhubMap'[h] # Nil =>
        \/ eventhubMap'[h] = eventhubMap[h]
        \/ eventhubMap'[h][1] = hubNs[h] /\ eventhubMap'[h][2] = e
  BY DEF Update
<1>4. QED
  BY <1>1, <1>2, <1>3 DEF StructsWellFormed, TypeOK, Obj

LEMMA FinishProvisionWellFormed ==
    ASSUME IInv, StructsWellFormed, FinishProvision
    PROVE  StructsWellFormed'
<1>1. UNCHANGED <<namespaceMap, updates>>
  BY DEF FinishProvision
<1>2. CASE UNCHANGED <<count, eventhubMap, hubNs>>
  BY <1>1, <1>2 DEF StructsWellFormed
<1>3. CASE /\ prov.best # Nil
           /\ hubNs' = [hubNs EXCEPT ![prov.hub] = NsName(prov.best)]
           /\ AddEventHub(prov.hub, prov.best)
  <2>1. prov.hub \in EventHubs /\ prov.best \in Live
    BY <1>3 DEF FinishProvision, IInv, ScanInv
  <2>2. prov.best[1] \in Namespaces /\ prov.best[2] <= updates
    BY <2>1 DEF StructsWellFormed, Live
  <2>3. eventhubMap' = [eventhubMap EXCEPT ![prov.hub] = prov.best]
        \/ eventhubMap' = eventhubMap
    BY <1>3 DEF AddEventHub
  <2>4. eventhubMap[prov.hub] = Nil
    BY ProvHubUnmapped DEF FinishProvision
  <2>5. QED
    BY <1>1, <1>3, <2>1, <2>2, <2>3, <2>4 DEF StructsWellFormed, NsName, IInv, TypeOK
<1>4. QED
  BY <1>2, <1>3 DEF FinishProvision

LEMMA NextWellFormed ==
    ASSUME IInv, StructsWellFormed, [Next]_vars
    PROVE  StructsWellFormed'
<1>1. CASE \E f \in 0..MaxSecrets : Update(f)
  BY <1>1, UpdateWellFormed DEF IInv
<1>2. CASE FinishProvision
  BY <1>2, FinishProvisionWellFormed
<1>3. CASE \E h \in EventHubs : Deprovision(h)
  BY <1>3 DEF Deprovision, RemoveEventHub, StructsWellFormed, IInv, TypeOK
<1>4. CASE Restart
  BY <1>4 DEF Restart, StructsWellFormed
<1>5. CASE \/ \E h \in EventHubs : StartProvision(h)
           \/ ScanNamespace \/ ChangeSecrets \/ UNCHANGED vars
  BY <1>5 DEF StartProvision, ScanNamespace, ChangeSecrets, vars, StructsWellFormed
<1>6. QED
  BY <1>1, <1>2, <1>3, <1>4, <1>5 DEF Next

-----------------------------------------------------------------------------
(* CountMatchesEntries, action by action                                   *)

\* Every struct either map points to after a step that writes no new
\* struct was already referenced before it.
LEMMA ReferencedShrinks ==
    ASSUME TypeOK, namespaceMap' = namespaceMap,
           \A h \in EventHubs : eventhubMap'[h] \in {eventhubMap[h], Nil}
    PROVE  Referenced' \subseteq Referenced
BY DEF Referenced

\* RemoveEventHub: the struct the hub pointed to is referenced, so its Count
\* is the size of a set holding the hub, hence positive, and the decrement
\* applies; the entry set loses exactly that hub.
LEMMA DeprovisionCount ==
    ASSUME TypeOK, CountMatchesEntries, NEW h \in EventHubs, Deprovision(h)
    PROVE  CountMatchesEntries'
<1> DEFINE ns == eventhubMap[h]
<1>1. UNCHANGED namespaceMap /\ eventhubMap' = [eventhubMap EXCEPT ![h] = Nil]
  BY DEF Deprovision, RemoveEventHub
<1>2. Referenced' \subseteq Referenced
  BY <1>1, ReferencedShrinks DEF TypeOK
<1>3. CASE ns = Nil
  <2>1. eventhubMap' = eventhubMap /\ count' = count
    BY <1>1, <1>3 DEF Deprovision, RemoveEventHub, TypeOK
  <2>2. Referenced' = Referenced
    BY <1>1, <2>1 DEF Referenced
  <2>3. QED
    BY <2>1, <2>2 DEF CountMatchesEntries
<1>4. CASE ns # Nil
  <2>1. ns \in Referenced
    BY <1>4 DEF Referenced
  <2>2. count[ns] = Cardinality(Entries(ns)) /\ h \in Entries(ns)
    BY <2>1 DEF CountMatchesEntries, Entries
  <2>3. IsFiniteSet(Entries(ns))
    BY EntriesFinite
  <2>4. Cardinality(Entries(ns) \ {h}) = Cardinality(Entries(ns)) - 1
        /\ Cardinality(Entries(ns)) \in Nat \ {0}
    BY <2>2, <2>3, FS_RemoveElement, FS_CardinalityType, FS_EmptySet
  <2>5. count' = [count EXCEPT ![ns] = @ - 1]
    BY <1>4, <2>2, <2>4 DEF Deprovision, RemoveEventHub
  <2>6. {x \in EventHubs : eventhubMap'[x] = ns} = Entries(ns) \ {h}
    BY <1>1, <1>4 DEF Entries, TypeOK
  <2>7. \A o \in Referenced' :
          o # ns => {x \in EventHubs : eventhubMap'[x] = o} = Entries(o)
    BY <1>1 DEF Entries, TypeOK, Referenced
  <2>8. ns \in Obj
    BY <1>4 DEF TypeOK
  <2>9. SUFFICES ASSUME NEW o \in Referenced'
                 PROVE  count'[o] = Cardinality({x \in EventHubs : eventhubMap'[x] = o})
    BY DEF CountMatchesEntries
  <2>10. o \in Referenced /\ o \in Obj
    BY <1>2 DEF Referenced, TypeOK
  <2>11. CASE o = ns
    <3>1. count'[o] = Cardinality(Entries(ns)) - 1
      BY <2>2, <2>5, <2>8, <2>11 DEF TypeOK
    <3>2. QED
      BY <2>4, <2>6, <2>11, <3>1
  <2>12. CASE o # ns
    <3>1. count'[o] = count[o]
      BY <2>5, <2>10, <2>12 DEF TypeOK
    <3>2. QED
      BY <2>7, <2>10, <2>12, <3>1 DEF CountMatchesEntries, Entries
  <2>13. QED
    BY <2>11, <2>12
<1>5. QED
  BY <1>3, <1>4

\* AddEventHub after GetNamespaceWithMaxCapacity: the struct returned is
\* referenced by namespaceMap, and the hub is added to its entries exactly
\* when its Count is incremented.
LEMMA FinishProvisionCount ==
    ASSUME IInv, StructsWellFormed, CountMatchesEntries, FinishProvision
    PROVE  CountMatchesEntries'
<1>1. UNCHANGED namespaceMap
  BY DEF FinishProvision
<1>2. CASE UNCHANGED <<count, eventhubMap>>
  <2>1. Referenced' = Referenced
    BY <1>1, <1>2 DEF Referenced
  <2>2. QED
    BY <1>2, <2>1 DEF CountMatchesEntries
<1>3. CASE /\ prov.best # Nil /\ count[prov.best] < MaxEventHubsPerNamespace
           /\ count' = [count EXCEPT ![prov.best] = @ + 1]
           /\ eventhubMap' = [eventhubMap EXCEPT ![prov.hub] = prov.best]
  <2> DEFINE b == prov.best  hub == prov.hub
  <2>1. hub \in EventHubs /\ eventhubMap[hub] = Nil
    BY ProvHubUnmapped DEF FinishProvision
  <2>2. b \in Live /\ b \in Referenced /\ b \in Obj
    BY <1>3 DEF FinishProvision, IInv, ScanInv, Live, Referenced, TypeOK
  <2>3. Referenced' = Referenced
    BY <1>1, <1>3, <2>1, <2>2 DEF Referenced, TypeOK
  <2>4. {x \in EventHubs : eventhubMap'[x] = b} = Entries(b) \cup {hub}
    BY <1>3, <2>1 DEF Entries, IInv, TypeOK
  <2>5. hub \notin Entries(b) /\ IsFiniteSet(Entries(b))
    BY <1>3, <2>1, EntriesFinite DEF Entries
  <2>6. Cardinality(Entries(b) \cup {hub}) = Cardinality(Entries(b)) + 1
    BY <2>5, FS_AddElement
  <2>7. \A o \in Referenced :
          o # b => {x \in EventHubs : eventhubMap'[x] = o} = Entries(o)
    BY <1>3, <2>1 DEF Entries, IInv, TypeOK, Referenced
  <2>8. count[b] = Cardinality(Entries(b))
    BY <2>2 DEF CountMatchesEntries, Entries
  <2>9. SUFFICES ASSUME NEW o \in Referenced'
                 PROVE  count'[o] = Cardinality({x \in EventHubs : eventhubMap'[x] = o})
    BY DEF CountMatchesEntries
  <2>10. o \in Referenced /\ o \in Obj
    BY <2>3 DEF Referenced, IInv, TypeOK
  <2>11. CASE o = b
    BY <1>3, <2>2, <2>4, <2>6, <2>8, <2>11 DEF IInv, TypeOK
  <2>12. CASE o # b
    <3>1. count'[o] = count[o]
      BY <1>3, <2>10, <2>12 DEF IInv, TypeOK
    <3>2. QED
      BY <2>7, <2>10, <2>12, <3>1 DEF CountMatchesEntries, Entries
  <2>13. QED
    BY <2>11, <2>12
<1>4. QED
  BY <1>2, <1>3 DEF FinishProvision, AddEventHub

\* Update: a struct it allocates has the Count of the Azure listing of its
\* namespace, or 0, and is what every hub of a listed namespace now points
\* to.  A struct it does not allocate keeps its Count and its entries: had
\* one of its hubs been re-pointed, its namespace would be listed, and then
\* neither map would point to it any more.
LEMMA UpdateCount ==
    ASSUME TypeOK, StructsWellFormed, CountMatchesEntries,
           NEW f \in 0..MaxSecrets, Update(f)
    PROVE  CountMatchesEntries'
<1> DEFINE s == secrets
           e == updates + 1
           reach == {i \in 1..Len(s) : \A j \in 1..i : s[j] # InvalidSecret}
           listed == {s[i] : i \in {j \in reach : f = 0 \/ j < f}}
           failed == {s[i] : i \in reach \cap {f}}
           NewEntries(o) == {x \in EventHubs : eventhubMap'[x] = o}
<1>1. /\ updates \in Nat /\ e \in Nat /\ updates < e
      /\ namespaceMap' = [n \in Namespaces |->
                            IF n \in failed THEN <<n, e, FALSE>>
                            ELSE IF n \in listed THEN <<n, e, TRUE>>
                            ELSE namespaceMap[n]]
      /\ eventhubMap' = [h \in EventHubs |->
                            IF hubNs[h] \in listed THEN <<hubNs[h], e, TRUE>>
                            ELSE eventhubMap[h]]
      /\ count' = [o \in Obj |->
                      IF o[2] = e /\ o[1] \in listed /\ o[3]
                      THEN Cardinality(HubsIn(o[1]))
                      ELSE IF o[2] = e THEN 0
                      ELSE count[o]]
  BY DEF Update, TypeOK
<1>2. TypeOK'
  BY UpdateTypeOK
<1>10. \A x \in EventHubs :
         eventhubMap'[x] = IF hubNs[x] \in listed THEN <<hubNs[x], e, TRUE>>
                           ELSE eventhubMap[x]
  BY <1>1
<1>3. SUFFICES ASSUME NEW o \in Referenced'
               PROVE  count'[o] = Cardinality(NewEntries(o))
  BY DEF CountMatchesEntries
<1>4. /\ o \in Obj /\ o # Nil
      /\ o = <<o[1], o[2], o[3]>> /\ o[1] \in Namespaces /\ o[3] \in BOOLEAN
  BY <1>2 DEF Referenced, TypeOK, Obj
\* A struct the maps held before the step was allocated by an earlier Update.
<1>5. \A x \in EventHubs : eventhubMap[x] # Nil => eventhubMap[x][2] < e
  BY <1>1 DEF StructsWellFormed, TypeOK, Obj
<1>6. CASE o[2] = e /\ o[1] \in listed /\ o[3]
  <2>1. ASSUME NEW x \in EventHubs PROVE eventhubMap'[x] = o <=> hubNs[x] = o[1]
    <3>1. CASE hubNs[x] \in listed
      <4>1. eventhubMap'[x] = <<hubNs[x], e, TRUE>>
        BY <1>10, <3>1
      <4>2. o = <<o[1], e, TRUE>>
        <5>1. o[3] = TRUE
          BY <1>4, <1>6, Zenon
        <5>2. QED
          BY <1>4, <1>6, <5>1
      <4>3. eventhubMap'[x][1] = hubNs[x]
        BY <4>1
      <4>4. QED
        BY <4>1, <4>2, <4>3
    <3>2. CASE hubNs[x] \notin listed
      <4>1. eventhubMap'[x] = eventhubMap[x]
        BY <1>1, <3>2
      <4>2. eventhubMap[x] # o
        BY <1>1, <1>4, <1>5, <1>6
      <4>3. QED
        BY <1>6, <3>2, <4>1, <4>2
    <3>3. QED
      BY <3>1, <3>2
  <2>2. NewEntries(o) = HubsIn(o[1])
    BY <2>1 DEF HubsIn
  <2>3. QED
    BY <1>1, <1>4, <1>6, <2>2
<1>7. CASE o[2] = e /\ ~(o[1] \in listed /\ o[3])
  <2>1. ASSUME NEW x \in EventHubs PROVE eventhubMap'[x] # o
    <3>1. CASE hubNs[x] \in listed
      <4>1. eventhubMap'[x] = <<hubNs[x], e, TRUE>>
        BY <1>10, <3>1
      <4>2. o # <<hubNs[x], e, TRUE>>
        <5>1. o[1] \notin listed \/ o[3] = FALSE
          BY <1>4, <1>7
        <5>2. <<hubNs[x], e, TRUE>>[1] = hubNs[x] /\ <<hubNs[x], e, TRUE>>[3] = TRUE
          BY Zenon
        <5>3. QED
          BY <3>1, <5>1, <5>2
      <4>3. QED
        BY <4>1, <4>2
    <3>2. CASE hubNs[x] \notin listed
      BY <1>1, <1>4, <1>5, <1>7, <3>2
    <3>3. QED
      BY <3>1, <3>2
  <2>2. NewEntries(o) = {}
    BY <2>1
  <2>3. QED
    BY <1>1, <1>4, <1>7, <2>2, FS_EmptySet
<1>8. CASE o[2] # e
  \* o was referenced before, by a map entry Update left alone.
  <2>1. o \in Referenced /\ o[1] \notin listed
    <3>1. CASE \E n \in Namespaces : namespaceMap'[n] = o
      <4>1. PICK n \in Namespaces : namespaceMap'[n] = o
        BY <3>1
      <4>2. n \notin failed /\ n \notin listed /\ namespaceMap[n] = o
        BY <1>1, <1>8, <4>1
      <4>3. QED
        BY <1>4, <4>2 DEF Referenced, StructsWellFormed
    <3>2. CASE \E h \in EventHubs : eventhubMap'[h] = o
      <4>1. PICK h \in EventHubs : eventhubMap'[h] = o
        BY <3>2
      <4>2. hubNs[h] \notin listed /\ eventhubMap[h] = o
        BY <1>1, <1>8, <4>1
      <4>3. QED
        BY <1>4, <4>2 DEF Referenced, StructsWellFormed
    <3>3. QED
      BY <3>1, <3>2 DEF Referenced
  <2>2. ASSUME NEW x \in EventHubs PROVE eventhubMap'[x] = o <=> eventhubMap[x] = o
    <3>1. CASE hubNs[x] \in listed
      <4>1. eventhubMap[x] # o
        BY <1>4, <2>1, <3>1 DEF StructsWellFormed
      <4>2. eventhubMap'[x] = <<hubNs[x], e, TRUE>>
        BY <1>10, <3>1
      <4>3. eventhubMap'[x][2] = e
        BY <4>2
      <4>4. QED
        BY <1>8, <4>1, <4>3, Zenon
    <3>2. CASE hubNs[x] \notin listed
      BY <1>1, <3>2
    <3>3. QED
      BY <3>1, <3>2
  <2>3. NewEntries(o) = Entries(o)
    BY <2>2 DEF Entries
  <2>4. QED
    BY <1>1, <1>4, <1>8, <2>1, <2>3 DEF CountMatchesEntries, Entries
<1>9. QED
  BY <1>6, <1>7, <1>8

LEMMA NextCount ==
    ASSUME IInv, StructsWellFormed, CountMatchesEntries, [Next]_vars
    PROVE  CountMatchesEntries'
<1>1. CASE \E f \in 0..MaxSecrets : Update(f)
  BY <1>1, UpdateCount DEF IInv
<1>2. CASE FinishProvision
  BY <1>2, FinishProvisionCount
<1>3. CASE \E h \in EventHubs : Deprovision(h)
  BY <1>3, DeprovisionCount DEF IInv
<1>4. CASE Restart
  <2>1. Referenced' = {}
    BY <1>4 DEF Restart, Referenced
  <2>2. QED
    BY <2>1 DEF CountMatchesEntries
<1>5. CASE \/ \E h \in EventHubs : StartProvision(h)
           \/ ScanNamespace \/ ChangeSecrets \/ UNCHANGED vars
  <2>1. UNCHANGED <<namespaceMap, eventhubMap, count>>
    BY <1>5 DEF StartProvision, ScanNamespace, ChangeSecrets, vars
  <2>2. Referenced' = Referenced
    BY <2>1 DEF Referenced
  <2>3. QED
    BY <2>1, <2>2 DEF CountMatchesEntries
<1>6. QED
  BY <1>1, <1>2, <1>3, <1>4, <1>5 DEF Next

-----------------------------------------------------------------------------

LEMMA InitCInv == Init => CInv
<1> SUFFICES ASSUME Init PROVE CInv
  OBVIOUS
<1>1. Referenced = {}
  BY DEF Init, Referenced
<1>2. QED
  BY <1>1, InitIInv DEF CInv, StructsWellFormed, CountMatchesEntries, Init

LEMMA NextCInv == CInv /\ [Next]_vars => CInv'
BY NextIInv, NextWellFormed, NextCount DEF CInv

\* Spec section 3: in every reachable state of the cache, the Count of each
\* Namespace struct that namespaceMap or eventhubMap points to equals the
\* number of eventhubMap entries pointing to it, across every interleaving
\* of Update, AddEventHub after the capacity scan, RemoveEventHub and
\* restarts of the controller.
THEOREM CountCorrect == Spec => []CountMatchesEntries
<1>1. Init => CInv
  BY InitCInv
<1>2. CInv /\ [Next]_vars => CInv'
  BY NextCInv
<1>3. CInv => CountMatchesEntries
  BY DEF CInv
<1>4. QED
  BY <1>1, <1>2, <1>3, PTL DEF Spec

=============================================================================
