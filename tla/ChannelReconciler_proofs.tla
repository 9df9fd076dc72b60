----------------------- MODULE ChannelReconciler_proofs -----------------------
(***************************************************************************)
(* Proofs about the KafkaChannel reconciler of the dispatcher.            *)
(***************************************************************************)
EXTENDS ChannelReconciler, TLAPS

USE SubscribersAssumption, BoundsAssumption

LEMMA InitTypeOK == Init => TypeOK
BY DEF Init, TypeOK, Channel, Status, SubStatus, NoSubStatus

LEMMA ReconcileTypeOK ==
    ASSUME TypeOK, Reconcile
    PROVE  TypeOK'
<1> DEFINE original == lister
<1>1. CASE ~original.exists
  BY <1>1 DEF Reconcile, TypeOK
<1>2. CASE original.exists /\ ~original.status.ready
  BY <1>2 DEF Reconcile, TypeOK
<1>3. CASE original.exists /\ original.status.ready /\ original.spec = {}
  BY <1>3 DEF Reconcile, TypeOK, Channel
<1>4. CASE original.exists /\ original.status.ready /\ original.spec # {}
  <2>1. PICK failed \in SUBSET Changes(original.spec) :
          /\ failed # {} => failures < MaxFailures
          /\ failures' = IF failed = {} THEN failures ELSE failures + 1
          /\ UpdateSubscriptions(original.spec, failed)
          /\ desired' = [original.status EXCEPT
                           !.subs = CreateSubscribableStatus(original.spec, failed)]
    BY <1>4 DEF Reconcile
  <2>2. running' \in SUBSET Subscription
    BY <2>1 DEF UpdateSubscriptions, Starts, Stops, TypeOK, Channel, SubscriberLists
  <2>3. desired' \in Status
    BY <2>1 DEF CreateSubscribableStatus, TypeOK, Channel, Status, SubStatus
  <2>4. failures' \in 0..MaxFailures
    BY <2>1 DEF TypeOK
  <2>5. QED
    BY <1>4, <2>2, <2>3, <2>4 DEF Reconcile, TypeOK
<1>5. QED
  BY <1>1, <1>2, <1>3, <1>4

LEMMA UpdateStatusTypeOK ==
    ASSUME TypeOK, UpdateStatus
    PROVE  TypeOK'
<1>1. failures' \in 0..MaxFailures
  BY DEF UpdateStatus, TypeOK
<1>2. store' \in Channel
  BY DEF UpdateStatus, TypeOK, Channel
<1>3. QED
  BY <1>1, <1>2 DEF UpdateStatus, TypeOK

LEMMA EnvironmentTypeOK ==
    ASSUME TypeOK,
           \/ InformerSync \/ Resync \/ EditSubscribers
           \/ SetChannelReady \/ DeleteChannel \/ RestartDispatcher
    PROVE  TypeOK'
<1>1. CASE InformerSync
  BY <1>1 DEF InformerSync, TypeOK
<1>2. CASE Resync
  BY <1>2 DEF Resync, TypeOK
<1>3. CASE EditSubscribers
  <2>1. PICK s \in SubscriberLists : store' = [store EXCEPT !.spec = s]
    BY <1>3 DEF EditSubscribers
  <2>2. store' \in Channel
    BY <2>1 DEF TypeOK, Channel
  <2>3. edits' \in 0..MaxEdits
    BY <1>3 DEF EditSubscribers, TypeOK
  <2>4. QED
    BY <1>3, <2>2, <2>3 DEF EditSubscribers, TypeOK
<1>4. CASE SetChannelReady
  <2>1. store' \in Channel
    BY <1>4 DEF SetChannelReady, TypeOK, Channel, Status
  <2>2. edits' \in 0..MaxEdits
    BY <1>4 DEF SetChannelReady, TypeOK
  <2>3. QED
    BY <1>4, <2>1, <2>2 DEF SetChannelReady, TypeOK
<1>5. CASE DeleteChannel
  <2>1. store' \in Channel
    BY <1>5 DEF DeleteChannel, TypeOK, Channel
  <2>2. edits' \in 0..MaxEdits
    BY <1>5 DEF DeleteChannel, TypeOK
  <2>3. QED
    BY <1>5, <2>1, <2>2 DEF DeleteChannel, TypeOK
<1>6. CASE RestartDispatcher
  BY <1>6 DEF RestartDispatcher, TypeOK
<1>7. QED
  BY <1>1, <1>2, <1>3, <1>4, <1>5, <1>6

\* Every step of the reconciler, the informer, the workqueue, the
\* dispatcher and the other writers keeps the variables in their types.
LEMMA NextTypeOK == TypeOK /\ [Next]_vars => TypeOK'
BY ReconcileTypeOK, UpdateStatusTypeOK, EnvironmentTypeOK DEF Next, vars, TypeOK

\* Type correctness of the channel in the API server, the lister copy, the
\* status Reconcile computes and the dispatcher's running consumer groups.
THEOREM TypeCorrect == Spec => []TypeOK
<1>1. Init => TypeOK
  BY InitTypeOK
<1>2. QED
  BY <1>1, NextTypeOK, PTL DEF Spec

-----------------------------------------------------------------------------
(* The published status of a quiescent channel is accurate                 *)

\* The lister holds the current channel while no write is unseen.
ListerCurrent == synced => lister = store

\* Between reconcile and updateStatus, with no newer event queued, the
\* computed SubscriberStatus says Ready exactly for the declared
\* subscribers whose consumer group runs.
StatusComputed ==
    (pc = "status" /\ ~queued /\ lister.spec # {})
      => \A u \in Ids(lister.spec) :
           (desired.subs[u] = "true") <=> (u \in Ids(running))

IInv == TypeOK /\ ListerCurrent /\ StatusComputed /\ QuiescentStatusAccurate

\* createSubscribableStatus, fed with the failures of UpdateSubscriptions,
\* marks Ready exactly the declared subscribers whose group runs after it:
\* the dispatcher and the lookup agree on the failed Subscription because a
\* start is only attempted, and can only fail, for the declared one.
LEMMA ConvergeStatus ==
    ASSUME TypeOK, NEW want \in SubscriberLists,
           NEW failed \in SUBSET Changes(want),
           UpdateSubscriptions(want, failed),
           NEW u \in Ids(want)
    PROVE  (CreateSubscribableStatus(want, failed)[u] = "true") <=> (u \in Ids(running'))
<1>1. PICK x \in want : x[1] = u
  BY DEF Ids
<1>2. \A y \in want : y[1] = u => y = x
  BY <1>1 DEF SubscriberLists
<1>3. running' = {r \in want : r[1] \in Ids(running)}
                   \cup (Starts(want) \ failed) \cup (Stops(want) \cap failed)
  BY DEF UpdateSubscriptions
<1>0. u \in Subscribers
  BY DEF Ids, SubscriberLists, Subscription
<1>4. (CreateSubscribableStatus(want, failed)[u] = "true")
        <=> ~(\E y \in want \cap failed : y[1] = u)
  BY <1>0 DEF CreateSubscribableStatus
<1>5. \A y \in Stops(want) : y[1] # u
  BY DEF Stops, Ids
<1>6. CASE u \in Ids(running)
  <2>1. ~(\E y \in want \cap failed : y[1] = u)
    BY <1>6, <1>5 DEF Changes, Starts, Ids
  <2>2. u \in Ids(running')
    BY <1>1, <1>3, <1>6 DEF Ids
  <2>3. QED
    BY <1>4, <2>1, <2>2
<1>7. CASE u \notin Ids(running)
  <2>1. x \in Starts(want)
    BY <1>1, <1>7 DEF Starts
  <2>2. CASE x \in failed
    <3>1. \E y \in want \cap failed : y[1] = u
      BY <1>1, <2>2
    <3>2. u \notin Ids(running')
      BY <1>2, <1>3, <1>5, <1>7, <2>2 DEF Starts, Ids
    <3>3. QED
      BY <1>4, <3>1, <3>2
  <2>3. CASE x \notin failed
    <3>1. ~(\E y \in want \cap failed : y[1] = u)
      BY <1>2, <2>3
    <3>2. u \in Ids(running')
      BY <1>1, <1>3, <2>1, <2>3 DEF Ids
    <3>3. QED
      BY <1>4, <3>1, <3>2
  <2>4. QED
    BY <2>2, <2>3
<1>8. QED
  BY <1>6, <1>7

LEMMA ReconcileIInv ==
    ASSUME IInv, Reconcile
    PROVE  ListerCurrent' /\ StatusComputed' /\ QuiescentStatusAccurate'
<1> DEFINE original == lister
<1>1. UNCHANGED <<store, lister, synced>> /\ pc = "idle"
  BY DEF Reconcile
<1>2. ListerCurrent'
  BY <1>1 DEF IInv, ListerCurrent
<1>3. CASE ~original.exists
  <2>1. pc' = "idle"
    BY <1>3 DEF Reconcile
  <2>2. synced => ~store.exists
    BY <1>3 DEF IInv, ListerCurrent
  <2>3. QED
    BY <1>1, <1>2, <2>1, <2>2 DEF StatusComputed, QuiescentStatusAccurate
<1>4. CASE original.exists /\ ~original.status.ready
  BY <1>2, <1>4 DEF Reconcile, StatusComputed, QuiescentStatusAccurate
<1>5. CASE original.exists /\ original.status.ready /\ original.spec = {}
  BY <1>1, <1>2, <1>5 DEF Reconcile, StatusComputed, QuiescentStatusAccurate
<1>6. CASE original.exists /\ original.status.ready /\ original.spec # {}
  <2>1. PICK failed \in SUBSET Changes(original.spec) :
          /\ UpdateSubscriptions(original.spec, failed)
          /\ desired' = [original.status EXCEPT
                           !.subs = CreateSubscribableStatus(original.spec, failed)]
    BY <1>6 DEF Reconcile
  <2>2. original.spec \in SubscriberLists /\ original.status \in Status
    BY DEF IInv, TypeOK, Channel
  <2>3. \A u \in Ids(original.spec) :
          (desired'.subs[u] = "true") <=> (u \in Ids(running'))
    BY <2>1, <2>2, ConvergeStatus DEF IInv, Status
  <2>4. pc' = "status"
    BY <1>6 DEF Reconcile
  <2>5. QED
    BY <1>1, <1>2, <2>3, <2>4 DEF StatusComputed, QuiescentStatusAccurate
<1>7. QED
  BY <1>3, <1>4, <1>5, <1>6

LEMMA UpdateStatusIInv ==
    ASSUME IInv, UpdateStatus
    PROVE  ListerCurrent' /\ StatusComputed' /\ QuiescentStatusAccurate'
<1> DEFINE kc == lister
<1>1. pc = "status" /\ pc' = "idle" /\ UNCHANGED <<lister, desired, running>>
  BY DEF UpdateStatus
<1>2. StatusComputed'
  BY <1>1 DEF StatusComputed
<1>3. CASE queued' /\ UNCHANGED <<store, synced>>
  BY <1>1, <1>2, <1>3 DEF IInv, ListerCurrent, QuiescentStatusAccurate
<1>4. CASE kc.exists /\ kc.status = desired /\ UNCHANGED <<store, synced, queued>>
  <2>1. ListerCurrent'
    BY <1>4, <1>1 DEF IInv, ListerCurrent
  <2>2. QuiescentStatusAccurate'
    <3> SUFFICES ASSUME ~queued, synced, store.exists, store.status.ready, store.spec # {}
                 PROVE  \A u \in Ids(store.spec) :
                          (store.status.subs[u] = "true") <=> (u \in Ids(running))
      BY <1>1, <1>4 DEF QuiescentStatusAccurate
    <3>1. lister = store
      BY DEF IInv, ListerCurrent
    <3>2. QED
      BY <1>1, <1>4, <3>1 DEF IInv, StatusComputed
  <2>3. QED
    BY <1>2, <2>1, <2>2
<1>5. CASE ~synced'
  BY <1>2, <1>5 DEF ListerCurrent, QuiescentStatusAccurate
<1>6. QED
  BY <1>3, <1>4, <1>5 DEF UpdateStatus

LEMMA EnvironmentIInv ==
    ASSUME IInv,
           \/ InformerSync \/ Resync \/ EditSubscribers
           \/ SetChannelReady \/ DeleteChannel \/ RestartDispatcher
    PROVE  ListerCurrent' /\ StatusComputed' /\ QuiescentStatusAccurate'
<1>1. CASE InformerSync
  BY <1>1 DEF InformerSync, ListerCurrent, StatusComputed, QuiescentStatusAccurate
<1>2. CASE Resync
  BY <1>2 DEF Resync, IInv, ListerCurrent, StatusComputed, QuiescentStatusAccurate
<1>3. CASE EditSubscribers \/ SetChannelReady \/ DeleteChannel
  <2>1. ~synced' /\ UNCHANGED <<lister, queued, pc, desired, running>>
    BY <1>3 DEF EditSubscribers, SetChannelReady, DeleteChannel
  <2>2. QED
    BY <2>1 DEF IInv, ListerCurrent, StatusComputed, QuiescentStatusAccurate
<1>4. CASE RestartDispatcher
  BY <1>4 DEF RestartDispatcher, ListerCurrent, StatusComputed, QuiescentStatusAccurate
<1>5. QED
  BY <1>1, <1>2, <1>3, <1>4

LEMMA NextIInv == IInv /\ [Next]_vars => IInv'
<1> SUFFICES ASSUME IInv, [Next]_vars PROVE IInv'
  OBVIOUS
<1>1. TypeOK'
  BY NextTypeOK DEF IInv
<1>2. ListerCurrent' /\ StatusComputed' /\ QuiescentStatusAccurate'
  <2>1. CASE UNCHANGED vars
    BY <2>1 DEF vars, IInv, ListerCurrent, StatusComputed, QuiescentStatusAccurate
  <2>2. QED
    BY <2>1, ReconcileIInv, UpdateStatusIInv, EnvironmentIInv DEF Next
<1>3. QED
  BY <1>1, <1>2 DEF IInv

\* Spec sections 4.3 and 7: whenever the worker is idle, nothing is queued
\* and the lister has seen every write, the SubscriberStatus the reconciler
\* published says Ready exactly for the declared subscribers whose consumer
\* group runs, for every set of subscribers and URIs.
THEOREM StatusAccuracy == Spec => []QuiescentStatusAccurate
<1>1. Init => IInv
  BY InitTypeOK DEF Init, IInv, ListerCurrent, StatusComputed, QuiescentStatusAccurate
<1>2. QED
  BY <1>1, NextIInv, PTL DEF Spec, IInv

=============================================================================
