-------------------------- MODULE ChannelReconciler --------------------------
(***************************************************************************)
(* The KafkaChannel reconciler of the knative-kafka dispatcher            *)
(* (components/dispatcher/internal/controller/kafkachannel.go), with the  *)
(* resources it interacts with: the KafkaChannel in the API server, the   *)
(* informer's lister copy of it, the workqueue key, the dispatcher's      *)
(* running consumer groups, and the channel controller that writes the    *)
(* channel's Ready condition.                                              *)
(*                                                                         *)
(* A subscriber is a model value (its UID); its dispatcher Subscription    *)
(* {URI, GroupId "kafka.<uid>"} is the pair <<uid, URI>>.  The channel's   *)
(* status holds the Ready condition and, per subscriber, "none" (no        *)
(* SubscriberStatus), "true" or "false".                                   *)
(* A declared subscriber list that is empty reaches the dispatcher as     *)
(* nil: the list is written with omitempty, so an empty list is absent.   *)
(***************************************************************************)
EXTENDS Naturals, FiniteSets

CONSTANTS
    Subscribers,   \* subscriber UIDs
    URIs,          \* subscriber URIs
    MaxEdits,      \* bound on the steps of other actors: writes of other
                   \* controllers, deletion, dispatcher restarts
    MaxFailures    \* bound on the calls that fail: Converge calls in which a
                   \* start/stop fails, and status writes the API server fails

ASSUME SubscribersAssumption == IsFiniteSet(Subscribers) /\ URIs # {}
ASSUME BoundsAssumption == MaxEdits \in Nat /\ MaxFailures \in Nat

VARIABLES
    store,      \* the KafkaChannel in the API server
    lister,     \* the informer's copy of it (kafkachannelLister)
    synced,     \* the lister's copy has the current resourceVersion
    queued,     \* the channel key is in the workqueue
    pc,         \* the worker: "idle" or "status" (between reconcile and updateStatus)
    desired,    \* the channel status Reconcile computed (channel.Status)
    running,    \* the Subscriptions the dispatcher runs a consumer group for
    edits,      \* steps of other actors so far
    failures,   \* failed Converge calls and failed status writes so far
    ctrlReady   \* the Ready condition the channel controller last wrote

vars == <<store, lister, synced, queued, pc, desired, running, edits, failures, ctrlReady>>

Subscription == Subscribers \X URIs

\* A declared subscriber list: at most one entry per UID.
SubscriberLists ==
    {S \in SUBSET Subscription : \A a, b \in S : a[1] = b[1] => a = b}

\* The UIDs (consumer-group identities) of a set of Subscriptions.
Ids(S) == {x[1] : x \in S}

SubStatus == [Subscribers -> {"none", "true", "false"}]
Status == [ready : BOOLEAN, subs : SubStatus]
Channel == [exists : BOOLEAN, spec : SubscriberLists, status : Status]
NoSubStatus == [u \in Subscribers |-> "none"]

TypeOK ==
    /\ store \in Channel
    /\ lister \in Channel
    /\ synced \in BOOLEAN
    /\ queued \in BOOLEAN
    /\ pc \in {"idle", "status"}
    /\ desired \in Status
    /\ running \in SUBSET Subscription
    /\ edits \in 0..MaxEdits
    /\ failures \in 0..MaxFailures
    /\ ctrlReady \in BOOLEAN

\* The informer has synced before the workers start, and its initial list
\* enqueues the key.  A fresh dispatcher runs no consumer group.
Init ==
    /\ \E s \in SubscriberLists, r \in BOOLEAN :
         store = [exists |-> TRUE, spec |-> s,
                  status |-> [ready |-> r, subs |-> NoSubStatus]]
    /\ lister = store
    /\ synced = TRUE
    /\ queued = TRUE
    /\ pc = "idle"
    /\ desired = store.status
    /\ running = {}
    /\ edits = 0
    /\ failures = 0
    /\ ctrlReady = store.status.ready

-----------------------------------------------------------------------------
(* The dispatcher                                                          *)

\* The dispatcher compares subscriptions by consumer group, not by URI.
Starts(want) == {x \in want : x[1] \notin Ids(running)}
Stops(want) == {x \in running : x[1] \notin Ids(want)}

\* Mutant: the subscriptions that are no longer desired are not stopped.
UpdateSubscriptionsNoStop(want, failed) ==
    running' = {x \in want : x[1] \in Ids(running)}
                 \cup (Starts(want) \ failed)
                 \cup Stops(want)

\* dispatcher.UpdateSubscriptions(subscriptions): start a consumer group for
\* every desired subscription whose group is not running, stop every
\* running group not desired; each start or stop may fail independently,
\* and the failed Subscriptions are returned.  A failed start leaves the
\* group stopped, a failed stop leaves it running.  A group that runs and
\* is still desired takes the desired URI in place, without a restart
\* (spec section 9: identity is the consumer group alone).
UpdateSubscriptions(want, failed) ==
    running' = {x \in want : x[1] \in Ids(running)}
                 \cup (Starts(want) \ failed)
                 \cup (Stops(want) \cap failed)

\* The subscriptions a Converge call may fail on.
Changes(want) == Starts(want) \cup Stops(want)

\* Mutant: every declared subscriber is reported Ready.
CreateSubscribableStatusIgnoringFailures(spec, failed) ==
    [u \in Subscribers |-> IF u \notin Ids(spec) THEN "none" ELSE "true"]

\* createSubscribableStatus: a SubscriberStatus per declared subscriber,
\* Ready "false" when the Subscription built from its URI and UID is a key
\* of the failed ones.
CreateSubscribableStatus(spec, failed) ==
    [u \in Subscribers |-> IF u \notin Ids(spec) THEN "none"
                           ELSE IF \E x \in spec \cap failed : x[1] = u
                                THEN "false" ELSE "true"]

-----------------------------------------------------------------------------
(* The reconciler                                                          *)

\* Reconcile up to updateStatus: Get from the lister (NotFound: done);
\* a channel that is not Ready is an error and the key is requeued;
\* reconcile converges the dispatcher unless the subscriber list is nil.
\* The error reconcile returns is only recorded as an event.
Reconcile ==
    LET original == lister IN
    /\ pc = "idle"
    /\ queued
    /\ \/ /\ ~original.exists
          /\ queued' = FALSE
          /\ UNCHANGED <<pc, desired, running, failures>>
       \/ /\ original.exists /\ ~original.status.ready
          /\ queued' = TRUE
          /\ UNCHANGED <<pc, desired, running, failures>>
       \/ /\ original.exists /\ original.status.ready
          /\ original.spec = {}
          /\ queued' = FALSE
          /\ pc' = "status"
          /\ desired' = original.status
          /\ UNCHANGED <<running, failures>>
       \/ /\ original.exists /\ original.status.ready
          /\ original.spec # {}
          /\ \E failed \in SUBSET Changes(original.spec) :
               /\ failed # {} => failures < MaxFailures
               /\ failures' = IF failed = {} THEN failures ELSE failures + 1
               /\ UpdateSubscriptions(original.spec, failed)
               /\ desired' = [original.status EXCEPT
                                !.subs = CreateSubscribableStatus(original.spec, failed)]
          /\ queued' = FALSE
          /\ pc' = "status"
    /\ UNCHANGED <<store, lister, synced, edits, ctrlReady>>

\* updateStatus, and the end of Reconcile: Get the channel from the lister
\* again (an error is returned and the key requeued), skip the write when
\* its status already equals the computed one, else UpdateStatus a copy of
\* the lister's channel carrying the computed status.  The API server
\* rejects the write when the copy's resourceVersion is not current, and
\* may fail it for any other reason (the key is requeued either way); a
\* write it accepts gives the channel a new resourceVersion.
UpdateStatus ==
    LET kc == lister IN
    /\ pc = "status"
    /\ pc' = "idle"
    /\ \/ /\ ~kc.exists
          /\ queued' = TRUE
          /\ UNCHANGED <<store, synced, failures>>
       \/ /\ kc.exists /\ kc.status = desired
          /\ UNCHANGED <<store, synced, queued, failures>>
       \/ /\ kc.exists /\ kc.status # desired
          /\ synced
          /\ store' = [store EXCEPT !.status = desired]
          /\ synced' = FALSE
          /\ UNCHANGED <<queued, failures>>
       \/ /\ kc.exists /\ kc.status # desired
          /\ ~synced
          /\ queued' = TRUE
          /\ UNCHANGED <<store, synced, failures>>
       \/ /\ kc.exists /\ kc.status # desired
          /\ failures < MaxFailures
          /\ failures' = failures + 1
          /\ queued' = TRUE
          /\ UNCHANGED <<store, synced>>
    /\ UNCHANGED <<lister, desired, running, edits, ctrlReady>>

-----------------------------------------------------------------------------
(* The environment                                                         *)

\* The informer delivers the current channel to the lister and enqueues
\* its key (HandleAll on add, update and delete).
InformerSync ==
    /\ ~synced
    /\ lister' = store
    /\ synced' = TRUE
    /\ queued' = TRUE
    /\ UNCHANGED <<store, pc, desired, running, edits, failures, ctrlReady>>

\* The informer's periodic resync enqueues the key again.
Resync ==
    /\ ~queued
    /\ queued' = TRUE
    /\ UNCHANGED <<store, lister, synced, pc, desired, running, edits, failures, ctrlReady>>

\* The eventing subscription controller changes the declared subscribers.
EditSubscribers ==
    /\ store.exists /\ edits < MaxEdits
    /\ \E s \in SubscriberLists :
         /\ s # store.spec
         /\ store' = [store EXCEPT !.spec = s]
    /\ synced' = FALSE
    /\ edits' = edits + 1
    /\ UNCHANGED <<lister, queued, pc, desired, running, failures, ctrlReady>>

\* The channel controller sets the channel's Ready condition (its topic
\* was created, or was lost).
SetChannelReady ==
    /\ store.exists /\ edits < MaxEdits
    /\ store' = [store EXCEPT !.status.ready = ~@]
    /\ synced' = FALSE
    /\ ctrlReady' = ~store.status.ready
    /\ edits' = edits + 1
    /\ UNCHANGED <<lister, queued, pc, desired, running, failures>>

\* The KafkaChannel is deleted.
DeleteChannel ==
    /\ store.exists /\ edits < MaxEdits
    /\ store' = [store EXCEPT !.exists = FALSE]
    /\ synced' = FALSE
    /\ edits' = edits + 1
    /\ UNCHANGED <<lister, queued, pc, desired, running, failures, ctrlReady>>

\* The dispatcher pod restarts: its consumer groups are gone, the informer
\* lists the channel again and enqueues it.
RestartDispatcher ==
    /\ edits < MaxEdits
    /\ running' = {}
    /\ lister' = store
    /\ synced' = TRUE
    /\ queued' = TRUE
    /\ pc' = "idle"
    /\ edits' = edits + 1
    /\ UNCHANGED <<store, desired, failures, ctrlReady>>

Next ==
    \/ Reconcile
    \/ UpdateStatus
    \/ InformerSync
    \/ Resync
    \/ EditSubscribers
    \/ SetChannelReady
    \/ DeleteChannel
    \/ RestartDispatcher

\* The workqueue worker and the informer run until they have nothing to
\* do; the informer factory resyncs every key periodically.
Fairness ==
    /\ WF_vars(Reconcile)
    /\ WF_vars(UpdateStatus)
    /\ WF_vars(InformerSync)

Spec == Init /\ [][Next]_vars /\ Fairness /\ WF_vars(Resync)

\* The same system without the periodic resync.
SpecNoResync == Init /\ [][Next]_vars /\ Fairness

-----------------------------------------------------------------------------
(* Properties *)

\* Once the worker is idle, the key is not queued and the lister has caught
\* up with a Ready channel, the SubscriberStatus the reconciler published
\* says Ready exactly for the declared subscribers whose consumer group
\* runs (createSubscribableStatus from the UpdateSubscriptions result,
\* written by updateStatus only when it differs).
QuiescentStatusAccurate ==
    (/\ pc = "idle" /\ ~queued /\ synced
     /\ store.exists /\ store.status.ready /\ store.spec # {})
      => \A u \in Ids(store.spec) :
           (store.status.subs[u] = "true") <=> (u \in Ids(running))

\* Spec sections 4.2 and 7: from some point on, while the channel exists,
\* is Ready and declares subscribers, the dispatcher runs exactly the
\* declared consumer groups and the status reports each of them Ready
\* (failed starts are retried until they succeed).
EventuallyRunning ==
    <>[](store.exists /\ store.status.ready /\ store.spec # {} =>
           /\ Ids(running) = Ids(store.spec)
           /\ \A u \in Ids(store.spec) : store.status.subs[u] = "true")

\* Spec section 8, end-to-end scenario: removing a subscriber makes
\* Converge stop its consumer group, also when it was the last one.
RemovedStopped ==
    <>[](store.exists /\ store.status.ready => Ids(running) \subseteq Ids(store.spec))

\* The Ready condition in the API server is the one the channel controller
\* last wrote: the dispatcher's status write never reverts it.
ReadyNotReverted ==
    store.exists => store.status.ready = ctrlReady

=============================================================================
