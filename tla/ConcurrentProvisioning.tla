----------------------- MODULE ConcurrentProvisioning -----------------------
(***************************************************************************)
(* The EventHub cache shared by several workers of the controller, as it   *)
(* is in cache.go: Cache has no mutex, so the loop of                      *)
(* GetNamespaceWithMaxCapacity of one worker interleaves with the          *)
(* AddEventHub and RemoveEventHub calls of the others.  Each worker        *)
(* provisions the event hub of one channel at a time (the workqueue hands  *)
(* a key to one worker at a time), so two workers never hold the same hub. *)
(*                                                                         *)
(* The cache operations are those of EventHubCache, each one step.  The    *)
(* caller's loop state prov of EventHubCache becomes one record per worker *)
(* in wk.  Update runs only while no loop is in progress: a range over     *)
(* namespaceMap concurrent with its writes is a fatal error of the Go      *)
(* runtime, not a state the cache continues from.                          *)
(*                                                                         *)
(* AddEventHub is two steps: the read of namespace.Count (for the capacity *)
(* check and the increment) and the write of Count + 1 with the map entry. *)
(* Nothing orders the two against the other workers' calls: the loads of   *)
(* lines 116 and 117 are racy, and the compiler may take both from one.    *)
(* The Azure create that precedes AddEventHub is taken with the read: no   *)
(* other step reads the Azure state of a hub a worker holds.               *)
(***************************************************************************)
EXTENDS Naturals, FiniteSets

CONSTANTS Namespaces, EventHubs, MaxEventHubsPerNamespace, MaxSecrets,
          MaxUpdates, InvalidSecret, Nil,
          Workers    \* the controller's reconcile workers

VARIABLES namespaceMap, eventhubMap, count, updates, secrets, hubNs,
          wk,        \* per worker: its provisioning call, as prov of EventHubCache
          seen       \* per worker: the Count its AddEventHub read, or Nil

cvars == <<namespaceMap, eventhubMap, count, updates, secrets, hubNs>>
vars == <<cvars, wk, seen>>

\* The cache with no call of the provisioning path of its own.
C == INSTANCE EventHubCache
       WITH prov <- [pc |-> "idle", hub |-> Nil, left |-> {}, best |-> Nil]

Idle == C!ProvIdle

TypeOK ==
    /\ C!TypeOK
    /\ wk \in [Workers -> C!ProvStates]
    /\ seen \in [Workers -> Nat \cup {Nil}]

Init ==
    /\ C!Init
    /\ wk = [w \in Workers |-> Idle]
    /\ seen = [w \in Workers |-> Nil]

\* No worker is in the loop of GetNamespaceWithMaxCapacity.
NoScan == \A w \in Workers : wk[w].pc = "idle"

Update(f) ==
    /\ NoScan
    /\ C!Update(f)
    /\ UNCHANGED <<wk, seen>>

\* Worker w takes the key of a channel whose event hub does not exist and
\* that no other worker holds, and enters GetNamespaceWithMaxCapacity.
StartProvision(w, h) ==
    /\ wk[w].pc = "idle"
    /\ hubNs[h] = Nil
    /\ \A v \in Workers : wk[v].hub # h
    /\ wk' = [wk EXCEPT ![w] = [pc |-> "scan", hub |-> h, left |-> C!Live, best |-> Nil]]
    /\ UNCHANGED <<cvars, seen>>

\* One iteration of worker w's loop, reading the Counts as they are now.
ScanNamespace(w) ==
    LET best == wk[w].best IN
    /\ wk[w].pc = "scan"
    /\ \E ns \in wk[w].left :
         \/ /\ best = Nil /\ count[ns] < MaxEventHubsPerNamespace
            /\ wk' = [wk EXCEPT ![w].best = ns, ![w].left = @ \ {ns}]
         \/ /\ best = Nil /\ count[ns] >= MaxEventHubsPerNamespace
            /\ wk' = [wk EXCEPT ![w].left = @ \ {ns}]
         \/ /\ best # Nil /\ count[best] = 0
            /\ wk' = [wk EXCEPT ![w].left = {}]
         \/ /\ best # Nil /\ count[best] # 0 /\ count[ns] < count[best]
            /\ wk' = [wk EXCEPT ![w].best = ns, ![w].left = @ \ {ns}]
         \/ /\ best # Nil /\ count[best] # 0 /\ count[ns] >= count[best]
            /\ wk' = [wk EXCEPT ![w].left = @ \ {ns}]
    /\ UNCHANGED <<cvars, seen>>

\* Worker w's loop is over: no namespace (error), or the caller creates
\* the event hub in Azure, which fails (always possible, and certain when
\* the namespace is full in Azure), or succeeds and the caller enters
\* AddEventHub.  Its capacity check finds the namespace full (the hub
\* stays unrecorded), or reads a Count below the maximum, the value the
\* increment of line 117 adds one to.
FinishProvision(w) ==
    LET p == wk[w] IN
    /\ p.pc = "scan"
    /\ p.left = {}
    /\ seen[w] = Nil
    /\ \/ /\ p.best = Nil
          /\ wk' = [wk EXCEPT ![w] = Idle]
          /\ UNCHANGED <<hubNs, seen>>
       \/ /\ p.best # Nil
          /\ wk' = [wk EXCEPT ![w] = Idle]
          /\ UNCHANGED <<hubNs, seen>>
       \/ /\ p.best # Nil /\ C!AzureHasRoom(C!NsName(p.best))
          /\ hubNs' = [hubNs EXCEPT ![p.hub] = C!NsName(p.best)]
          /\ \/ /\ count[p.best] >= MaxEventHubsPerNamespace
                /\ wk' = [wk EXCEPT ![w] = Idle]
                /\ UNCHANGED seen
             \/ /\ count[p.best] < MaxEventHubsPerNamespace
                /\ seen' = [seen EXCEPT ![w] = count[p.best]]
                /\ UNCHANGED wk
    /\ UNCHANGED <<namespaceMap, eventhubMap, count, updates, secrets>>

\* The write of worker w's AddEventHub: Count becomes the value it read
\* plus one, and the event hub is mapped to the namespace.
AddEventHubWrite(w) ==
    LET p == wk[w] IN
    /\ seen[w] # Nil
    /\ count' = [count EXCEPT ![p.best] = seen[w] + 1]
    /\ eventhubMap' = [eventhubMap EXCEPT ![p.hub] = p.best]
    /\ wk' = [wk EXCEPT ![w] = Idle]
    /\ seen' = [seen EXCEPT ![w] = Nil]
    /\ UNCHANGED <<namespaceMap, updates, secrets, hubNs>>

\* A worker deletes the event hub of a deleted channel and removes it from
\* the cache, while other workers may be in their loops.
Deprovision(h) ==
    /\ \A v \in Workers : wk[v].hub # h
    /\ C!Deprovision(h)
    /\ UNCHANGED <<wk, seen>>

ChangeSecrets ==
    /\ C!ChangeSecrets
    /\ UNCHANGED <<wk, seen>>

\* The controller restarts: every call in progress is lost.
Restart ==
    /\ C!Restart
    /\ wk' = [w \in Workers |-> Idle]
    /\ seen' = [w \in Workers |-> Nil]

Next ==
    \/ \E f \in 0..MaxSecrets : Update(f)
    \/ \E w \in Workers, h \in EventHubs : StartProvision(w, h)
    \/ \E w \in Workers : ScanNamespace(w)
    \/ \E w \in Workers : FinishProvision(w)
    \/ \E w \in Workers : AddEventHubWrite(w)
    \/ \E h \in EventHubs : Deprovision(h)
    \/ ChangeSecrets
    \/ Restart

Spec == Init /\ [][Next]_vars

-----------------------------------------------------------------------------

\* Spec section 3, with the workers of section 5: the Count of every
\* Namespace struct the cache references equals the number of eventhubMap
\* entries pointing to it, also when AddEventHub and RemoveEventHub calls of
\* different workers on the same namespace overlap.
CountMatchesEntries == C!CountMatchesEntries

=============================================================================
