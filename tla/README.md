# TLA+ models of knative-kafka's control plane

This directory holds TLA+ models of the two control-plane parts of knative-kafka
that hold state and make decisions:

* the **Azure EventHub namespace cache** that places new topics;
* the **dispatcher's KafkaChannel reconciler** that keeps consumer groups and
  subscriber status in line with a channel.

It also holds TLC configurations that model-check the models on small
instances, and TLAPS proofs of their main safety properties for every value of
the constants.

## The system

| Part | Source | Role |
|------|--------|------|
| Namespace capacity cache | `src/components/controller/vendor/.../eventhubcache/cache.go` | `namespaceMap` (name → `*Namespace`) and `eventhubMap` (event hub → `*Namespace`), with `Namespace.Count`. `Update` rebuilds them from the Kafka secrets and the Azure listing. `AddEventHub`/`RemoveEventHub` keep the counts. `GetNamespaceWithMaxCapacity` picks the least-loaded namespace below `MaxEventHubsPerNamespace`. |
| Topic provisioning (controller) | not under `src/` | Calls `GetNamespaceWithMaxCapacity`, creates the event hub in Azure, then calls `AddEventHub`. Deletes event hubs and calls `RemoveEventHub`. |
| Dispatcher KafkaChannel reconciler | `src/components/dispatcher/internal/controller/kafkachannel.go` | Per workqueue key: reads the channel from the informer's lister, requires Ready, and converges the dispatcher's consumer groups to the declared subscribers. Then it builds the per-subscriber status and writes it with `UpdateStatus` when it changed. |
| Dispatcher subscription manager | not under `src/` | `UpdateSubscriptions` starts the missing consumer groups and stops the surplus ones. It returns the failed ones. |
| SinkBinding types, Helm values, ServiceMonitor, README | `src/...` | Declarations and configuration; nothing to model. |

How the parts interact:

* The cache is consulted only by the provisioning path, never by the dispatcher.
* The reconciler talks to four other actors:
  * the API server, where the channel is stored and where other controllers
    write too;
  * the informer, which copies the channel into the lister with a delay and
    enqueues its key;
  * the workqueue, which holds a key at most once and requeues it when
    Reconcile returns an error;
  * the subscription manager.

## Modules

### `EventHubCache` (cache.go, with the provisioning caller)

**State.**

* The Go maps hold pointers. A `*Namespace` is a struct identity, an element of
  `Obj == Namespaces \X (1..MaxUpdates) \X BOOLEAN`: the name, the number of the
  `Update` call that allocated it, and whether its `List` succeeded.
* `count` is `Namespace.Count` of every identity.
* `hubNs` is Azure's own record of where each event hub lives.
* `secrets` is the list of Kafka secrets in the namespace, in order. A secret is
  a namespace name or `InvalidSecret` (one of the four fields empty, i.e.
  `validateKafkaSecret`).

**Actions.**

* `Update(failAt)` is the whole loop of `Cache.Update` in one step, in closed
  form:
  * secrets before the first invalid one are applied;
  * the secret whose `List` fails gets its new struct into `namespaceMap` (line
    86) with Count 0, and the loop stops;
  * nothing is removed and nothing is rolled back.
* `AddEventHub` and `RemoveEventHub` are the methods, used inside
  `FinishProvision` and `Deprovision`.
* `StartProvision`, `ScanNamespace` and `FinishProvision` model the loop of
  `GetNamespaceWithMaxCapacity`:
  * `StartProvision` initialises it (nil candidate, all non-nil values of
    `namespaceMap` still to visit);
  * each `ScanNamespace` step is one iteration, on any namespace not yet
    visited. Go's map order is unspecified. The five disjuncts are the branches
    at lines 151–167: take, skip full, `break` on Count 0, better, worse;
  * `FinishProvision` returns the candidate. Then there are three outcomes: no
    namespace, the Azure create fails, or the create succeeds and
    `AddEventHub` follows. Azure enforces its own limit per namespace
    (`AzureHasRoom`): a create in a namespace Azure counts as full fails.
    The caller of the cache is not under `src/`; this step is modelled from
    spec §4.1 and §6.
* `ChangeSecrets` (an operator edits the secrets) and `Restart` (a controller
  restart: `NewCache`, while Azure keeps its state) are the environment.

**Invariants.**

* `CountMatchesEntries`: the Count of every referenced struct equals the number
  of `eventhubMap` entries pointing to it (spec §3).
* `SelectionCorrect`: when the scan ends, its result is below capacity with the
  least Count of the cache, or nil when all are full (spec §8).
* `SelectedHasRoom` (spec §4.1, §8): the namespace the scan returns has room
  in Azure, so the create that follows can succeed. The cache's view of a
  namespace's load must not understate what Azure hosts there.
* `ReverseIndexLive` (spec §3): every `eventhubMap` entry points to the struct
  `namespaceMap` holds for its name.
* The code violates `SelectedHasRoom` and `ReverseIndexLive`; see Findings.

### `EventHubPlacement` (what the cache promises)

This is the abstract specification. `GetNamespaceWithMaxCapacity` followed by
the create and `AddEventHub` is one atomic `Provision(h)` step:

* the hub is placed in a namespace of `LeastLoaded`, i.e. a live namespace below
  capacity whose Count is no greater than that of any live namespace, and in
  which Azure has room;
* ties are broken arbitrarily.

A call that finds nothing, or whose Azure create fails, is a stuttering step.
The other operations (`Update`, `Deprovision`, secret changes, restarts) are
those of `EventHubCache`. The module reuses them through
`INSTANCE EventHubCache WITH prov <- NoCall`, with no call in progress.

The refinement mapping is the identity on the cache variables; it hides
`prov`. Under it:

* `StartProvision`, every `ScanNamespace` step and the two failing outcomes of
  `FinishProvision` are stuttering steps;
* the successful outcome is `Provision(prov.hub)`;
* every other action is the same action of the abstract specification.

### `ConcurrentProvisioning` (cache.go with concurrent workers)

The same cache shared by a set of `Workers` with no lock, as in the code.

* Each worker has its own loop state `wk[w]` (the `prov` of `EventHubCache`).
  Its `ScanNamespace(w)` steps read the Counts as the other workers' steps have
  left them.
* A worker holds one channel key at a time, so two workers never provision the
  same hub.
* The cache operations are `EventHubCache`'s, taken through `INSTANCE`, except
  `AddEventHub`. It is two steps, as its `namespace.Count = namespace.Count + 1`
  is in the code:
  * `FinishProvision(w)` ends the loop. It either fails (no namespace, or the
    Azure create fails, which it must when Azure counts the namespace full),
    or creates the hub in Azure and enters `AddEventHub`. Then the capacity
    check either finds Count at the maximum (the hub stays unrecorded), or
    reads a Count below it, kept in `seen[w]`;
  * `AddEventHubWrite(w)` writes `seen[w] + 1` and the map entry.

  The Azure create is taken with the read. No other step reads the Azure state
  of a hub that a worker holds, so the merge cannot be observed. The loads of
  lines 116 and 117 race with the other workers' writes, and the compiler may
  take both from one load; the model takes that outcome. `RemoveEventHub`
  stays one step. A decrement between another worker's read and write is
  enough to lose an update.
* `Update` runs only while no loop is in progress. A `range` over
  `namespaceMap` concurrent with a write to it is a fatal error of the Go
  runtime.

### `ChannelReconciler` (kafkachannel.go, with the dispatcher and the environment)

**State.**

* `store` is the channel in the API server: whether it exists, its declared
  subscribers, and its status (Ready, plus per subscriber `none`/`true`/`false`).
  * The declared subscribers are a set of Subscriptions
    `<<uid, URI>>` with at most one per UID (`SubscriberLists`). This is
    `dispatcher.Subscription{URI, GroupId "kafka.<uid>"}`.
* `lister` is the informer's copy. `synced` says whether that copy carries the
  current resourceVersion; every accepted write clears it.
* `queued` is the workqueue key.
* `pc` and `desired` hold the status computed between `reconcile` and
  `updateStatus`.
* `running` is the set of Subscriptions the dispatcher runs a consumer group
  for, each with the URI it delivers to.
* `ctrlReady` is the Ready value the channel controller last wrote.

**Actions.**

* `Reconcile` covers lines 85–157:
  * not found: done;
  * not Ready: error, so the key is requeued;
  * nil subscribers: no `UpdateSubscriptions`;
  * otherwise `UpdateSubscriptions` with any subset of the changes failing,
    then `createSubscribableStatus`.
    * Following spec §4.2, `UpdateSubscriptions` compares by consumer group
      (`Starts`, `Stops`). A group that runs and is still declared takes the
      declared URI in place, without a restart: spec §9 records that the
      observed behaviour keys by identifier only.
    * `createSubscribableStatus` looks a failure up by the Subscription
      built from the declared URI and UID.
  
  The error of `reconcile` is only recorded as an event (lines 119–126), so it
  does not requeue.
* `UpdateStatus` covers lines 181–196 and 128–134:
  * the second lister read: a NotFound is returned and requeued;
  * skip the write when the status is equal;
  * otherwise write the computed status onto the lister copy. The write is
    accepted only if that copy is current; a conflict is returned and
    requeued. Any other API error is also returned and requeued (bounded by
    `MaxFailures`).
* The environment:
  * `InformerSync`: the lister catches up and the key is enqueued (`HandleAll`);
  * `Resync`: the informer's periodic resync;
  * `EditSubscribers`: the eventing subscription controller;
  * `SetChannelReady`: the channel controller;
  * `DeleteChannel`;
  * `RestartDispatcher`: the pod restarts and its consumer groups are lost.

An emptied subscriber list is modelled as nil: it is serialised with `omitempty`,
so it comes back absent.

**Properties.**

* `QuiescentStatusAccurate`: once nothing is queued and the lister has caught
  up, the status says Ready exactly for the declared subscribers whose
  consumer group runs.
* `EventuallyRunning`: from some point on, a Ready channel with subscribers
  has exactly its declared consumer groups running, all reported Ready.
* `RemovedStopped` (spec §8 end-to-end scenario) and `ReadyNotReverted` are
  violated; see Findings.

**Fairness.**

* Weak fairness of `Reconcile`, `UpdateStatus` and `InformerSync`. The
  workqueue worker and the informer run as long as they have work.
* `Spec` adds weak fairness of `Resync`. Knative's informer factories resync
  every key periodically.
* `SpecNoResync` leaves the resync out, to show what the code relies on it for.

The environment is not fair, and it is bounded by `MaxEdits` (edits, Ready
flips, deletions and restarts). Subscription failures are bounded by
`MaxFailures` (the number of `UpdateSubscriptions` calls and status writes
that fail). Without these bounds, no progress property could hold.
`EventuallyRunning` also rests on the resync: a start that fails again with the
same error leaves the status unchanged, so no write and no event follow. That
is what finding 4 shows.

## Runs

| Run | cfg | Expect | What it shows |
|-----|-----|--------|---------------|
| eventhub_cache | `MC_EventHubCache.cfg` | pass | `TypeOK`, `CountMatchesEntries`, `SelectionCorrect` through Updates with invalid secrets and failing Lists, provisioning in every iteration order, deletions and restarts (550k distinct states) |
| placement_refinement | `MC_EventHubCache_Placement.cfg` | pass | `ImplementsPlacement == Placement!Spec`: the cache implements `EventHubPlacement` (`MaxUpdates = 2`, no symmetry, 313k distinct states) |
| full_namespace_selected_after_failed_list | `MC_EventHubCache_SelectedHasRoom.cfg` | violation | `SelectedHasRoom` |
| reverse_index_after_failed_list | `MC_EventHubCache_ReverseIndexLive.cfg` | violation | `ReverseIndexLive` |
| channel_reconciler | `MC_ChannelReconciler.cfg` | pass | `QuiescentStatusAccurate`, `EventuallyRunning`, with URI changes and failed status writes (755k distinct states) |
| last_subscriber_removed | `MC_ChannelReconciler_RemovedStopped.cfg` | violation | `RemovedStopped` |
| ready_condition_reverted | `MC_ChannelReconciler_ReadyNotReverted.cfg` | violation | `ReadyNotReverted` |
| failed_start_without_resync | `MC_ChannelReconciler_NoResync.cfg` | violation | `EventuallyRunning` under `SpecNoResync` |
| lost_count_update | `MC_ConcurrentProvisioning_Count.cfg` | violation | `CountMatchesEntries` with 2 workers, 2 namespaces and 3 hubs: an overlapping `RemoveEventHub` is lost |

**Bounds of the cache runs.**

* 2 namespaces, 3 event hubs, `MaxEventHubsPerNamespace = 2`, up to 2 secrets
  and 3 `Update` calls.
* This is enough for:
  * a namespace to be full while another is not;
  * all three hubs to be placed;
  * two secrets to name the same namespace;
  * an invalid secret after a valid one;
  * a `List` failure after a successful one;
  * two Updates separated by provisioning.
* Namespaces and event hubs are symmetric model values.

**Bounds of the reconciler runs.**

* 2 subscribers, 2 URIs, `MaxEdits = 3`, `MaxFailures = 2`.
* Two URIs let an edit change a subscriber's URI without changing its
  identity.
* `MaxFailures = 2` lets the same start fail twice, which the resync finding
  needs.
* `MaxEdits = 3` allows an edit, a Ready flip and a restart in one behaviour.
* No symmetry is used, because the runs check liveness.

Each property of a passing run has a mutant in `PROJECT.json` that TLC must
find violated:

| Mutant | Kills |
|--------|-------|
| the scan without its nil check | `TypeOK` |
| `RemoveEventHub` without the decrement | `CountMatchesEntries` |
| the scan taking a full namespace | `SelectionCorrect` |
| `createSubscribableStatus` ignoring failures | `QuiescentStatusAccurate` |
| `UpdateSubscriptions` that never stops | `EventuallyRunning` |
| the scan keeping the most loaded namespace | `ImplementsPlacement` |

## Findings

1. **A failed `List` leaves an empty-looking namespace** (`cache.go:86`).
   `Update` stores the new struct before `List`. On a `List` error the cache
   holds that namespace with Count 0 although Azure already hosts event hubs
   there. The scan prefers it (Count 0 ends the loop) even when Azure has no
   room in it, and the create of the new event hub fails although another
   namespace had room. This repeats until an `Update` succeeds. With every
   `List` succeeding, TLC finds no violation of `SelectedHasRoom`.
   * Also: event hubs keep pointing to the replaced struct, so `ReverseIndexLive`
     fails.
   * Spec §4.1 says `Update` does not partially apply.
2. **Removing the last subscriber never stops it** (`kafkachannel.go:138`).
   The nil list returns before `UpdateSubscriptions`. Spec §4.3 step 4 permits
   this; the end-to-end scenario of §8 contradicts it.
3. **The Ready condition can be reverted** (`kafkachannel.go:182–194`).
   `updateStatus` writes the status read at line 97 onto the newer lister copy
   read at line 182. That copy passes the resourceVersion check, so a Ready
   change made by the channel controller in between is undone. The same
   mechanism lets the nil-subscriber path keep rewriting an old status, which is
   why the model tracks resourceVersions as `synced` and not as a counter.
4. **Failed subscriptions are not requeued** (`kafkachannel.go:119–134`).
   The error of `reconcile` is not returned. When a start fails again and the
   status already says "false", nothing triggers another attempt except the
   periodic resync. `EventuallyRunning` holds under `Spec` and fails under
   `SpecNoResync`. Spec §7 says such failures requeue the resource.

5. **Concurrent `AddEventHub` and `RemoveEventHub` lose an update of Count**
   (`cache.go:117`). `AddEventHub` reads `namespace.Count`, checks it and
   writes `Count + 1`, all without a lock. In the trace found by TLC:
   * worker 1's `AddEventHub` reads Count 1;
   * another worker's `RemoveEventHub` on the same namespace takes it to 0;
   * worker 1 then writes 2.

   One event hub points to the namespace, and its Count says 2. A second
   `AddEventHub` in the same window loses an increment in the same way.
   `CountMatchesEntries` holds when the calls are serialised: it is proved for
   `EventHubCache` (`CountCorrect`).

## Proofs (TLAPS)

`EventHubCache_proofs`:

* `TypeCorrect: Spec => []TypeOK`, for every finite set of namespaces and event
  hubs and every bound. There is one lemma per action, and `NextTypeOK`
  combines them. `Update`'s lemma rests on `ReachedSecretIsNamespace`: a
  secret before the first invalid one is a namespace name.
* `SelectionCorrectness: Spec => []SelectionCorrect`.
  * `SelectionCorrect` only speaks of the end of the scan, so it is not
    inductive.
  * The inductive invariant is `IInv == TypeOK /\ ScanInv`. `ScanInv` says what
    the loop has established so far:
    * the namespaces still to visit are live;
    * if there is no candidate, every visited namespace is full;
    * otherwise the candidate is live, below capacity, and no more loaded than
      any visited namespace.
  * TLC checked `IInv` as an invariant (340k states) before the proof.
  * `ScanNamespaceScanInv` proves the step for each of the five branches of
    the loop. The `break` on Count 0 is sound because counts are natural
    numbers.
  * The other actions either keep the loop idle, or leave `namespaceMap` and
    `count` unchanged while it runs (`NextScanInv`).

* `Refinement: Spec => Placement!Spec`, where
  `Placement == INSTANCE EventHubPlacement`. The proof follows the usual
  layout:
  * `Init => Placement!Init`;
  * `IInv /\ [Next]_vars => [Placement!Next]_avars` (`NextRefines`), with one
    case per action;
  * `PTL` combines them.
  * The key step is `FinishProvisionRefines`. The recorded namespace is in
    `LeastLoaded` because `ScanInv` at the end of the loop says so. The hub is
    still unplaced because `ScanInv` also records that `hubNs[prov.hub] = Nil`
    during the loop, a conjunct added for this proof.
  * `PlacementCardinality` identifies the `Cardinality` reached through the
    double instance with that of `FiniteSets`.

`ChannelReconciler_proofs`:

* `TypeCorrect: Spec => []TypeOK`, with one lemma per action.
* `StatusAccuracy: Spec => []QuiescentStatusAccurate`, for every set of
  subscribers and URIs. The inductive invariant adds two conjuncts to
  `TypeOK` and the property:
  * `ListerCurrent`: `synced => lister = store`;
  * `StatusComputed`: between `reconcile` and `updateStatus`, with nothing
    queued, the computed status matches `running` for the subscribers of
    the lister copy.

  The core is `ConvergeStatus`: the dispatcher attempts, and can fail, a
  start only for the declared Subscription of a subscriber whose group is not
  running, so the lookup by URI and UID finds exactly the failed starts.
  Quiescence is only entered by the "status unchanged" branch of
  `updateStatus`. There `ListerCurrent` makes the lister copy the stored
  channel, and `StatusComputed` gives the result.

`EventHubCache_CountProofs`:

* `CountCorrect: Spec => []CountMatchesEntries`, for every value of the
  constants.
  * `CountMatchesEntries` is not inductive. `Update` re-points the event hubs
    of a listed namespace to a new struct, and leaves the Count of the old
    struct as it was. That is harmless only because no map points to the old
    struct any more. The proof has to know why.
  * The strengthening `StructsWellFormed` records where pointers come from:
    * `namespaceMap[n]` was allocated for `n`;
    * `eventhubMap[h]` was allocated for the namespace Azure hosts `h` in;
    * both were allocated by an `Update` already done (index `<= updates`).
  * The inductive invariant is
    `CInv == IInv /\ StructsWellFormed /\ CountMatchesEntries`. TLC checked
    it on the `eventhub_cache` instance (692k states) before the proof.
  * `UpdateCount` is the core, and splits on the struct `o`:
    * `o` is new and of a listed namespace: its entries are exactly the hubs
      Azure lists there, which is the Count `Update` gives it.
    * `o` is new otherwise: it has no entries and Count 0.
    * `o` is old: a hub re-pointed away from it would make its namespace
      listed, and then neither map could still reference it. So its entries
      and its Count are unchanged.
  * `FinishProvisionCount` covers `AddEventHub` after the scan. The candidate
    is referenced, and the hub is unmapped because Azure does not host it
    (`ProvHubUnmapped`). `DeprovisionCount` covers `RemoveEventHub`: a
    referenced struct that a hub points to has Count at least 1, so the
    decrement applies. Both rest on `FS_AddElement` and `FS_RemoveElement`
    of `FiniteSetTheorems`.

Assumptions used:

* the sets of namespaces, event hubs and subscribers are finite;
* `Nil` is not a namespace or event hub name;
* `MaxEventHubsPerNamespace` is a positive natural number;
* the other bounds are natural numbers.

**Checked only by TLC.**

* Every safety invariant of the passing runs is proved. The refinement of
  `EventHubPlacement` is proved too.
* Liveness under fairness (`EventuallyRunning`, `RemovedStopped`) is beyond
  TLAPS here.

## Not modelled

* **Separate loads of `Count`.** `ConcurrentProvisioning` reads Count once
  in `AddEventHub`, for both the check and the increment, and makes `Count--`
  one step. A compiler may load the field twice. That adds interleavings but
  no new kind of failure beyond finding 5.
* **Repeated failures with different messages.** A start that fails again
  is assumed to fail with the same message, so the status stays equal and
  is not rewritten. A different message would change the status, and the
  write would requeue.
* **Subscriber generations.** `ObservedGeneration` is copied from the spec
  and not modelled.
* **The `ChannelKey` filter.** The model has one channel, owned by this
  dispatcher.
* **Recorder events, logging, the HTTP ingress, and the Helm and vendored
  types.**

## Plan

Done so far:

* the cache with its provisioning caller;
* the reconciler with the dispatcher and its environment;
* both type invariants and the selection invariant, proved;
* the abstract placement specification, with its refinement checked by TLC and
  proved by TLAPS;
* concurrent workers on the cache;
* subscriber URIs, and `QuiescentStatusAccurate`, proved;
* `CountMatchesEntries` proved (`CountCorrect`);
* `AddEventHub` split into a read and a write, with the lost update found;
* Azure's limit per namespace enforced on every create, and transient
  `UpdateStatus` errors modelled.

Next:

1. An abstract "converge" specification of the subscription manager, with
   `ChannelReconciler` shown to refine it.
2. Proofs about `ConcurrentProvisioning`: type correctness, and the
   invariants that hold without a lock.
