# NamespaceClass controller: models, checks and proofs

A `NamespaceClass` lists Kubernetes resources. Every namespace with the label
`namespaceclass.akuity.io/name` is to have the resources of the class it names.
One controller sees to it and keeps, per namespace, a `NamespaceClassBinding`
whose `status.inventory` records what it has made, so that it can be taken away
again. This directory holds a TLA+ model of that controller, the TLC runs that
check it, and TLAPS proofs about it.

## The system

| component | state | operations |
|---|---|---|
| namespace reconciler, `internal/controller` | the locals of one call of `Reconcile`; the workqueue | passes over a namespace: attach, switch, detach, clean up |
| API objects, `api/v1alpha1` | namespace label, finalizer, UID; class resources; binding class, inventory, Ready reason; ownership label and annotation | read and written by everybody |
| API server, informers | live objects, resourceVersions; lagging caches | Get (live or cached), Create, Update, Status().Update, Apply, Delete; watch events |
| users, other field managers | - | label, unlabel, delete namespaces; edit classes; delete bindings; create, delete, disown, take over objects |
| Kubernetes' namespace controller | - | empties a terminating namespace, removes it when no finalizer is left |
| GVK policy, `internal/policy` | allow and deny sets, fixed at start | `Validate` |
| template renderer, `internal/template` | none | `RenderString` |
| manager and command line | flags, options | defaults, building the policy, wiring |
| `internal/inventory` | none | `Key`; nothing calls it |

The reconciler takes a namespace name from the workqueue and decides from the
*cached* namespace which of four ways to go:

- *deleting* with the finalizer: sweep the cluster-scoped part of the inventory,
  delete the binding, remove the finalizer;
- *no label*: sweep the whole inventory, delete the binding, remove the finalizer;
- *label, class missing* (read live): create or update the binding all the same,
  sweep its inventory, delete it, remove the finalizer;
- *label, class found*: ensure the finalizer, create or update the binding,
  prepare every resource (parse, render, policy, REST mapping, live ownership
  check, duplicates), apply them one by one, sweep what the old inventory has
  beyond them, write inventory and Ready condition.

Namespace events, binding events (not those of status writes) and class events
(through an index of the *cached* bindings) enqueue namespaces; so do the
workqueue's rate limiter after an error and, with a positive interval, a timer.

What makes it hard: there is no transaction over a dozen API calls; reads come
from caches that lag behind the controller's own writes; a check and the act it
guards are separate calls; any call can fail, and any write can take effect with
its reply lost; the process can die anywhere; namespaces come back under the same name with another
UID; two namespaces can want the same cluster-scoped object.

What makes each component correct:

- *reconciler*: inventories never lose an object that is still owned; objects of
  other owners are left alone; old objects stay until the new set is applied;
  applies are covered by the finalizer; Ready is truthful; every namespace
  settles; deletions complete.
- *policy and options*: a controller that runs obeys every entry of the lists it
  was given, deny before allow; the default deny list holds unless another is
  given; nothing of a forbidden kind is prepared, wherever the kind comes from.
- *preparation*: objects are recognised by later passes and by the cleanup,
  values enter them as they are, and a class is refused as a whole and for a
  reason that fits.

## Modules

| module | contents |
|---|---|
| `ClusterState` | the cluster: stored objects, caches, pending watch events, optimistic locking, users, the namespace controller |
| `NamespaceReconciler` | workqueue, watches, and the pass, one action per API call; failures; fairness |
| `InventoryLedger` | abstract specification: what bindings promise, without caches, watches and API calls |
| `ReconcilerProperties` | the reconciler's properties, its refinement mapping to `InventoryLedger`, and the invariants of the proofs |
| `ReconcilerProofs` | types, the inductive invariant, and the inventory and ownership theorems |
| `LedgerProofs`, `FinalizerProofs`, `OrderProofs`, `ReadyProofs`, `RestProofs`, `WakeupProofs` | the refinement; the finalizer; old before new; Ready; rest; wakeups. The first three extend `ReconcilerProofs`, the others extend some of them |
| `MCReconciler` | the small clusters the `.cfg` files use |
| `GVKPolicy` | `internal/policy`: pure operators |
| `ResourcePreparation` | from the command line to prepared objects: `main`, `manager.New`, rendering, `prepareManagedResources` |
| `PreparationProperties`, `PreparationProofs` | its properties, stated without the code's own operators where possible, and theorems about policy, preparation and renderer |
| `MCPreparation` | small command lines, classes and namespaces |

`ClusterState`, `NamespaceReconciler` and `ReconcilerProperties` extend one
another, as do `GVKPolicy`, `ResourcePreparation` and `PreparationProperties`.
The two groups model the same loop at different grain. `NamespaceReconciler`
has it among all the interleavings, where a template is a record that renders
to a reference and has a `fault` or not. `ResourcePreparation` looks inside:
texts, marks, kinds, the policy; what a pass finds in the cluster is fixed for
the pass, because the other group shows what may change under it. `Refusal` and
`Prepare` of the first correspond to `Verdict` and `PrepareResource` of the
second: `malformed` is `ApplyFailed`, `denied` is `GVKDenied`.

### How state corresponds

- `namespace`, `binding`, `class` are the live objects; `nsCache`, `bindingCache`
  with `nsEvents`, `bindingEvents` are what the informers have and have yet to
  hear, in order. The class is only read live, so its informer is reduced to a
  count of pending events.
- A resourceVersion is only ever compared: `nsHeld` and `bindingHeld` say
  whether the copy the pass holds is still the stored one. Taking a copy from a
  cache with events pending gives a stale copy, and every foreign write makes
  the held one stale.
- An inventory is a set of references. `RefOf` gives the reference of a rendered
  template; `ObjectOf` forgets the API version, because all versions of a kind
  serve the same stored object. A kind is folded into the name.
- Per object only `owner` (absent, unmarked, or the UID in the owner annotation)
  and `content` (which template body, or a field another manager holds against
  it) are kept.
- A template's `fault` stands for all that can be wrong with it: `malformed`
  (parsing, rendering, REST mapping), `denied` (policy), `rejected` (by the API
  server at apply).
- `pass` holds the locals of `Reconcile`: the namespace copy, the class's
  resources, the binding copy, refs applied, refs still to sweep, the failure
  reason. `queue` and `timers` are the workqueue's ready and delayed keys.

### How actions correspond

A pass is a chain of actions, one per API call, each with the code around it:

| action | code (`namespace_reconciler.go`) |
|---|---|
| `Start` | 155-176, cached Get of the namespace, choice of way |
| `ReadClass` | 249 and 725-745, live Get |
| `AddFinalizer`, `RemoveFinalizer` | 406-432, Update of the namespace |
| `Lookup` | 206, 228, 262, cached Get of the binding |
| `CreateBinding`, `UpdateBinding` | 278, 289 |
| `RereadBinding` | 281, 292, cached Get again |
| `Prepare` | 473-498, one live Get per resource |
| `ApplyResource` | 450-460, one Apply per resource |
| `CheckStale`, `DeleteStale` | 506-528, a live Get and a Delete per reference |
| `RecordReady` | 334-343, Status().Update |
| `RecordFailure` | 299-309, 346-362, Status().Update |
| `DeleteBinding` | 220, 242, 311 |
| `CallFails` | the error returns of all of these calls |
| `NamespaceReplyLost`, `BindingReplyLost`, `ApplyReplyLost`, `DeleteReplyLost` | the same error returns after the write took effect and its reply was lost: 289, 278 and the status writes, 411 and 428, 452, 525, and the deletions of the binding |
| `Restart` | a new process: lists everything, enqueues everything, remembers nothing |
| `DeliverNamespace`, `DeliverBinding`, `DeliverClass`, `Requeue` | 61-76 with the predicates 78-110 and the mappings 112-153 |

Between two actions of a pass anything else may happen. One worker runs, since
`SetupNamespaceReconciler` leaves `MaxConcurrentReconciles` at its default of 1.

In `ResourcePreparation`:

| action | code |
|---|---|
| `Init` | `main.go` 15-25: flags over `DefaultOptions` |
| `New` | `manager.go` 42-105: `withDefaults`, `FromCSV`, and the exit if that fails |
| `Begin` | a pass has read a namespace and its class (`namespace_reconciler.go` 443-447) |
| `PrepareResource` | one turn of `prepareManagedResources`, 473-498: parse, render, validate, place, check ownership, mark, look for duplicates |
| `HandOver` | all are prepared and go to the applies, 449 |

### Abstractions to know of

- The sweep takes references in any order; the code follows the inventory's
  order, which is sorted, or previous-then-new after a failure. The model has
  every order.
- A write that changes nothing in the model makes no event and no new version.
  In the code a status write may change only an observed generation, the
  observed UID or a message, which the model leaves out because nothing reads
  them: such a write costs the real controller an extra conflict and retry at
  most, since status events are filtered.
- A Get that misses, a Delete of what is not there and a NotFound are the normal
  paths the code makes of them, not faults.
- Objects have no finalizers of their own: a Delete takes effect at once.
- `binding.spec.namespaceName` is always the binding's name, as the controller
  writes it; a user who edits it by hand is not modelled. Nor is a user who
  removes the finalizer, or edits inventory.
- In `ResourcePreparation` a string is a sequence of literals and `{{ ... }}`
  variables, and an item of a list the sequence of words between its slashes.
  How characters make tokens is left to the regular expression and to
  `strings.Split`; spaces inside an item belong to its words. Of an object's
  strings the model renders kind, name, namespace, marks and one that stands
  for its body; apiVersion is taken to be literal, and given.
- The operators commented as faulty variants are bugs on purpose: each stands in front of the operator it could have been, and
  breaks a named property when it takes its place. The model never uses them.

## Properties and runs

All runs but `preparation` use `MCReconciler`. `MaxEdits`, `MaxFaults`,
`MaxCrashes` bound what is done *to* the controller, `MaxUID` the namespaces
ever created and `MaxLag` the watch events of one object that may be pending;
the controller itself is unbounded. Deadlock checking is off because the system
may come to rest: with the edits spent, every namespace settled or gone and no
timer running, nothing is left to do; in `preparation` the process exits when a
list is malformed.

| run | asks | states |
|---|---|---|
| `core_safety` | `TypeOK`, `OrderInv`, `NothingForgotten`, `RecordedUntilDeleted`, `AppliedRecordedOrRetried`, `OldKeptUntilNewApplied`, `ReadyMeansPresent`, `LedgerImplemented`, `RestIsKept` under relabelling, label removal, class edits, a fault and a crash | 808,016 |
| `removals` | `FinalizerInv`, `ReadyInv`, `ForeignOwnersUntouched`, `FinalizerGuardsApply`, `RecordedUntilDeleted`, `LedgerImplemented` when namespace, class and binding go away and the namespace comes back with a new UID | 250,821 |
| `shared_objects` | `IInv`, `RestIsKept`, `ForeignOwnersUntouched`, two namespaces and one cluster-scoped object, users at the objects | 1,860,056 |
| `converges` | `Converges`, `NothingLeftBehind` with timer, fault, two edits | 383,920 |
| `event_driven` | `NothingForgotten`, `ReadyIsCurrent`, `SettlesOrReports` without timer, with a fault, broken classes and a deleted binding | 415,459 |
| `deletion` | `DeletionCompletes` with a fault, a crash, objects deleted and disowned, and a second incarnation | 460,265 |
| `preparation` | `TypeOK`, `OptionsInForce`, `PreparedAllowed`, `RecognisedLater`, `RenderedOnce`, `OutcomeJust` | 30,096 |
| `missing_class` | finding: `MissingClassSettles` is violated | |
| `fast_switching` | finding: `InventoryNeverLost` is violated | |
| `stale_cleanup` | finding: `DeletionLeavesNothing` is violated | |
| `stale_finalizer` | finding: `FinalizerGuardsApply` is violated | |
| `api_version` | finding: `ReadyMeansPresent` is violated | |

The properties, in words:

- `RecordedUntilDeleted`: a status write takes a reference out of the live
  inventory only when its object is gone or disowned by then, and so does a
  deletion of the binding by a pass that holds its current version. A deleted
  namespace leaves its namespaced objects to Kubernetes. It relates the sweep,
  many steps back and several objects long, to the stored inventory at the end,
  with users, other passes and conflicts in between. The case it excludes, a
  binding deleted from a stale copy, is the `stale_cleanup` finding. It speaks of
  what was recorded; an object applied and never recorded is
  `NothingLeftBehind`'s matter.
- `AppliedRecordedOrRetried`: what a pass applied is in the live inventory when
  it returns, or its status write was refused or failed and the namespace is due
  again.
- `OldKeptUntilNewApplied`: no deletion while a class is being applied before
  all of it is applied, and never of something that belongs to it.
- `ReadyMeansPresent`: Ready is written only over objects that are there with
  the namespace's markers, but for those in a namespace that has begun to
  terminate without the pass knowing.
- `ForeignOwnersUntouched`: no apply to or delete of an object with the markers
  of another namespace or an earlier incarnation, in spite of check-then-act.
- `FinalizerGuardsApply`: objects are created only for the very namespace whose
  live object carries the finalizer.
- `RestIsKept`: a namespace that has what it asks for, with its binding and the
  caches saying so, stays that way until somebody edits the cluster or a call of
  its own pass fails: the periodic pass, late events, restarts, and passes and
  failures of other namespaces change nothing of it, its binding or its objects.
  The pass applies every object again and ends in a status write that repeats
  what is stored, so the property relates the inventory it computes over a dozen
  steps to the one it started from.
- `Converges`: once edits stop, each namespace comes to have everything its class
  asks for, a binding of that class that is Ready and whose inventory is exactly
  what the class renders to, or (class not appliable) a failure reason; without a
  label it has no binding and no finalizer. It says so of classes that exist: a
  label that names none never settles, which is the finding `missing_class`, and
  the edits of the run delete no class. It does not say that the namespace has
  nothing *else*: an object of a class withdrawn before the controller was done
  with it may stay, which is the finding `fast_switching`.
- `NothingLeftBehind`: it has nothing else if the edits are paced. When the
  controller got done with a namespace between the last two edits (`Done`: all in
  place and known to the caches, nothing beyond it), then after the last one it
  ends up with what it asks for and with no object outside its inventory
  (`Tidy`), whatever call of the switch fails or loses its reply. What it leaves
  out: an edit during an unfinished pass, or between a lost reply (or a crash)
  and the pass that repairs it. Then an object can be applied, unrecorded and out
  of the class, and nothing in the code ever finds it again. A crash is not
  within the bounds of this run.
- `SettlesOrReports`: as `Converges` but without the timer, except that after a
  fault a recorded failure may remain: `Reconcile` returns nil for it, so only
  the timer or an event would come back to it. Like `Converges` it does not look
  for further objects, and its run deletes no class.
- `DeletionCompletes`: a terminating namespace goes away, unless from some time
  on a recorded cluster-scoped object without this namespace's markers stands in
  the way for good (`Obstructed`). The cleanup refuses to delete such an object
  (`:522`), records `DeleteFailed` and returns the error (`:214`-`:218`), so that
  every retry ends the same way and the finalizer stays;
  `docs/design/namespaceclass-design.md:631` counts on it: "If cluster-scoped
  cleanup repeatedly fails, the namespace finalizer can keep the namespace in
  `Terminating`." The property says that this is the only reason, and that it
  lasts no longer than the object does: if the object goes away, or never was in
  the way, then conflicts, stale caches, failed calls, lost replies and restarts
  all come to the removal of the finalizer. In the run users strip the markers
  of objects and delete them; an object that was deleted and then created by
  somebody else obstructs the sweep in the same way, so `createObject` is left
  to the safety runs.
- `NothingForgotten`: no wakeup is ever lost. A namespace that is not being passed
  over, has no key in the queue and no timer, and of which no event in flight
  will put one there (`Attended`), has nothing left to be done for it: it is
  gone, or terminates without the finalizer, or asks for nothing and has neither
  finalizer nor binding, or, without a timer, its binding says that it got
  exactly what its class now asks for or that it failed (`Accounted`). This is
  the safety half of `Converges` and `SettlesOrReports`: those say that work
  ends, this that it is not dropped. It relates the label, the class, the
  binding and the finalizer to caches that may be two writes behind, to the
  filter on binding events and to a fan-out that goes by *cached* bindings.
- `ReadyIsCurrent`: of a namespace that nothing will bring up again, a Ready is
  true of the class as it is *now*: every object is there, the namespace's own,
  and with the body the class has for it (`UpToDate`). The bodies are the point.
  `ReadyMeansPresent` looks at the moment of the status write; afterwards an
  edit that changes a body alone leaves nothing on the binding that would show
  it, neither in the inventory nor in the condition.
- `LedgerImplemented`: the reconciler implements `InventoryLedger`. There a
  worker claims and releases objects and posts; a posting contains all it has
  claimed, invents nothing and strikes out only what nobody owns; a worker that
  gives up with something claimed leaves its name due; nobody claims what
  another owns. An object is released only after the worker has taken aim at it
  (`Aim`), which it may do at one of its own only; then it may have been disowned
  by others before the release, but not taken over. That is the promise of the
  sweep: since anybody's object may vanish at any time (`World`), a deletion
  alone could not be told from a user's, but aim can only be taken by the worker.
  The ledger also spells out what is *not* promised: ledgers can be thrown away
  whole, a claim can go unnoticed (a lost reply), and a crash forgets claims. So
  it does not catch the losses of `fast_switching` and `stale_cleanup`.
- `IInv`, `OrderInv`, `FinalizerInv`, `ReadyInv`: the invariants behind the
  theorems, see below.
- `OptionsInForce`: a running controller decides about every kind as the entries
  on the command line say, also when a list is empty, blank or has a malformed
  item, and has a timer unless a negative interval was asked for.
- `PreparedAllowed`: nothing prepared is of a forbidden kind.
- `RecognisedLater`: a prepared object has the namespace's marks and place over
  whatever the template brought, and no foreign object was in that place.
- `RenderedOnce`: a value that itself looks like a template is not rendered.
- `OutcomeJust`: a class is handed over only if nothing is wrong with any of its
  resources, else refused with a reason that fits the first that is bad.

### Bounds, and why they are enough

- Two classes let a namespace switch and switch back; resource lists of up to
  two entries give a pass that fails half-way, a stale and a kept reference, one
  namespaced and one cluster-scoped object.
- Two edits are what each interesting interleaving needs: one that starts a pass
  and one that disturbs it. `removals` has three, to delete a namespace, its
  class and its binding in any order, and two UIDs for a second incarnation.
- `MaxLag` 2: the controller writes a binding at most twice before it reads it
  again (spec, status). A write that would exceed it waits, so a lag of two
  covers the stale cache of every finding. `shared_objects` uses 1 to afford a
  second namespace, and re-creates none: a second UID under one name is in
  `removals` and `deletion`, and in the theorems about `IInv`.
- One fault and one crash each fall on every step of every pass; a second of
  either mostly repeats the retry of the first.
- `SYMMETRY` is used in `shared_objects` only, which checks safety and whose
  constants do not tell the namespaces apart.
- `deletion` has three edits, so that a namespace is deleted and two objects are
  disowned or deleted before or after, or an object is disowned or deleted and
  both the namespace and its second incarnation are deleted.
- `converges` spends its fault on any call and has no crash; `core_safety` and
  `deletion` have the crash.
- `preparation` has all 72 combinations of four allow lists (none given, empty,
  of one and of two items), six deny lists (none given, empty, blank, malformed,
  and good items beside a blank or a malformed one) and three intervals; classes of none or two out of eight
  templates, which is what a duplicate needs; two namespaces, of which one has
  an empty label value, a label that names a denied kind and an annotation that
  looks like a template.
- The theorems below hold without any bound.

### Fairness

`FairSpec` assumes what controller-runtime and Kubernetes provide: the worker
takes the next step of its pass (`WF` of `PassStep`), the workqueue is first in
first out, so a key that keeps coming back is taken in the end (`SF` of
`Start`), watch events are delivered, delayed adds fall due, and the namespace
controller empties and removes terminating namespaces. Nothing is assumed of
users, faults or restarts: they are bounded, never required.

## What is proved

With no bound on namespaces, classes, templates, edits, lag, faults or crashes:

| theorem | module | statement |
|---|---|---|
| `TypeCorrect` | `ReconcilerProofs` | `Spec => []TypeOK` |
| `InductiveInvariant` | `ReconcilerProofs` | `Spec => []IInv` |
| `InventoryKept` | `ReconcilerProofs` | `Spec => RecordedUntilDeleted` |
| `ForeignOwnersSpared` | `ReconcilerProofs` | `Spec => ForeignOwnersUntouched` |
| `AppliedAccountedFor` | `ReconcilerProofs` | `Spec => AppliedRecordedOrRetried` |
| `LedgerKept` | `LedgerProofs` | `Spec => LedgerImplemented` |
| `FinalizerInvariant` | `FinalizerProofs` | `Spec => []FinalizerInv`, if no class is created |
| `FinalizerComesFirst` | `FinalizerProofs` | `Spec => FinalizerGuardsApply`, if no class is created |
| `OrderInvariant` | `OrderProofs` | `Spec => []OrderInv` |
| `OldKept` | `OrderProofs` | `Spec => OldKeptUntilNewApplied`, if no object goes by two references |
| `AppliedStays` | `ReadyProofs` | `Spec => []ReadyInv`, if no class is created, no object goes by two references and users leave managed objects alone |
| `ReadyIsTruthful` | `ReadyProofs` | `Spec => ReadyMeansPresent`, under the same three |
| `RestKept` | `RestProofs` | `Spec => RestIsKept` |
| `NothingLost` | `WakeupProofs` | `Spec => []NothingForgotten` |
| `ReadyStaysTrue` | `WakeupProofs` | `Spec => []ReadyIsCurrent`, if no object goes by two references and users leave managed objects as they are |
| `QuietIsSettled` | `WakeupProofs` | `Spec => []` every namespace is attended to, in a pass, settled or reported, under the same two |
| `ListsInForce` | `PreparationProofs` | `Spec => []OptionsInForce` |
| `AllowedOnly` | `PreparationProofs` | `Spec => []PreparedAllowed` |
| `KnownAgain` | `PreparationProofs` | `Spec => []RecognisedLater` |
| `OutcomesJust` | `PreparationProofs` | `Spec => []OutcomeJust` |
| `PreparationTypes` | `PreparationProofs` | `Spec => []TypeOK` (of the preparation) |
| `ValuesEnterAsTheyAre` | `PreparationProofs` | `Spec => []RenderedOnce` |

The assumptions are the named ones of the modules: `SentinelAssumption` (the
markers for absence and for drift differ from what they stand in for),
`DataAssumption` (types of templates and resource lists),
`ControllerAssumption`, and for the preparation `OptionsAssumption`,
`FlagsAssumption`, `ClassesAssumption`, `TextsAssumption` (the default deny item
is well-formed; the flags are the three there are, and lists hold items;
templates have their fields; names, labels and the texts of templates are
sequences); TLC evaluates them in every run. The further hypotheses stand in the
theorems that need them. `NoClassCreated` and `OneReferencePerObject` are each
shown to be needed by a finding, `stale_finalizer` and `api_version`.
`ObjectsLeftAlone` excludes the user who deletes or disowns an object between its
apply and the status write, which nothing in the controller could prevent;
`ObjectsUntouched` also the one who changes its content. Managed objects are not
watched, so without a timer nobody would ever notice.

### The inductive invariant

The argument has three layers.

1. *Shape* (`TypeOK /\ PassShape`): what the pass knows at each step, e.g. from
   `update` on it has a binding, at `apply` something is left to apply, at
   `deleteBinding` the sweep is done. No other action touches `pass`, so each
   action is checked against its own successor step.
2. *Trail* (`CacheTrails`, `HeldIsCurrent`): the pending events of a binding end
   in its live value; therefore a copy taken when nothing is pending is the live
   one and remains so until somebody writes, which takes it out of
   `bindingHeld`. This is optimistic locking, and it is why a status write that
   succeeds knows which inventory it replaces.
3. *Claims* (`SweptIsGone`, `ClaimsHold`): a reference the sweep has passed has
   no owned object, and an object prepared for apply or about to be deleted has
   no other owner. Both survive the steps of others because nobody but a pass
   gives an object an owner, and only one pass runs at a time.

`RecordedUntilDeleted` is not inductive alone: at the moment of the write it
needs to know that the replaced inventory is the one the sweep started from
(layer 2) and that all of it was swept (layer 3). `AppliedRecordedOrRetried`
needs no invariant beyond layer 1: a pass that has applied something only ends in
a status write, a conflict, a fault or a crash.

### The refinement

The mapping shows a ledger entry wherever there is a binding, a worker wherever
there is a pass, the objects' owners as they are, and as due what is queued or
timed. Most actions of a pass are stutters: they read, or go on to another step.
An apply is a `Claim` (`ClaimUnnoticed` if its reply is lost), a check of a stale
object that finds it the namespace's own an `Aim`, the delete that follows a
`Release`, or a `Miss` if it fails, a status write a `Post`, `CreateBinding` an
`Open`, `DeleteBinding` a `Forget`, a conflict or fault a `GiveUp`. A lost reply is
the write with the end of the work in one step: `Open` and `Forget` with
`Resigns`, and `Post`, which ends it anyway; of a namespace's finalizer the ledger
knows nothing, so there it is a `GiveUp`. That a `Post` strikes out only what nobody owns is
`InventoryKept` at work; that a `Claim` takes nothing from others is
`ClaimsHold`.

### The finalizer

A pass trusts the finalizer it sees on a cached copy (`Trusts`). `FinalizerInv`
says that no copy, cached, on its way or held, is wrong about it. What makes it
inductive is the reason for a removal: the pass that removes the finalizer does
so from the current version, by optimistic locking, because it saw the label
gone, the deletion, or a missing class. Versions still in flight then agree with
it on label and deletion, and the class stays missing as long as none is
created, so no later pass applies anything on their word.

### Old before new

`prepareManagedResources`, `applyManagedResources` and
`deleteStaleManagedResources` go over the same resources one after another.
`OrderInv` says of each loop what it has done so far; a deletion under a class
comes only when the second is through, and hits nothing the class wants, because
two different references name two different objects.

### Ready

Between the first apply of a pass and its status write three things could take
an applied object away: the pass's own sweep, Kubernetes emptying a namespace,
and the end of the namespace itself. `OrderInv` excludes the first, `FinalizerInv`
the third, and `ReadyInv` confines the second to the namespace's own objects. The
many steps that apply nothing need no argument of their own: the refinement has
already shown that they leave owners and claims as they are, or end the pass.

### Rest

`RestIsKept` has two sides. *The pass over the namespace itself*: `ServesAgain`
says what it can have learned, which is nothing but what is stored. `OrderInv`
gives the rest: the pass applies each resource of the class once, in order, so
what it has applied when it is through is the inventory it started from, nothing
is stale, and the status it writes is the stored one, which makes no event.
*Everybody else*: a call writes to its own pass's namespace and binding, and by
`ClaimsHold` changes somebody's object only if that object has the UID its pass
has read (`OwnObjectsOnly`). That a pass over another namespace cannot have read
this one's UID needs an invariant of its own, `UIDInv`: no two names ever go by
one UID, in the store, in a cache, on the way there or in a pass. It would fail
if a UID were ever handed out twice, and survives because new ones are greater
than all versions still about. One failed call of the own pass is excluded for
good reason: it is recorded on the binding.

### Wakeups

`NothingForgotten` says nothing of the pass that may be running, and is not
inductive: it needs to know that a pass over an unattended namespace goes by what
is so, since it will leave the namespace unattended. `WakeInv` adds that
(`OnTrack`): as long as nothing calls attention to `n`, the pass over it has
read its label, its deletion, its class and the class of its binding as they
still are, and will therefore end in one of the states `Accounted` allows, or in
an error or a timer, which is attention again. The steps fall into three kinds:

- *Steps that disturb* the pass (an edit of label, class or binding) put an event
  on its way. A class event counts only for namespaces whose cached binding is of
  that class; for the others `OnTrack` is not concerned with the class either,
  because the pass has yet to write a binding of it, whose event is the
  attention (`BoundAsAsked`).
- *Deliveries* take an event off its way, and put the key in the queue, or the
  binding event is filtered out: then old and new version are `Alike` and agree
  in all `OnTrack` speaks of. The events of one binding may run through other
  versions and come back, so what matters is whether *every* version seen or to
  be seen is like the live one (`Sightings`).
- *Steps of the pass* keep `OnTrack` or end it. That it ends well takes
  `PreparedInv` (what is applied was prepared and comes from the class), `OrderInv`
  (all of it is applied) and `IInv` (the write goes over the version read), so
  the inventory it writes is what the class asks for.

A pass that starts with no event pending goes by an up-to-date copy of its
namespace, which `UIDInv` says beside what it says of UIDs.

### Ready stays true

`ReadyIsCurrent` speaks of objects, `NothingForgotten` of records. `PlaceInv` is
what joins them: of a namespace nothing has called attention to, the objects the
pass over it has applied so far are as its class has them (`InHand`), and without
a pass all of them are, if the binding reads Ready (`UpToDate`). A step keeps it
for one of four reasons. Users and Kubernetes who touch namespace, binding or
class call attention (`EnvironmentNoticed`), and Kubernetes collects objects of
terminating namespaces only. A pass over another namespace has another UID
(`UIDInv`) and changes only what goes by its own (`OwnObjectsOnly`). The own pass
applies each resource as the class it has read has it, which by `WakeInv` is the
class as it is; an apply cannot undo an earlier one, since the references of a
class differ and so do their objects. And its sweep comes after the last apply
and spares what was applied (`OrderInv`), so when Ready is recorded all of the
class is in hand. A pass that ends otherwise leaves a failure, a retry, or
nothing to be done.

`QuietIsSettled` puts `NothingLost` and `ReadyStaysTrue` together: whenever
nothing is left in queue, timers, watches and worker, every namespace is gone,
terminating, without class and finalizer, in possession of everything its class
asks for, or has its failure on the binding. What remains for fairness is that
this quiet comes.

### Policy and preparation

A parsed list is exactly the set of its non-blank items, since `Format` undoes
`ParseGVK` on what `ParseGVK` accepts (`FormatParse`, `ParsedList`). So a lookup
in the policy compares what the operator wrote (`ListExact`, `PolicyExact`). The
invariant of a pass is that `prepared` is the image, in order, of the accepted
head of the class's resources; the rest is reading off fields. That a refusal is
just needs one invariant more: nothing was wrong with the accepted head.

### Rendering

`RenderString` is a recursive function over the tokens of a text, and
`RenderedOnce` says what it computes for every text. Induction over data has no
rule the provers could instantiate, so `NoException` takes its place: a set of
naturals that holds some number holds a smallest one, by well-foundedness, which
gives the least counterexample to argue about. With it a rendering is shown to
have the literals of its text, the tokens of its variables' values as they are,
and no others (`RenderedTokens`); in what was prepared every variable had a value.

## What is only model-checked

- Liveness: `Converges`, `NothingLeftBehind`, `SettlesOrReports`,
  `DeletionCompletes`. Liveness under
  fairness is beyond the proof system. Of `SettlesOrReports`, `QuietIsSettled`
  proves that work is not dropped; that it ends, and that a failure is recorded
  for a reason, is model-checked.
- What the ledger says about *losing* inventories is in its permissive actions;
  the findings `fast_switching` and `stale_cleanup` are runs that use them.

## Findings

Each is a run that ends in a counterexample; PROJECT.json quotes the lines.

1. `missing_class`: a label without a class makes the controller create and
   delete the binding endlessly (`namespace_reconciler.go:278`, `:311`).
2. `fast_switching`: the binding is re-read from the cache after its own update
   (`:292`); two switches in a row lose the objects of the middle class.
3. `stale_cleanup`: a cleanup sweeps a stale inventory and deletes the live
   binding without a precondition (`:220`); a cluster-scoped object outlives its
   namespace.
4. `stale_finalizer`: a class deleted and created again is applied to a
   namespace without finalizer, which the cached copy still shows (`:257`, `:407`).
5. `api_version`: moving a resource to another API version deletes it right
   after applying it, and reports Ready (`:509`, `:532`).

Not a finding, but to be known: between an ownership check (`:515`, `:687`) and
the act that follows (`:525`, `:452`) an object may lose its markers, and is then
deleted or overwritten all the same, as neither call carries a precondition.
`ForeignOwnersUntouched` says what still holds: it is never one that carries
another namespace's markers.

## Not modelled, and why

- Observed generations, `observedNamespaceUID` and condition messages: written,
  never read.
- Users who edit an inventory, the namespace name of a binding, or the finalizer
  by hand; inventories with an unparsable apiVersion. The first two would have
  the controller act on references it never made.
- Several workers, or several replicas without leader election: the default is
  one worker, and the proofs of `ForeignOwnersUntouched` rest on it.
- Resources with finalizers of their own, and server-side apply beyond "another
  manager holds a field".
- How characters make tokens, words and items; templated or missing apiVersion.
- `internal/inventory`: nothing calls it.
- Health checks, metrics, the version flag, scheme registration, generated
  copies, CRDs, the chart and scripts: no behaviour of the reconciler depends on
  them beyond what is said above.
- The admission webhook of the design document: there is no code.

What could be added: a variant with several workers; users who edit inventories.
