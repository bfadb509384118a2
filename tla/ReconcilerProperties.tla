------------------------ MODULE ReconcilerProperties ------------------------
(***************************************************************************)
(* What NamespaceReconciler is meant to keep, and what documents of the    *)
(* repository say of it.                                                   *)
(***************************************************************************)
EXTENDS NamespaceReconciler

\* The environment never touches the pass.
PassActs == pass' # pass

DesiredBy(resources, n) == {RefOf(resources[i], n) : i \in DOMAIN resources}

\* What the pass in progress wants to be there.
Desired == DesiredBy(pass.resources, cur)

Recorded(b) == IF b = Absent THEN {} ELSE b.inventory

\* References a step takes out of the live inventory of n.
Dropped(n) == Recorded(binding[n]) \ Recorded(binding'[n])

Changes(o) == owner'[o] # owner[o] \/ content'[o] # content[o]

-----------------------------------------------------------------------------
(* Safety.                                                                 *)

KeepsRecords ==
  \A n \in Namespaces : \A r \in Dropped(n) :
    PassActs /\ (binding'[n] # Absent \/ n \in bindingHeld) =>
      \/ owner[ObjectOf(r)] \in {Absent, Unowned}
      \/ pass.ns.deleting /\ r.namespace # Cluster

\* A reference leaves an inventory only once its object is gone or no longer
\* carries any namespace's markers: by a status write, whatever happened since
\* the pass read the binding, and by the deletion of the binding when the pass
\* holds its current version.  A namespace being deleted leaves its namespaced
\* objects to Kubernetes.
RecordedUntilDeleted == [][KeepsRecords]_vars

SparesForeignOwners ==
  \A o \in Objects : PassActs /\ Changes(o) /\ owner[o] \in UIDs => owner[o] = pass.ns.uid

\* A pass never applies to or deletes an object that carries the markers of
\* another namespace, or of an earlier namespace of the same name, although
\* ensureCanManage and the sweep look at an object some steps before they act.
ForeignOwnersUntouched == [][SparesForeignOwners]_vars

RecordsOrRetries ==
  pass.step # "idle" /\ pass'.step = "idle" /\ crashes' = crashes =>
    \/ pass.applied \subseteq Recorded(binding'[cur])
    \/ cur \in timers' /\ (cur \notin bindingHeld \/ faults' # faults)

\* What a pass has applied is in the live inventory when it returns.  Only a
\* refused or failed status write excuses it, and then the namespace is due again.
AppliedRecordedOrRetried == [][RecordsOrRetries]_vars

\* While a class is being applied nothing is deleted before all of it has been
\* applied, and nothing that belongs to it is deleted.
OldKeptUntilNewApplied ==
  [][\A o \in Objects :
       PassActs /\ owner[o] # Absent /\ owner'[o] = Absent /\ Reconciling =>
         /\ Desired \subseteq pass.applied
         /\ \A r \in Desired : ObjectOf(r) # o]_vars

\* An object is created for a namespace only while that very namespace exists
\* with the finalizer that makes its deletion wait for the cleanup.
FinalizerGuardsApply ==
  [][\A o \in Objects :
       owner[o] = Absent /\ owner'[o] \in UIDs =>
         /\ namespace[cur] # Absent
         /\ namespace[cur].uid = pass.ns.uid
         /\ namespace[cur].finalizer]_vars

\* What the pass has applied carries this namespace's markers.  Kubernetes may
\* empty a namespace that has begun to terminate under a pass that has not heard of it.
AppliedOwned ==
  \A r \in pass.applied :
    \/ owner[ObjectOf(r)] = pass.ns.uid
    \/ r.namespace = cur /\ Terminating(cur)

\* Ready=True is written only over objects that are there with this namespace's
\* markers: the sweep of the pass has deleted nothing that the pass applied.
ReadyMeansPresent ==
  [][PassActs /\ pass'.step = "idle" /\ At("recordReady") /\ HoldsBinding => AppliedOwned]_vars

-----------------------------------------------------------------------------
(* The abstract specification the reconciler implements.                   *)

Ledger == INSTANCE InventoryLedger WITH
  Names   <- Namespaces,
  Owners  <- UIDs,
  Object  <- [r \in Refs |-> ObjectOf(r)],
  Nobody  <- Absent,
  open    <- {n \in Namespaces : binding[n] # Absent},
  ledger  <- [n \in Namespaces |-> Recorded(binding[n])],
  worker  <- cur,
  id      <- IF At("idle") THEN Absent ELSE pass.ns.uid,
  claimed <- pass.applied,
  aims    <- IF At("delete") THEN {ObjectOf(pass.target)} ELSE {},
  due     <- queue \cup timers

\* Seen through the inventories alone the reconciler is the bookkeeper of
\* InventoryLedger: postings enter all that was applied and strike out only what
\* nobody owns, claims are never made against another owner, and a pass that
\* gives up with something applied stays due, across all calls of a pass.
LedgerImplemented == Ledger!Spec

-----------------------------------------------------------------------------
(* The inductive invariant behind the theorems of ReconcilerProofs.        *)

\* Steps at which the pass has read the binding and not yet given it up.
BindingSteps == {"update", "prepare", "apply", "sweep", "delete", "recordReady",
                 "recordFailure", "deleteBinding"}

\* What the pass must have learned by the time it is at a step.
PassShape ==
  /\ At("idle") => cur = Absent
  /\ ~At("idle") => cur \in Namespaces /\ pass.ns # Absent
  /\ pass.step \in BindingSteps => pass.binding # Absent
  /\ pass.step \in {"readClass", "addFinalizer", "create", "update", "reread"} =>
       ~Deleting /\ pass.ns.label # NoLabel
  /\ pass.step \in {"prepare", "apply", "recordReady"} => Reconciling
  /\ At("prepare") => Len(pass.todo) < Len(pass.resources)
  /\ At("apply") => pass.todo # << >>
  /\ At("delete") => pass.target \in pass.stale
  /\ At("recordReady") => pass.stale = {}
  /\ At("deleteBinding") => ~Reconciling /\ pass.stale = {}
  /\ pass.applied # {} =>
       /\ Reconciling
       /\ pass.step \in {"apply", "sweep", "delete", "recordReady", "recordFailure"}

\* What a cache will hold once its pending events are delivered.
Latest(cached, events) == IF events = << >> THEN cached ELSE events[Len(events)]

\* The cache trails the live object: it is on its way there.
CacheTrails ==
  \A n \in Namespaces : binding[n] = Latest(bindingCache[n], bindingEvents[n])

\* The copy optimistic locking accepts is the live object.
HeldIsCurrent ==
  /\ bindingHeld \subseteq {cur}
  /\ pass.step \in BindingSteps /\ cur \in bindingHeld => binding[cur] = pass.binding

\* References the sweep of this pass is responsible for.
Due == IF Deleting THEN ClusterScoped(pass.binding.inventory) ELSE pass.binding.inventory

\* A reference the sweep has passed over no longer has an owned object.
SweptIsGone ==
  pass.step \in {"sweep", "delete", "recordReady", "deleteBinding"} =>
    \A r \in Due \ (pass.stale \cup pass.applied) : owner[ObjectOf(r)] \in {Absent, Unowned}

\* An object prepared for apply or about to be deleted belongs to no other namespace.
Claimable(r) == owner[ObjectOf(r)] \in {pass.ns.uid, Absent, Unowned}
ClaimsHold ==
  /\ pass.step \in {"prepare", "apply"} =>
       \A i \in DOMAIN pass.todo : Claimable(RefOf(pass.todo[i], cur))
  /\ At("delete") => Claimable(pass.target)

\* What the passes rely on between their steps.
IInv == TypeOK /\ PassShape /\ CacheTrails /\ HeldIsCurrent /\ SweptIsGone /\ ClaimsHold

-----------------------------------------------------------------------------
(* The invariant behind OldKeptUntilNewApplied.                            *)

\* No object is named by two references, as by two versions of its API.
OneReferencePerObject == \A r, s \in Refs : ObjectOf(r) = ObjectOf(s) => r = s

\* What has been prepared so far is the head of the class's list.
PreparedInOrder ==
  At("prepare") => \A i \in DOMAIN pass.todo : pass.todo[i] = pass.resources[i]

\* Every resource of the class has been applied or is still to be.
NothingSkipped ==
  At("apply") => \A i \in DOMAIN pass.resources :
    \/ RefOf(pass.resources[i], cur) \in pass.applied
    \/ \E j \in DOMAIN pass.todo : pass.todo[j] = pass.resources[i]

\* The sweep comes after the last apply and spares what was applied.
SweepComesLast ==
  pass.step \in {"sweep", "delete", "recordReady"} /\ Reconciling =>
    Desired \subseteq pass.applied /\ pass.stale \cap pass.applied = {}

OrderInv == PreparedInOrder /\ NothingSkipped /\ SweepComesLast

-----------------------------------------------------------------------------
(* The invariant behind ReadyMeansPresent.                                 *)

\* A pass applies to its own namespace and to no namespace at all, and keeps
\* what it has applied for as long as the namespace lives.
AppliedHere == \A r \in pass.applied : r.namespace \in {cur, Cluster}

ReadyInv == AppliedHere /\ AppliedOwned

-----------------------------------------------------------------------------
(* The invariant behind FinalizerGuardsApply.                              *)

\* The versions of namespace n that are still to be acted upon: the cached one
\* and those on their way to the cache.
Copies(n) == {nsCache[n]} \cup {nsEvents[n][i] : i \in DOMAIN nsEvents[n]}

\* The live namespace is the one v is a version of, and has the finalizer.
Guarded(n, v) == /\ namespace[n] # Absent
                 /\ namespace[n].uid = v.uid
                 /\ namespace[n].finalizer

\* A pass that starts from v takes v's word for it that the finalizer is there.
Trusts(v) == /\ v # Absent
             /\ ~v.deleting
             /\ v.finalizer
             /\ v.label # NoLabel
             /\ class[v.label] # Absent

\* What the held copy of a namespace is a copy of.
NamespaceTrails ==
  /\ nsHeld \subseteq {cur}
  /\ \A n \in Namespaces : namespace[n] = Latest(nsCache[n], nsEvents[n])
  /\ cur \in nsHeld => /\ namespace[cur] = pass.ns
                       /\ \A v \in Copies(cur) : v # Absent /\ v.label = pass.ns.label
                                                          /\ v.deleting = pass.ns.deleting

\* No version in flight, nor the one of the pass, is wrong about the finalizer.
FinalizerTrusted ==
  /\ \A n \in Namespaces : \A v \in Copies(n) : Trusts(v) => Guarded(n, v)
  /\ At("readClass") /\ Trusts(pass.ns) => Guarded(cur, pass.ns)
  /\ ~At("idle") /\ Reconciling /\ ~At("addFinalizer") =>
       pass.ns.finalizer /\ Guarded(cur, pass.ns)
  /\ ~At("idle") /\ ClassMissing /\ ~At("readClass") => class[pass.ns.label] = Absent
  /\ At("removeFinalizer") => ~Reconciling

\* Holds as long as no class is created while the controller runs.
FinalizerInv == NamespaceTrails /\ FinalizerTrusted

-----------------------------------------------------------------------------
(* What a settled namespace looks like.                                    *)

Distinct(resources, n) ==
  \A i, j \in DOMAIN resources : i # j => RefOf(resources[i], n) # RefOf(resources[j], n)

Appliable(resources, n) ==
  (\A i \in DOMAIN resources : resources[i].fault = "none") /\ Distinct(resources, n)

\* Everything t renders to for namespace n is there, n's own, as t has it.
InPlace(t, n) ==
  LET o == ObjectOf(RefOf(t, n)) IN
  owner[o] = namespace[n].uid /\ content[o] = t.body

\* Namespace n has what its label and its class ask for, and its binding says so.
ClassInPlace(n) ==
  LET c == namespace[n].label
      resources == class[c]
  IN /\ binding[n] # Absent
     /\ binding[n].class = c
     /\ IF Appliable(resources, n)
        THEN /\ binding[n].reason = "BindingRecorded"
             /\ binding[n].inventory = DesiredBy(resources, n)
             /\ \A i \in DOMAIN resources : InPlace(resources[i], n)
        ELSE binding[n].reason \notin {"none", "BindingRecorded"}

Settled(n) ==
  \/ namespace[n] = Absent
  \/ namespace[n].deleting
  \/ /\ namespace[n].label = NoLabel
     /\ binding[n] = Absent
     /\ ~namespace[n].finalizer
  \/ /\ namespace[n].label # NoLabel
     /\ class[namespace[n].label] # Absent
     /\ ClassInPlace(n)

-----------------------------------------------------------------------------
(* Rest.                                                                   *)

\* The caches know all there is to know of n.
Known(n) ==
  /\ nsCache[n] = namespace[n] /\ nsEvents[n] = << >>
  /\ bindingCache[n] = binding[n] /\ bindingEvents[n] = << >>

\* Namespace n has what it asks for, and its binding and the caches say so.
Served(n) ==
  /\ namespace[n] # Absent
  /\ ~namespace[n].deleting
  /\ namespace[n].finalizer
  /\ namespace[n].label # NoLabel
  /\ Known(n)
  /\ class[namespace[n].label] # Absent
  /\ ClassInPlace(n)
  /\ Appliable(class[namespace[n].label], n)

\* A pass that has learned nothing of n but what is so, and heads for a status
\* write that repeats it.
ServesAgain(n) ==
  LET resources == class[namespace[n].label] IN
  /\ pass.ns = namespace[n]
  /\ pass.step \in {"readClass", "lookup", "prepare", "apply", "recordReady"}
  /\ ~At("readClass") => pass.resources = resources
  /\ pass.step \in BindingSteps => pass.binding = binding[n] /\ n \in bindingHeld
  /\ pass.step \in {"prepare", "apply"} =>
       \A i \in DOMAIN pass.todo : \E j \in DOMAIN resources : pass.todo[i] = resources[j]
  /\ pass.applied \subseteq DesiredBy(resources, n)

\* Namespace n asks for nothing and has nothing.
Unasked(n) ==
  /\ namespace[n] # Absent
  /\ ~namespace[n].deleting
  /\ ~namespace[n].finalizer
  /\ namespace[n].label = NoLabel
  /\ binding[n] = Absent
  /\ Known(n)

PassesBy(n) == pass.ns = namespace[n] /\ pass.step \in {"lookup", "removeFinalizer"}

AtRest(n) ==
  \/ Served(n) /\ (cur = n => ServesAgain(n))
  \/ Unasked(n) /\ (cur = n => PassesBy(n))

KeepsRest ==
  \A n \in Namespaces :
    AtRest(n) /\ edits' = edits /\ (faults' = faults \/ cur # n) =>
      AtRest(n)' /\ namespace'[n] = namespace[n] /\ binding'[n] = binding[n]

\* A namespace that has what it asks for keeps it, however often it is passed over:
\* until somebody edits the cluster or a call of its own pass fails, timers, late events,
\* restarts and the passes and failures of other namespaces change nothing of it, its
\* binding or its objects.
RestIsKept == [][KeepsRest]_vars

-----------------------------------------------------------------------------
(* Nothing is forgotten.                                                   *)

Reported(n) == binding[n] # Absent /\ binding[n].reason \notin {"none", "BindingRecorded"}

Alike(old, new) == ~BindingReconcilePredicate(old, new) \/ old = new

\* The versions of the binding the controller's cache has or is about to have.
Sightings(n) == {bindingCache[n]} \cup {bindingEvents[n][i] : i \in DOMAIN bindingEvents[n]}

\* Something is on its way that puts namespace n into the queue, or it is there.
Attended(n) ==
  \/ n \in queue \cup timers
  \/ nsEvents[n] # << >>
  \/ \E v \in Sightings(n) : ~Alike(v, binding[n])
  \/ \E c \in Classes : classEvents[c] > 0 /\ n \in RequestsForNamespaceClass(c)

\* The binding says that namespace n got all its class asks for.
Fulfilled(n) ==
  LET resources == class[namespace[n].label] IN
  /\ namespace[n].label # NoLabel
  /\ namespace[n].finalizer
  /\ resources # Absent
  /\ Appliable(resources, n)
  /\ binding[n] # Absent
  /\ binding[n].class = namespace[n].label
  /\ binding[n].reason = "BindingRecorded"
  /\ binding[n].inventory = DesiredBy(resources, n)

\* Namespace n needs no further pass, or none before somebody changes something
\* when there is no timer to repeat passes.
Accounted(n) ==
  \/ namespace[n] = Absent
  \/ namespace[n].deleting /\ ~namespace[n].finalizer
  \/ /\ ~namespace[n].deleting
     /\ \/ /\ namespace[n].label = NoLabel
           /\ ~namespace[n].finalizer
           /\ binding[n] = Absent
        \/ ~Periodic /\ (Fulfilled(n) \/ Reported(n))

\* No wakeup is ever lost: a namespace that is neither worked on nor queued, timed or
\* about to be queued by an event in flight has nothing left to be done for it.
NothingForgotten == \A n \in Namespaces : Attended(n) \/ cur = n \/ Accounted(n)

\* Everything the class of namespace n now asks for is in place, unless n is going away.
UpToDate(n) ==
  /\ namespace[n] # Absent
  /\ ~namespace[n].deleting
  /\ Fulfilled(n)
  => \A i \in DOMAIN class[namespace[n].label] : InPlace(class[namespace[n].label][i], n)

\* A binding that says Ready says so of the class as it is now: once nothing more is on
\* its way, the objects are there, the namespace's own, and as the templates have them,
\* even if an edit of the class changed bodies alone, which no inventory shows.
ReadyIsCurrent == \A n \in Namespaces : Attended(n) \/ cur = n \/ UpToDate(n)

-----------------------------------------------------------------------------
(* The invariants behind NothingForgotten and ReadyIsCurrent.              *)

Preparable(resources, n) ==
  (\A i \in DOMAIN resources : resources[i].fault \in {"none", "rejected"}) /\ Distinct(resources, n)

\* What is applied has been prepared first, and comes from the class.
PreparedInv ==
  /\ At("prepare") => Preparable(pass.todo, cur)
  /\ At("apply") =>
       \A i \in DOMAIN pass.todo : \E j \in DOMAIN pass.resources : pass.todo[i] = pass.resources[j]
  /\ pass.step \in {"apply", "sweep", "delete", "recordReady"} /\ Reconciling =>
       Preparable(pass.resources, cur)
  /\ \A r \in pass.applied : \E i \in DOMAIN pass.resources :
       RefOf(pass.resources[i], cur) = r /\ pass.resources[i].fault = "none"

\* The cache has a binding of namespace n to the class its label names.
BoundAsAsked(n) == bindingCache[n] # Absent /\ bindingCache[n].class = namespace[n].label

\* What the pass over n goes by is still so, or it is about to notice.
OnTrack(n) ==
  /\ pass.ns = namespace[n]
  /\ Deleting => pass.ns.finalizer
  /\ ~At("reread")
  /\ ~At("readClass") /\ ~Deleting /\ ~Unlabelled =>
       /\ BoundAsAsked(n) => pass.resources = class[namespace[n].label]
       /\ ~At("addFinalizer") /\ pass.resources # Absent => pass.ns.finalizer
  /\ pass.step \in BindingSteps =>
       /\ bindingCache[n] # Absent
       /\ bindingCache[n].class = pass.binding.class
       /\ ~Deleting /\ ~Unlabelled => (At("update") <=> ~BoundAsAsked(n))
  /\ At("create") => bindingCache[n] = Absent
  /\ At("removeFinalizer") => Deleting \/ (Unlabelled /\ bindingCache[n] = Absent)
  /\ At("recordFailure") => pass.reason \notin {"none", "BindingRecorded"}

\* A namespace that nothing calls attention to is being taken care of or needs no care.
WakeInv ==
  \A n \in Namespaces : Attended(n) \/ IF cur = n THEN OnTrack(n) ELSE Accounted(n)

\* What the pass over n has applied is in place.
InHand(n) ==
  \A r \in pass.applied : \A i \in DOMAIN pass.resources :
    RefOf(pass.resources[i], n) = r => InPlace(pass.resources[i], n)

\* What was applied to a namespace that nothing has called attention to since stays.
PlaceInv == \A n \in Namespaces : Attended(n) \/ IF cur = n THEN InHand(n) ELSE UpToDate(n)

-----------------------------------------------------------------------------
(* Liveness.                                                               *)

\* Once users leave the cluster alone every living namespace whose class exists comes to
\* have everything its class asks for, recorded on its binding, or a failure there, and
\* keeps it; one that asks for nothing has no binding.  It may keep objects of an earlier
\* class too if that was withdrawn before the controller was done with it.
Converges == <>[](\A n \in Namespaces : Settled(n))

\* All objects with the markers of namespace n, if it lives, are in its inventory.
Tidy(n) ==
  namespace[n] # Absent /\ ~namespace[n].deleting =>
    \A o \in Objects : owner[o] = namespace[n].uid =>
      \E r \in Recorded(binding[n]) : ObjectOf(r) = o

\* The controller is done with namespace n, without a failure, and nothing else is about.
Done(n) == cur # n /\ (Served(n) \/ Unasked(n)) /\ Tidy(n)

\* Nothing is left behind of what a namespace had before, if the controller got done with
\* it between the last two edits, whatever calls fail or lose their replies meanwhile: in
\* the end the namespace has what its class asks for and nothing else.
NothingLeftBehind ==
  \A n \in Namespaces :
    <>(edits = MaxEdits - 1 /\ Done(n)) => <>[](Settled(n) /\ Tidy(n))

\* The watches and the rate limiter do as much as Converges says without a timer, except
\* that a failure the controller has recorded on the binding may be left at that.
SettlesOrReports == <>[](\A n \in Namespaces : Settled(n) \/ (faults > 0 /\ Reported(n)))

\* The sweep of a deleted namespace finds a cluster-scoped object in the inventory that
\* does not carry this namespace's markers, and refuses to delete it.
Obstructed(n) ==
  \E r \in ClusterScoped(Recorded(binding[n])) :
    owner[ObjectOf(r)] \notin {Absent, namespace[n].uid}

\* A deleted namespace goes away, in spite of failures and restarts, unless from some
\* time on an object that is not its own stands in the way for good: the finalizer is kept
\* for that reason only, and not for longer than the reason lasts.
DeletionCompletes ==
  \A n \in Namespaces :
    Terminating(n) ~> namespace[n] = Absent \/ [](Terminating(n) /\ Obstructed(n))

-----------------------------------------------------------------------------
(* What documents of the repository say and the code does not keep.        *)

\* A namespace whose label names no class comes to rest without a binding.
MissingClassSettles ==
  <>[](\A n \in Namespaces :
         namespace[n] # Absent /\ namespace[n].label # NoLabel =>
           class[namespace[n].label] = Absent /\ binding[n] = Absent)

\* Objects carrying a living namespace's markers end up in its inventory.
InventoryNeverLost == <>[](\A n \in Namespaces : Tidy(n))

\* When a namespace is gone, so are the cluster-scoped objects made for it.
DeletionLeavesNothing ==
  \A o \in Objects :
    owner[o] \in UIDs => \E n \in Namespaces : /\ namespace[n] # Absent
                                               /\ namespace[n].uid = owner[o]
=============================================================================
