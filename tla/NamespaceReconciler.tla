------------------------- MODULE NamespaceReconciler -------------------------
(***************************************************************************)
(* internal/controller/namespace_reconciler.go: the reconciler that gives  *)
(* every labelled namespace the resources of its class, its workqueue and  *)
(* its watches.                                                            *)
(*                                                                         *)
(* One worker runs one pass (one call of Reconcile) at a time, the default *)
(* MaxConcurrentReconciles.  A pass is a sequence of API calls; between    *)
(* any two of them users, Kubernetes and the informers act.  `pass` holds  *)
(* the local variables of the call.                                        *)
(*                                                                         *)
(* Operators commented as faulty variants stand for plausible bugs; the    *)
(* model does not use them.  Each breaks a property when it replaces the   *)
(* operator it precedes.                                                   *)
(***************************************************************************)
EXTENDS ClusterState

CONSTANTS
  Periodic,     \* ReconcileAfter > 0: passes are repeated on a timer
  MaxFaults,    \* bound: API calls that fail for no reason of the model's
  MaxCrashes    \* bound: restarts of the controller process

ASSUME ControllerAssumption == Periodic \in BOOLEAN

VARIABLES
  queue,        \* keys ready in the workqueue
  timers,       \* keys waiting for a delayed add: RequeueAfter or rate limiter
  pass,         \* the pass in progress
  faults, crashes

workVars == <<queue, timers, pass>>
budgetVars == <<faults, crashes>>
vars == <<clusterVars, workVars, budgetVars>>

Steps == {"idle", "readClass", "addFinalizer", "lookup", "create", "update",
          "reread", "prepare", "apply", "sweep", "delete", "recordReady",
          "recordFailure", "deleteBinding", "removeFinalizer"}

PassRecord ==
  [step : Steps,
   cur : Namespaces \cup {Absent},                 \* request.Name
   ns : NamespaceObject \cup {Absent},             \* namespace
   resources : ResourceLists \cup {Absent},        \* namespaceClass, Absent if nil
   binding : BindingObject \cup {Absent},          \* binding
   todo : Seq(Templates),                          \* resources: prepared, then left to apply
   applied : SUBSET Refs,                          \* refs applied by this pass
   stale : SUBSET Refs,                            \* refs still to be swept
   target : Refs \cup {Absent},                    \* ref whose object was just read
   reason : Reasons \cup {"none"}]                 \* of the failure to record

Idle == [step |-> "idle", cur |-> Absent, ns |-> Absent, resources |-> Absent,
         binding |-> Absent, todo |-> << >>, applied |-> {}, stale |-> {},
         target |-> Absent, reason |-> "none"]

TypeOK ==
  /\ ClusterTypeOK
  /\ queue \subseteq Namespaces
  /\ timers \subseteq Namespaces
  /\ pass \in PassRecord
  /\ faults \in Nat
  /\ crashes \in Nat

Init ==
  /\ ClusterInit
  /\ queue = {}
  /\ timers = {}
  /\ pass = Idle
  /\ faults = 0
  /\ crashes = 0

-----------------------------------------------------------------------------
(* Watches and the workqueue.                                              *)

\* For(&corev1.Namespace{}): no predicate, every event enqueues its namespace.
DeliverNamespace(n) ==
  /\ nsEvents[n] # << >>
  /\ nsCache' = [nsCache EXCEPT ![n] = Head(nsEvents[n])]
  /\ nsEvents' = [nsEvents EXCEPT ![n] = Tail(@)]
  /\ queue' = queue \cup {n}
  /\ UNCHANGED <<namespace, nsHeld, bindingVars, classVars, objectVars, uid, edits>>
  /\ UNCHANGED <<timers, pass, budgetVars>>

\* Creations, deletions and generation changes; a status write has none of them.
BindingReconcilePredicate(old, new) ==
  \/ old = Absent
  \/ new = Absent
  \/ old.class # new.class

DeliverBinding(n) ==
  /\ bindingEvents[n] # << >>
  /\ LET new == Head(bindingEvents[n]) IN
       /\ bindingCache' = [bindingCache EXCEPT ![n] = new]
       /\ queue' = IF BindingReconcilePredicate(bindingCache[n], new)
                   THEN queue \cup {n} ELSE queue
  /\ bindingEvents' = [bindingEvents EXCEPT ![n] = Tail(@)]
  /\ UNCHANGED <<binding, bindingHeld, nsVars, classVars, objectVars, uid, edits>>
  /\ UNCHANGED <<timers, pass, budgetVars>>

\* Faulty variant: a class event reaches nobody.
NoRequests(c) == {}

\* The fan-out goes through the index of the cached bindings.
RequestsForNamespaceClass(c) ==
  {n \in Namespaces : bindingCache[n] # Absent /\ bindingCache[n].class = c}

DeliverClass(c) ==
  /\ classEvents[c] > 0
  /\ classEvents' = [classEvents EXCEPT ![c] = @ - 1]
  /\ queue' = queue \cup RequestsForNamespaceClass(c)
  /\ UNCHANGED <<class, nsVars, bindingVars, objectVars, uid, edits>>
  /\ UNCHANGED <<timers, pass, budgetVars>>

\* A delayed add of the workqueue falls due.
Requeue(n) ==
  /\ n \in timers
  /\ timers' = timers \ {n}
  /\ queue' = queue \cup {n}
  /\ UNCHANGED <<clusterVars, pass, budgetVars>>

-----------------------------------------------------------------------------
(* Vocabulary of a pass.                                                   *)

cur == pass.cur
At(step) == pass.step = step
Goto(step) == [pass EXCEPT !.step = step]

\* The held copy carries the current resourceVersion.
HoldsNamespace == cur \in nsHeld
HoldsBinding == cur \in bindingHeld

\* Which of Reconcile's ways through the code the pass is on.
Deleting == pass.ns.deleting
\* Faulty variant: a missing label is not noticed.
NeverUnlabelled == FALSE
Unlabelled == ~Deleting /\ pass.ns.label = NoLabel
ClassMissing == ~Deleting /\ ~Unlabelled /\ pass.resources = Absent
Reconciling == ~Deleting /\ ~Unlabelled /\ pass.resources # Absent

\* Faulty variant: no periodic requeue.
ReturnWithoutTimer(result) ==
  /\ pass' = Idle
  /\ nsHeld' = {}
  /\ bindingHeld' = {}
  /\ timers' = IF result = "retry" THEN timers \cup {cur} ELSE timers

\* Faulty variant: an error is swallowed.
ReturnWithoutRetry(result) ==
  /\ pass' = Idle
  /\ nsHeld' = {}
  /\ bindingHeld' = {}
  /\ timers' = IF result = "periodic" /\ Periodic THEN timers \cup {cur} ELSE timers

\* Reconcile returns: "done" (Result{}, nil), "retry" (an error: the rate
\* limiter adds the key again) or "periodic" (periodicRequeueResult).
Return(result) ==
  /\ pass' = Idle
  /\ nsHeld' = {}
  /\ bindingHeld' = {}
  /\ timers' = IF result = "retry" \/ (result = "periodic" /\ Periodic)
               THEN timers \cup {cur} ELSE timers

Proceed(p) ==
  /\ pass' = p
  /\ UNCHANGED <<timers, nsHeld, bindingHeld>>

\* Faulty variant: any namespace's markers will do.
AnyManaged(o, id) == owner[o] \in UIDs
IsManagedBy(o, id) == owner[o] = id

\* Faulty variant: apply without asking who owns the object.
AlwaysCanManage(o) == TRUE

\* ensureCanManage: the object is new or carries this namespace's markers.
CanManage(o) == owner[o] = Absent \/ IsManagedBy(o, pass.ns.uid)

\* clusterScopedResourceRefs
ClusterScoped(refs) == {r \in refs : r.namespace = Cluster}

\* Where the pass goes when deleteStaleManagedResources has returned nil.
AfterSweep == IF Reconciling THEN "recordReady" ELSE "deleteBinding"

\* Sweep the refs of s.
SweepOf(p, s) == [p EXCEPT !.stale = s, !.target = Absent,
                           !.step = IF s = {} THEN AfterSweep ELSE "sweep"]

\* Faulty variant: the sweep follows a failed apply.
SweepDespiteFailure(reason) == SweepOf(pass, pass.binding.inventory \ pass.applied)

FailWith(reason) == [pass EXCEPT !.reason = reason, !.target = Absent,
                                 !.step = "recordFailure"]
SweepFailed == IF ClassMissing THEN "CleanupFailed" ELSE "DeleteFailed"

\* Faulty variant: stale objects are left where they are.
ApplyOnly(p, todo) ==
  IF todo = << >> THEN SweepOf([p EXCEPT !.todo = todo], {})
                  ELSE [p EXCEPT !.todo = todo, !.step = "apply"]

\* Faulty variant: the desired references are not spared by the sweep.
SweepAllPrevious(p, todo) ==
  IF todo = << >> THEN SweepOf([p EXCEPT !.todo = todo], p.binding.inventory)
                  ELSE [p EXCEPT !.todo = todo, !.step = "apply"]

\* Apply what is left of the class's resources, then sweep what the previous
\* inventory has beyond them.
ApplyOf(p, todo) ==
  IF todo = << >> THEN SweepOf([p EXCEPT !.todo = todo], p.binding.inventory \ p.applied)
                  ELSE [p EXCEPT !.todo = todo, !.step = "apply"]

\* Prepare what the class has beyond `prepared`, then apply all of it.
PrepareOf(p, prepared) ==
  IF Len(prepared) = Len(p.resources) THEN ApplyOf(p, prepared)
  ELSE [p EXCEPT !.todo = prepared, !.step = "prepare"]

\* What follows once the binding has been read: all of its inventory is stale
\* when the class is missing.
WithBinding(p) ==
  IF ClassMissing THEN SweepOf(p, p.binding.inventory) ELSE PrepareOf(p, << >>)

\* Faulty variant: a status write without optimistic locking.
UnlockedStatusUpdate(inventory, reason) ==
  /\ binding[cur] # Absent
  /\ WriteBinding(cur, [pass.binding EXCEPT !.inventory = inventory, !.reason = reason])

\* Status().Update succeeds only from the current resourceVersion.
StatusUpdate(inventory, reason) ==
  /\ HoldsBinding
  /\ WriteBinding(cur, [pass.binding EXCEPT !.inventory = inventory, !.reason = reason])

-----------------------------------------------------------------------------
(* A pass, one action per API call.                                        *)

\* The namespace comes from the informer's cache.
Start(n) ==
  /\ At("idle")
  /\ n \in queue
  /\ queue' = queue \ {n}
  /\ LET ns == nsCache[n] IN
       IF ns = Absent \/ (ns.deleting /\ ~ns.finalizer)
       THEN UNCHANGED <<pass, nsHeld>>
       ELSE /\ pass' = [Idle EXCEPT !.cur = n, !.ns = ns,
                          !.step = IF ns.deleting \/ ns.label = NoLabel
                                   THEN "lookup" ELSE "readClass"]
            /\ nsHeld' = IF nsEvents[n] = << >> THEN {n} ELSE {}
  /\ UNCHANGED <<nsStore, bindingVars, classVars, objectVars, uid, edits>>
  /\ UNCHANGED <<timers, budgetVars>>

\* Faulty variant: the finalizer is not ensured before the first apply.
FinalizerLater(found) == "lookup"

\* The finalizer is ensured only for a class that was found.
AfterReadClass(found) ==
  IF found = Absent \/ pass.ns.finalizer THEN "lookup" ELSE "addFinalizer"

\* classCondition reads past the cache.
ReadClass ==
  /\ At("readClass")
  /\ LET found == class[pass.ns.label] IN
       Proceed([pass EXCEPT !.resources = found, !.step = AfterReadClass(found)])
  /\ UNCHANGED <<nsStore, bindingStore, classVars, objectVars, uid, edits>>
  /\ UNCHANGED <<queue, budgetVars>>

\* ensureNamespaceFinalizer
AddFinalizer ==
  /\ At("addFinalizer")
  /\ \/ LET ns == [pass.ns EXCEPT !.finalizer = TRUE] IN
          /\ HoldsNamespace
          /\ WriteNamespace(cur, ns)
          /\ Proceed([pass EXCEPT !.ns = ns, !.step = "lookup"])
     \/ /\ ~HoldsNamespace
        /\ UNCHANGED nsStore
        /\ Return("retry")
  /\ UNCHANGED <<bindingStore, classVars, objectVars, uid, edits>>
  /\ UNCHANGED <<queue, budgetVars>>

\* Taking the informer's copy of the binding as the pass's own.
TakeCachedBinding(p) ==
  /\ pass' = p
  /\ bindingHeld' = IF bindingEvents[cur] = << >> THEN {cur} ELSE {}
  /\ UNCHANGED <<timers, nsHeld>>

\* The first Get of the binding, from the cache.
Lookup ==
  /\ At("lookup")
  /\ LET found == bindingCache[cur]
         held == [pass EXCEPT !.binding = found] IN
       IF found = Absent
       THEN Proceed(Goto(IF Deleting \/ Unlabelled THEN "removeFinalizer" ELSE "create"))
       ELSE TakeCachedBinding(
              IF Deleting THEN SweepOf(held, ClusterScoped(found.inventory))
              ELSE IF Unlabelled THEN SweepOf(held, found.inventory)
              ELSE IF found.class # pass.ns.label THEN [held EXCEPT !.step = "update"]
              ELSE WithBinding(held))
  /\ UNCHANGED <<nsStore, bindingStore, classVars, objectVars, uid, edits>>
  /\ UNCHANGED <<queue, budgetVars>>

NewBinding == [class |-> pass.ns.label, inventory |-> {}, reason |-> "none"]

CreateBinding ==
  /\ At("create")
  /\ \/ /\ binding[cur] = Absent
        /\ WriteBinding(cur, NewBinding)
        /\ Proceed(Goto("reread"))
     \/ /\ binding[cur] # Absent
        /\ UNCHANGED bindingStore
        /\ Return("retry")
  /\ UNCHANGED <<nsStore, classVars, objectVars, uid, edits>>
  /\ UNCHANGED <<queue, budgetVars>>

UpdateBinding ==
  /\ At("update")
  /\ \/ LET switched == [pass.binding EXCEPT !.class = pass.ns.label] IN
          /\ HoldsBinding
          /\ WriteBinding(cur, switched)
          /\ Proceed([pass EXCEPT !.binding = switched, !.step = "reread"])
     \/ /\ ~HoldsBinding
        /\ UNCHANGED bindingStore
        /\ Return("retry")
  /\ UNCHANGED <<nsStore, classVars, objectVars, uid, edits>>
  /\ UNCHANGED <<queue, budgetVars>>

\* The Get after Create or Update is from the cache too: it may not have
\* heard of the write yet.
RereadBinding ==
  /\ At("reread")
  /\ LET found == bindingCache[cur] IN
       IF found = Absent THEN Return("retry")
       ELSE TakeCachedBinding(WithBinding([pass EXCEPT !.binding = found]))
  /\ UNCHANGED <<nsStore, bindingStore, classVars, objectVars, uid, edits>>
  /\ UNCHANGED <<queue, budgetVars>>

\* Why resource t of the class cannot be prepared, "none" if it can.
Refusal(t) ==
  LET ref == RefOf(t, cur)
  IN IF t.fault = "malformed" THEN "ApplyFailed"
     ELSE IF t.fault = "denied" THEN "GVKDenied"
     ELSE IF ~CanManage(ObjectOf(ref)) THEN "ApplyConflict"
     ELSE IF \E i \in DOMAIN pass.todo : RefOf(pass.todo[i], cur) = ref
          THEN "DuplicateResource"
     ELSE "none"

\* One round of prepareManagedResources, with ensureCanManage's live Get.
\* Nothing is applied before all resources have passed.
Prepare ==
  /\ At("prepare")
  /\ LET t == pass.resources[Len(pass.todo) + 1] IN
       Proceed(IF Refusal(t) = "none" THEN PrepareOf(pass, Append(pass.todo, t))
                                      ELSE FailWith(Refusal(t)))
  /\ UNCHANGED <<nsStore, bindingStore, classVars, objectVars, uid, edits>>
  /\ UNCHANGED <<queue, budgetVars>>

\* Faulty variant: an object that is there is taken for one that is as it should be.
CreateIfMissing(t) ==
  LET o == ObjectOf(RefOf(t, cur)) IN
  /\ t.fault # "rejected"
  /\ IF owner[o] = Absent THEN Admits(o) /\ SetObject(o, pass.ns.uid, t.body)
                          ELSE UNCHANGED objectVars

\* Server-side apply, not forced, of t's rendering with the managed metadata.
Apply(t) ==
  LET o == ObjectOf(RefOf(t, cur)) IN
  /\ t.fault # "rejected"
  /\ owner[o] = Absent => Admits(o)
  /\ content[o] # Drifted
  /\ SetObject(o, pass.ns.uid, t.body)

\* Why the API server refuses it, if it does.
ApplyRefusals(t) ==
  LET o == ObjectOf(RefOf(t, cur)) IN
  (IF content[o] = Drifted THEN {"ApplyConflict"} ELSE {}) \cup
  (IF t.fault = "rejected" \/ (owner[o] = Absent /\ ~Admits(o)) THEN {"ApplyFailed"} ELSE {})

ApplyResource ==
  /\ At("apply")
  /\ LET t == Head(pass.todo) IN
       \/ /\ Apply(t)
          /\ Proceed(ApplyOf([pass EXCEPT !.applied = @ \cup {RefOf(t, cur)}],
                             Tail(pass.todo)))
       \/ \E reason \in ApplyRefusals(t) :
            /\ UNCHANGED objectVars
            /\ Proceed(FailWith(reason))
  /\ UNCHANGED <<nsStore, bindingStore, classVars, uid, edits>>
  /\ UNCHANGED <<queue, budgetVars>>

\* deleteStaleManagedResources reads a recorded object past the cache ...
CheckStale ==
  /\ At("sweep")
  /\ \E r \in pass.stale :
       LET o == ObjectOf(r) IN
       Proceed(IF owner[o] = Absent THEN SweepOf(pass, pass.stale \ {r})
               ELSE IF IsManagedBy(o, pass.ns.uid)
                    THEN [pass EXCEPT !.target = r, !.step = "delete"]
               ELSE FailWith(SweepFailed))
  /\ UNCHANGED <<nsStore, bindingStore, classVars, objectVars, uid, edits>>
  /\ UNCHANGED <<queue, budgetVars>>

\* ... and then deletes it by name, whatever it has become.
DeleteStale ==
  /\ At("delete")
  /\ SetObject(ObjectOf(pass.target), Absent, Blank)
  /\ Proceed(SweepOf(pass, pass.stale \ {pass.target}))
  /\ UNCHANGED <<nsStore, bindingStore, classVars, uid, edits>>
  /\ UNCHANGED <<queue, budgetVars>>

RecordReady ==
  /\ At("recordReady")
  /\ \/ /\ StatusUpdate(pass.applied, "BindingRecorded")
        /\ Return("periodic")
     \/ /\ ~HoldsBinding
        /\ UNCHANGED bindingStore
        /\ Return("retry")
  /\ UNCHANGED <<nsStore, classVars, objectVars, uid, edits>>
  /\ UNCHANGED <<queue, budgetVars>>

\* Faulty variant: a failed pass records the previous inventory alone.
OnlyPrevious(left, right) == left
MergeResourceRefs(left, right) == left \cup right

\* updateBindingFailureStatus, and the status write of a failed cleanup of a
\* missing class.  A failed reconcile or label cleanup waits for the timer.
RecordFailure ==
  /\ At("recordFailure")
  /\ \/ /\ StatusUpdate(MergeResourceRefs(pass.binding.inventory, pass.applied), pass.reason)
        /\ Return(IF Deleting \/ ClassMissing THEN "retry" ELSE "periodic")
     \/ /\ ~HoldsBinding
        /\ UNCHANGED bindingStore
        /\ Return("retry")
  /\ UNCHANGED <<nsStore, classVars, objectVars, uid, edits>>
  /\ UNCHANGED <<queue, budgetVars>>

\* No precondition: the live binding goes, whatever version the pass has read.
DeleteBinding ==
  /\ At("deleteBinding")
  /\ WriteBinding(cur, Absent)
  /\ Proceed(Goto("removeFinalizer"))
  /\ UNCHANGED <<nsStore, classVars, objectVars, uid, edits>>
  /\ UNCHANGED <<queue, budgetVars>>

\* removeNamespaceFinalizer, after which Reconcile returns.
RemoveFinalizer ==
  /\ At("removeFinalizer")
  /\ LET result == IF ClassMissing THEN "periodic" ELSE "done" IN
       \/ /\ ~pass.ns.finalizer
          /\ UNCHANGED nsStore
          /\ Return(result)
       \/ /\ pass.ns.finalizer
          /\ HoldsNamespace
          /\ WriteNamespace(cur, [pass.ns EXCEPT !.finalizer = FALSE])
          /\ Return(result)
       \/ /\ pass.ns.finalizer
          /\ ~HoldsNamespace
          /\ UNCHANGED nsStore
          /\ Return("retry")
  /\ UNCHANGED <<bindingStore, classVars, objectVars, uid, edits>>
  /\ UNCHANGED <<queue, budgetVars>>

PassStep ==
  \/ ReadClass \/ AddFinalizer \/ Lookup \/ CreateBinding \/ UpdateBinding
  \/ RereadBinding \/ Prepare \/ ApplyResource \/ CheckStale \/ DeleteStale
  \/ RecordReady \/ RecordFailure \/ DeleteBinding \/ RemoveFinalizer

-----------------------------------------------------------------------------
(* Failures.                                                               *)

Fault ==
  /\ faults < MaxFaults
  /\ faults' = faults + 1
  /\ UNCHANGED <<classVars, uid, edits>>
  /\ UNCHANGED <<queue, crashes>>

\* An API call fails and has no effect.
CallFails ==
  /\ Fault
  /\ At("removeFinalizer") => pass.ns.finalizer
  /\ CASE pass.step \in {"readClass", "addFinalizer", "create", "update", "recordReady",
                         "recordFailure", "deleteBinding", "removeFinalizer"} ->
            Return("retry")
       [] pass.step \in {"prepare", "apply"} -> Proceed(FailWith("ApplyFailed"))
       [] pass.step \in {"sweep", "delete"} -> Proceed(FailWith(SweepFailed))
       [] OTHER -> FALSE
  /\ UNCHANGED <<nsStore, bindingStore, objectVars>>

(***************************************************************************)
(* A write takes effect but its reply is lost: the pass takes it for       *)
(* failed and returns the error, or records it if an object was written.   *)
(***************************************************************************)
NamespaceReplyLost ==
  /\ Fault
  /\ HoldsNamespace
  /\ \/ At("addFinalizer") /\ WriteNamespace(cur, [pass.ns EXCEPT !.finalizer = TRUE])
     \/ /\ At("removeFinalizer")
        /\ pass.ns.finalizer
        /\ WriteNamespace(cur, [pass.ns EXCEPT !.finalizer = FALSE])
  /\ Return("retry")
  /\ UNCHANGED <<bindingStore, objectVars>>

BindingReplyLost ==
  /\ Fault
  /\ \/ At("create") /\ binding[cur] = Absent /\ WriteBinding(cur, NewBinding)
     \/ /\ At("update")
        /\ HoldsBinding
        /\ WriteBinding(cur, [pass.binding EXCEPT !.class = pass.ns.label])
     \/ At("recordReady") /\ StatusUpdate(pass.applied, "BindingRecorded")
     \/ /\ At("recordFailure")
        /\ StatusUpdate(MergeResourceRefs(pass.binding.inventory, pass.applied), pass.reason)
     \/ At("deleteBinding") /\ WriteBinding(cur, Absent)
  /\ Return("retry")
  /\ UNCHANGED <<nsStore, objectVars>>

ApplyReplyLost ==
  /\ Fault
  /\ At("apply")
  /\ Apply(Head(pass.todo))
  /\ Proceed(FailWith("ApplyFailed"))
  /\ UNCHANGED <<nsStore, bindingStore>>

DeleteReplyLost ==
  /\ Fault
  /\ At("delete")
  /\ SetObject(ObjectOf(pass.target), Absent, Blank)
  /\ Proceed(FailWith(SweepFailed))
  /\ UNCHANGED <<nsStore, bindingStore>>

\* The controller dies between two calls.  Its successor lists everything:
\* the caches are current and every namespace and binding is enqueued.
Restart ==
  /\ crashes < MaxCrashes
  /\ crashes' = crashes + 1
  /\ pass' = Idle
  /\ timers' = {}
  /\ nsHeld' = {}
  /\ bindingHeld' = {}
  /\ nsCache' = namespace
  /\ bindingCache' = binding
  /\ nsEvents' = [n \in Namespaces |-> << >>]
  /\ bindingEvents' = [n \in Namespaces |-> << >>]
  /\ classEvents' = [c \in Classes |-> 0]
  /\ queue' = {n \in Namespaces : namespace[n] # Absent \/ binding[n] # Absent}
  /\ UNCHANGED <<namespace, binding, class, objectVars, uid, edits, faults>>

-----------------------------------------------------------------------------
Delivery ==
  \/ \E n \in Namespaces : DeliverNamespace(n) \/ DeliverBinding(n) \/ Requeue(n)
  \/ \E c \in Classes : DeliverClass(c)

Next ==
  \/ Environment /\ UNCHANGED <<workVars, budgetVars>>
  \/ Delivery
  \/ \E n \in Namespaces : Start(n)
  \/ PassStep
  \/ CallFails
  \/ NamespaceReplyLost \/ BindingReplyLost \/ ApplyReplyLost \/ DeleteReplyLost
  \/ Restart

(***************************************************************************)
(* The worker keeps running, the workqueue is first in first out, watches  *)
(* deliver, timers fire, and Kubernetes' namespace controller does its     *)
(* work.  Nothing is assumed of users, faults and crashes.                 *)
(***************************************************************************)
Fairness ==
  /\ WF_vars(PassStep)
  /\ \A n \in Namespaces :
       /\ SF_vars(Start(n))
       /\ WF_vars(DeliverNamespace(n))
       /\ WF_vars(DeliverBinding(n))
       /\ WF_vars(Requeue(n))
       /\ WF_vars(FinishDeletion(n) /\ UNCHANGED <<workVars, budgetVars>>)
  /\ \A c \in Classes : WF_vars(DeliverClass(c))
  /\ \A o \in Objects : WF_vars(CollectObject(o) /\ UNCHANGED <<workVars, budgetVars>>)

Spec == Init /\ [][Next]_vars
FairSpec == Spec /\ Fairness
=============================================================================
