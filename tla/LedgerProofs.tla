---------------------------- MODULE LedgerProofs ----------------------------
(***************************************************************************)
(* The reconciler implements InventoryLedger, for all values of the        *)
(* constants.  Most steps of a pass do not move the mapped state at all;   *)
(* each of the others maps to one action of the ledger.                    *)
(***************************************************************************)
EXTENDS ReconcilerProofs

\* q is p at another step, with something else read or left to do, and not about to delete.
SameWork(p, q) ==
  q.step \notin {"idle", "delete"} /\ q.cur = p.cur /\ q.ns.uid = p.ns.uid /\ q.applied = p.applied

\* The operators that continue a pass keep it at work.
LEMMA SweepGoesOn == ASSUME NEW p \in PassRecord, NEW s PROVE SameWork(p, SweepOf(p, s))
BY DEF SameWork, SweepOf, AfterSweep, PassRecord

\* So does going on to apply what is left, or to sweep if nothing is.
LEMMA ApplyGoesOn ==
  ASSUME NEW p \in PassRecord, NEW todo \in Seq(Templates)
  PROVE  SameWork(p, ApplyOf(p, todo))
<1> DEFINE q == [p EXCEPT !.todo = todo]
<1>1. q \in PassRecord /\ q.cur = p.cur /\ q.ns = p.ns /\ q.applied = p.applied
  BY DEF PassRecord
<1>2. CASE todo = << >>
  <2>1. ApplyOf(p, todo) = SweepOf(q, p.binding.inventory \ p.applied)
    BY <1>2 DEF ApplyOf
  <2> HIDE DEF q
  <2>. QED BY <1>1, <2>1, SweepGoesOn DEF SameWork
<1>3. CASE todo # << >>
  BY <1>3 DEF ApplyOf, SameWork, PassRecord
<1>. QED BY <1>2, <1>3

\* So does preparing one resource more, or turning to apply.
LEMMA PrepareGoesOn ==
  ASSUME NEW p \in PassRecord, NEW prepared \in Seq(Templates)
  PROVE  SameWork(p, PrepareOf(p, prepared))
<1>1. CASE Len(prepared) = Len(p.resources)
  BY <1>1, ApplyGoesOn DEF PrepareOf
<1>2. CASE Len(prepared) # Len(p.resources)
  BY <1>2 DEF PrepareOf, SameWork, PassRecord
<1>. QED BY <1>1, <1>2

\* So does starting on the class once the binding is read.
LEMMA WithBindingGoesOn == ASSUME NEW p \in PassRecord PROVE SameWork(p, WithBinding(p))
BY SweepGoesOn, PrepareGoesOn, EmptySeq DEF WithBinding

-----------------------------------------------------------------------------
(* The steps of the mapped state.                                          *)

Opened == {n \in Namespaces : binding[n] # Absent}

\* Every binding is there as before, with the inventory it had.
InventoriesKept ==
  \A n \in Namespaces : /\ Recorded(binding'[n]) = Recorded(binding[n])
                        /\ binding'[n] = Absent <=> binding[n] = Absent

\* The object the pass is about to delete.
Aims == IF At("delete") THEN {ObjectOf(pass.target)} ELSE {}

\* What leaves objects, inventories and the names due alone, and the pass at work.
LEMMA LedgerUnmoved ==
  ASSUME UNCHANGED owner, queue' \cup timers' = queue \cup timers,
         pass' = pass \/ (~At("idle") /\ ~At("delete") /\ SameWork(pass, pass')),
         InventoriesKept
  PROVE  UNCHANGED Ledger!vars
<1>1. [n \in Namespaces |-> Recorded(binding[n])]' = [n \in Namespaces |-> Recorded(binding[n])]
  BY DEF InventoriesKept
<1>2. {n \in Namespaces : binding[n] # Absent}' = {n \in Namespaces : binding[n] # Absent}
  BY DEF InventoriesKept
<1>3. UNCHANGED <<pass.applied, cur, IF At("idle") THEN Absent ELSE pass.ns.uid>>
  BY DEF At, cur, SameWork
<1>4. UNCHANGED Aims
  BY DEF Aims, At, SameWork
<1>. QED BY <1>1, <1>2, <1>3, <1>4 DEF Ledger!vars, Aims

\* A pass that returns without a status write gives up.
LEMMA ReturnGivesUp ==
  ASSUME Shape, ~At("idle"), UNCHANGED <<owner, queue>>, InventoriesKept,
         NEW result, Return(result), pass.applied # {} => cur \in timers'
  PROVE  Ledger!GiveUp
<1>1. pass'.step = "idle" /\ pass'.applied = {} /\ cur' = Absent
  BY DEF Return, Idle, cur
<1>2. timers' \in {timers, timers \cup {cur}}
  BY DEF Return
<1>3. (queue \cup timers)' \in {queue \cup timers, (queue \cup timers) \cup {cur}}
  BY <1>2
<1>4. cur # Absent
  BY SentinelAssumption DEF Shape, PassShape
<1>5. /\ UNCHANGED [n \in Namespaces |-> Recorded(binding[n])]
      /\ UNCHANGED {n \in Namespaces : binding[n] # Absent}
  BY DEF InventoriesKept
<1>. QED BY <1>1, <1>3, <1>4, <1>5 DEF Ledger!GiveUp, Ledger!Working, Ledger!Rest, At

\* A status write that succeeds posts.
LEMMA StatusPosts ==
  ASSUME Shape, HeldIsCurrent, pass.step \in {"recordReady", "recordFailure"},
         UNCHANGED <<owner, queue>>,
         NEW inventory \in SUBSET Refs, NEW reason \in Reasons \cup {"none"},
         StatusUpdate(inventory, reason), NEW result, Return(result),
         pass.applied \subseteq inventory,
         inventory \subseteq pass.binding.inventory \cup pass.applied,
         \A r \in pass.binding.inventory \ inventory : owner[ObjectOf(r)] \in {Absent, Unowned}
  PROVE  Ledger!Post(inventory)
<1> DEFINE new == [pass.binding EXCEPT !.inventory = inventory, !.reason = reason]
<1>1. /\ new \in BindingObject /\ new.inventory = inventory
      /\ cur \in Namespaces /\ pass.binding \in BindingObject
      /\ binding \in [Namespaces -> BindingObject \cup {Absent}]
  BY WorkingPass DEF BindingObject, Shape, TypeOK, ClusterTypeOK
<1>2. WriteBinding(cur, new) /\ binding[cur] = pass.binding
  BY DEF StatusUpdate, HoldsBinding, HeldIsCurrent, BindingSteps
<1> HIDE DEF new
<1>3. binding' = [binding EXCEPT ![cur] = new]
  BY <1>1, <1>2, WriteBindingTypes
<1>4. pass.binding # Absent /\ new # Absent /\ cur # Absent
  BY <1>1, SentinelAssumption
<1>5. Recorded(binding[cur]) = pass.binding.inventory /\ Recorded(new) = inventory
  BY <1>1, <1>2, <1>4 DEF Recorded
<1>6. [n \in Namespaces |-> Recorded(binding[n])]'
        = [[n \in Namespaces |-> Recorded(binding[n])] EXCEPT ![cur] = inventory]
  BY <1>1, <1>3, <1>5
<1>7. UNCHANGED {n \in Namespaces : binding[n] # Absent} /\ cur \in {n \in Namespaces : binding[n] # Absent}
  BY <1>1, <1>2, <1>3, <1>4
<1>8. pass'.step = "idle" /\ pass'.applied = {} /\ cur' = Absent
  BY DEF Return, Idle, cur
<1>9. timers' \in {timers, timers \cup {cur}}
  BY DEF Return
<1>10. (queue \cup timers)' \in {queue \cup timers, (queue \cup timers) \cup {cur}}
  BY <1>9
<1>11. \A r \in Refs : [q \in Refs |-> ObjectOf(q)][r] = ObjectOf(r)
  OBVIOUS
<1>12. pass.binding.inventory \in SUBSET Refs /\ [n \in Namespaces |-> Recorded(binding[n])][cur] = pass.binding.inventory
  BY <1>1, <1>5 DEF BindingObject
<1>. QED BY <1>4, <1>6, <1>7, <1>8, <1>10, <1>12 DEF Ledger!Post, Ledger!Working, Ledger!Rest, At

\* An apply that takes effect claims its object.
LEMMA ApplyTakes ==
  ASSUME Shape, ClaimsHold, At("apply"), Apply(Head(pass.todo)),
         UNCHANGED <<binding, queue, timers>>,
         pass'.step \notin {"idle", "delete"}, cur' = cur, pass'.ns.uid = pass.ns.uid
  PROVE  /\ RefOf(Head(pass.todo), cur) \in Refs
         /\ Ledger!Take(RefOf(Head(pass.todo), cur))
<1> DEFINE r == RefOf(Head(pass.todo), cur)
<1>1. /\ pass.todo \in Seq(Templates) /\ pass.todo # << >> /\ cur \in Namespaces
  BY WorkingPass DEF Shape, PassShape, At
<1>2. Head(pass.todo) \in Templates
  BY NextToApply
<1>3. r \in Refs /\ owner' = [owner EXCEPT ![ObjectOf(r)] = pass.ns.uid]
  BY <1>2, ApplyTypes
<1>4. 1 \in DOMAIN pass.todo /\ Head(pass.todo) = pass.todo[1]
  BY <1>1, EmptySeq
<1>5. Claimable(r)
  BY <1>4 DEF ClaimsHold, At
<1> HIDE DEF r
<1>6. cur # Absent /\ [q \in Refs |-> ObjectOf(q)][r] = ObjectOf(r)
  BY <1>1, <1>3, SentinelAssumption
<1>. QED BY <1>3, <1>5, <1>6 DEF Ledger!Take, Ledger!Working, Ledger!Claimable, Claimable, At, Recorded, r

\* Everything in the mapped state that goes with the bindings.
LEMMA BindingWritten ==
  ASSUME Shape, NEW n \in Namespaces, NEW v \in BindingObject \cup {Absent}, WriteBinding(n, v)
  PROVE  /\ [m \in Namespaces |-> Recorded(binding[m])]'
              = [[m \in Namespaces |-> Recorded(binding[m])] EXCEPT ![n] = Recorded(v)]
         /\ {m \in Namespaces : binding[m] # Absent}'
              = IF v = Absent THEN {m \in Namespaces : binding[m] # Absent} \ {n}
                              ELSE {m \in Namespaces : binding[m] # Absent} \cup {n}
<1>1. binding' = [binding EXCEPT ![n] = v] /\ binding \in [Namespaces -> BindingObject \cup {Absent}]
  BY WriteBindingTypes DEF Shape, TypeOK, ClusterTypeOK
<1>. QED BY <1>1

\* A binding that is deleted, by a pass or by hand, is a ledger thrown away.
LEMMA DeletionForgets ==
  ASSUME Shape, NEW n \in Namespaces, WriteBinding(n, Absent),
         UNCHANGED <<owner, queue, timers>>,
         pass' = pass \/ (~At("idle") /\ ~At("delete") /\ SameWork(pass, pass'))
  PROVE  Ledger!Forget(n)
<1>1. UNCHANGED <<pass.applied, cur, IF At("idle") THEN Absent ELSE pass.ns.uid, Aims>>
  BY DEF At, cur, SameWork, Aims
<1>2. Recorded(Absent) = {}
  BY DEF Recorded
<1>. QED BY <1>1, <1>2, BindingWritten DEF Ledger!Forget, Ledger!GoesOn, Aims

\* A pass that returns an error after a write is due again.
LEMMA ReturnResigns ==
  ASSUME Shape, ~At("idle"), pass.applied = {}, UNCHANGED queue, Return("retry")
  PROVE  Ledger!Resigns
<1>1. pass'.step = "idle" /\ pass'.applied = {} /\ cur' = Absent /\ timers' = timers \cup {cur}
  BY DEF Return, Idle, cur
<1>2. cur # Absent
  BY SentinelAssumption DEF Shape, PassShape
<1>. QED BY <1>1, <1>2 DEF Ledger!Resigns, Ledger!Working, Ledger!Rest, At

-----------------------------------------------------------------------------
(* The actions of the reconciler, one lemma each or one for several alike. *)

\* Users and Kubernetes are the world, except that they may delete a binding.
LEMMA EnvironmentIsWorld ==
  ASSUME Shape, Shape', Environment, UNCHANGED <<workVars, budgetVars>>
  PROVE  Ledger!World \/ \E n \in Namespaces : Ledger!Forget(n)
<1>1. pass' = pass /\ queue' = queue /\ timers' = timers
  BY DEF workVars
<1>2. CASE UNCHANGED bindingVars
  <2>1. binding' = binding /\ \A o \in Objects : owner'[o] \in {owner[o], Absent, Unowned}
    BY <1>2, EnvironmentDisowns DEF bindingVars, bindingStore
  <2>2. owner' \in [Objects -> UIDs \cup {Absent, Unowned}]
    BY DEF Shape, TypeOK, ClusterTypeOK
  <2>. QED BY <1>1, <2>1, <2>2 DEF Ledger!World, At, cur, Recorded
<1>3. ASSUME NEW n \in Namespaces, DeleteBindingByHand(n)
      PROVE  Ledger!Forget(n)
  BY <1>1, <1>3, DeletionForgets DEF DeleteBindingByHand, objectVars
<1>4. ASSUME ~ \E n \in Namespaces : DeleteBindingByHand(n) PROVE UNCHANGED bindingVars
  <2>1. ASSUME NEW n \in Namespaces, NEW l \in Classes \cup {NoLabel},
               CreateNamespace(n, l) \/ Relabel(n, l)
        PROVE  UNCHANGED bindingVars
    BY <2>1 DEF CreateNamespace, Relabel, EditNamespace
  <2>2. ASSUME NEW n \in Namespaces, DeleteNamespace(n) \/ FinishDeletion(n)
        PROVE  UNCHANGED bindingVars
    BY <2>2 DEF DeleteNamespace, EditNamespace, FinishDeletion
  <2>3. ASSUME NEW c \in Classes, NEW s \in ResourceLists \cup {Absent}, SetClass(c, s)
        PROVE  UNCHANGED bindingVars
    BY <2>3 DEF SetClass
  <2>4. ASSUME NEW o \in Objects, NEW what \in {Blank, Drifted}, CreateObject(o, what)
        PROVE  UNCHANGED bindingVars
    BY <2>4 DEF CreateObject, EditObject
  <2>5. ASSUME NEW o \in Objects,
               DeleteObject(o) \/ StripMarkers(o) \/ DriftObject(o) \/ CollectObject(o)
        PROVE  UNCHANGED bindingVars
    BY <2>5 DEF DeleteObject, StripMarkers, DriftObject, CollectObject, EditObject
  <2>. QED BY <1>4, <2>1, <2>2, <2>3, <2>4, <2>5 DEF Environment
<1>. QED BY <1>2, <1>3, <1>4

\* Watch events and timers make names due.
LEMMA DeliveryNotices == ASSUME Delivery PROVE Ledger!Notice
<1>1. UNCHANGED <<owner, binding, pass>>
  BY DEF Delivery, DeliverNamespace, DeliverBinding, DeliverClass, Requeue, bindingVars,
         bindingStore, clusterVars, objectVars
<1>2. (queue \cup timers) \subseteq (queue \cup timers)'
  BY DEF Delivery, DeliverNamespace, DeliverBinding, DeliverClass, Requeue
<1>. QED BY <1>1, <1>2 DEF Ledger!Notice, At, cur, Recorded

\* The worker takes a key from the workqueue.
LEMMA StartTakesUp == ASSUME Shape, NEW n \in Namespaces, Start(n) PROVE Ledger!TakeUp(n)
<1>1. /\ UNCHANGED <<owner, binding, timers>> /\ queue' = queue \ {n} /\ n \in queue
      /\ pass.step = "idle" /\ cur = Absent /\ pass.applied = {}
  BY DEF Start, bindingVars, bindingStore, objectVars, At, Shape, PassShape
<1>2. (queue \cup timers)' \in {queue \cup timers, (queue \cup timers) \ {n}}
  BY <1>1
<1>3. CASE pass' = pass
  BY <1>1, <1>2, <1>3 DEF Ledger!TakeUp, Ledger!Working, At, cur, Recorded
<1>4. CASE pass' # pass
  <2>1. /\ pass' = [Idle EXCEPT !.cur = n, !.ns = nsCache[n],
                       !.step = IF nsCache[n].deleting \/ nsCache[n].label = NoLabel
                                THEN "lookup" ELSE "readClass"]
        /\ nsCache[n] # Absent
    BY <1>4 DEF Start
  <2>2. pass'.step \notin {"idle", "delete"} /\ pass'.cur = n /\ pass'.ns = nsCache[n] /\ pass'.applied = {}
    BY <2>1 DEF Idle
  <2>3. nsCache[n].uid \in UIDs
    BY <2>1 DEF Shape, TypeOK, ClusterTypeOK, NamespaceObject
  <2>. QED BY <1>1, <1>2, <2>2, <2>3 DEF Ledger!TakeUp, Ledger!Working, At, cur, Recorded
<1>. QED BY <1>3, <1>4

\* The steps of a pass that only read, or write to the namespace alone.
LEMMA ReadingSteps ==
  ASSUME Shape, ReadClass \/ AddFinalizer \/ Lookup \/ RereadBinding \/ Prepare \/ CheckStale
  PROVE  \/ Ledger!GiveUp \/ UNCHANGED Ledger!vars
         \/ \E o \in Objects : Ledger!Aim(o)
<1>1. UNCHANGED <<owner, binding, queue>> /\ ~At("idle") /\ ~At("delete")
  BY DEF ReadClass, AddFinalizer, Lookup, RereadBinding, Prepare, CheckStale, bindingStore,
         objectVars, At
<1>2. pass \in PassRecord /\ cur \in Namespaces
  BY <1>1 DEF Shape, TypeOK, PassShape
<1>3. ASSUME Return("retry"), ReadClass \/ AddFinalizer \/ Lookup \/ RereadBinding
      PROVE  Ledger!GiveUp
  BY <1>1, <1>3, ReturnGivesUp DEF Return, InventoriesKept
<1>4. ASSUME NEW p \in PassRecord, SameWork(pass, p), SameWork(p, pass'), UNCHANGED timers
      PROVE  UNCHANGED Ledger!vars
  BY <1>1, <1>4, LedgerUnmoved DEF SameWork, InventoriesKept
<1>5. CASE ReadClass
  <2> DEFINE found == class[pass.ns.label]
  <2>1. pass' = [pass EXCEPT !.resources = found, !.step = AfterReadClass(found)] /\ UNCHANGED timers
    BY <1>5 DEF ReadClass, Proceed
  <2>2. AfterReadClass(found) \notin {"idle", "delete"}
    BY DEF AfterReadClass
  <2> HIDE DEF found
  <2>3. SameWork(pass, pass')
    BY <1>2, <2>1, <2>2 DEF SameWork, PassRecord, cur
  <2>. QED BY <1>1, <2>1, <2>3, LedgerUnmoved DEF InventoriesKept
<1>6. CASE AddFinalizer
  <2>1. CASE pass' = [pass EXCEPT !.ns = [pass.ns EXCEPT !.finalizer = TRUE], !.step = "lookup"]
             /\ UNCHANGED timers
    <3>1. pass.ns \in NamespaceObject
      BY <1>6 DEF AddFinalizer, Shape, TypeOK, PassShape, PassRecord, At
    <3>2. SameWork(pass, pass')
      BY <1>2, <2>1, <3>1 DEF SameWork, PassRecord, NamespaceObject
    <3>. QED BY <1>1, <2>1, <3>2, LedgerUnmoved DEF InventoriesKept
  <2>. QED BY <1>3, <1>6, <2>1 DEF AddFinalizer, Proceed
<1>7. ASSUME NEW b \in BindingObject \cup {Absent}
      PROVE  LET p == [pass EXCEPT !.binding = b] IN p \in PassRecord /\ SameWork(pass, p)
  BY <1>1, <1>2, <1>7 DEF SameWork, PassRecord, At
<1>8. bindingCache[cur] \in BindingObject \cup {Absent}
  BY <1>2 DEF Shape, TypeOK, ClusterTypeOK
<1>9. CASE Lookup
  <2> DEFINE held == [pass EXCEPT !.binding = bindingCache[cur]]
  <2>1. held \in PassRecord /\ SameWork(pass, held)
    BY <1>7, <1>8
  <2>2. CASE pass' = Goto(IF Deleting \/ Unlabelled THEN "removeFinalizer" ELSE "create")
             /\ UNCHANGED timers
    <3>1. SameWork(pass, pass')
      BY <1>2, <2>2 DEF Goto, SameWork, PassRecord
    <3>. QED BY <1>1, <2>2, <3>1, LedgerUnmoved DEF InventoriesKept
  <2>3. CASE (\E s : pass' = SweepOf(held, s)) /\ UNCHANGED timers
    BY <1>4, <2>1, <2>3, SweepGoesOn
  <2>4. CASE pass' = [held EXCEPT !.step = "update"] /\ UNCHANGED timers
    <3> HIDE DEF held
    <3>1. SameWork(held, pass')
      BY <2>1, <2>4 DEF SameWork, PassRecord
    <3>. QED BY <1>4, <2>1, <2>4, <3>1
  <2>5. CASE pass' = WithBinding(held) /\ UNCHANGED timers
    BY <1>4, <2>1, <2>5, WithBindingGoesOn
  <2>. QED BY <1>9, <2>2, <2>3, <2>4, <2>5 DEF Lookup, Proceed, TakeCachedBinding
<1>10. CASE RereadBinding
  <2>1. CASE Return("retry")
    BY <1>3, <1>10, <2>1
  <2>2. CASE pass' = WithBinding([pass EXCEPT !.binding = bindingCache[cur]]) /\ UNCHANGED timers
    BY <1>4, <1>7, <1>8, <2>2, WithBindingGoesOn
  <2>. QED BY <1>10, <2>1, <2>2 DEF RereadBinding, TakeCachedBinding
<1>11. SameWork(pass, pass)
  BY <1>1 DEF SameWork, At
<1>12. ASSUME NEW reason, pass' = FailWith(reason), UNCHANGED timers PROVE UNCHANGED Ledger!vars
  <2>1. SameWork(pass, pass')
    BY <1>2, <1>12 DEF FailWith, SameWork, PassRecord
  <2>. QED BY <1>1, <1>12, <2>1, LedgerUnmoved DEF InventoriesKept
<1>13. CASE Prepare
  <2> DEFINE t == pass.resources[Len(pass.todo) + 1]
  <2>1. Append(pass.todo, t) \in Seq(Templates)
    BY <1>13, NextToPrepare DEF Prepare, At
  <2> HIDE DEF t
  <2>2. CASE pass' = PrepareOf(pass, Append(pass.todo, t)) /\ UNCHANGED timers
    BY <1>2, <1>4, <1>11, <2>1, <2>2, PrepareGoesOn
  <2>. QED BY <1>12, <1>13, <2>2 DEF Prepare, Proceed, t
<1>14. CASE CheckStale
  <2> PICK r \in pass.stale :
        Proceed(IF owner[ObjectOf(r)] = Absent THEN SweepOf(pass, pass.stale \ {r})
                ELSE IF IsManagedBy(ObjectOf(r), pass.ns.uid)
                     THEN [pass EXCEPT !.target = r, !.step = "delete"]
                ELSE FailWith(SweepFailed))
    BY <1>14 DEF CheckStale
  <2>1. UNCHANGED timers
    BY DEF Proceed
  <2>2. CASE pass' = SweepOf(pass, pass.stale \ {r})
    BY <1>2, <1>4, <1>11, <2>1, <2>2, SweepGoesOn
  <2>3. CASE /\ pass' = [pass EXCEPT !.target = r, !.step = "delete"]
             /\ IsManagedBy(ObjectOf(r), pass.ns.uid)
    <3>1. /\ pass'.step = "delete" /\ pass'.target = r /\ cur' = cur
          /\ pass'.ns = pass.ns /\ pass'.applied = pass.applied
      BY <1>2, <2>3 DEF PassRecord, cur
    <3>2. Aims' = {ObjectOf(r)} /\ owner[ObjectOf(r)] = pass.ns.uid /\ cur # Absent
      BY <1>2, <2>3, <3>1, SentinelAssumption DEF Aims, At, IsManagedBy
    <3>3. ObjectOf(r) \in Objects
      BY <1>14, WorkingPass, RefsAndObjects DEF CheckStale, At
    <3>4. Ledger!Aim(ObjectOf(r))
      BY <1>1, <2>1, <3>1, <3>2 DEF Ledger!Aim, Ledger!Working, At, Recorded, Aims
    <3>. QED BY <3>3, <3>4
  <2>. QED BY <1>12, <2>1, <2>2, <2>3 DEF Proceed
<1>. QED BY <1>5, <1>6, <1>9, <1>10, <1>13, <1>14

\* The step from the last apply or delete on stays at work.
LEMMA ApplyIsClaim ==
  ASSUME Shape, ClaimsHold, ApplyResource \/ ApplyReplyLost
  PROVE  \/ \E ref \in Refs : Ledger!Claim(ref) \/ Ledger!ClaimUnnoticed(ref)
         \/ UNCHANGED Ledger!vars
<1> DEFINE t == Head(pass.todo)
           r == RefOf(t, cur)
           p == [pass EXCEPT !.applied = @ \cup {r}]
<1>1. /\ At("apply") /\ UNCHANGED <<binding, queue, timers>>
      /\ pass \in PassRecord /\ pass.applied \in SUBSET Refs
  BY WorkingPass DEF ApplyResource, ApplyReplyLost, Fault, bindingStore, At, Proceed
<1>2. Tail(pass.todo) \in Seq(Templates) /\ t \in Templates
  BY <1>1, NextToApply
<1>3. ASSUME NEW reason, pass' = FailWith(reason) PROVE SameWork(pass, pass')
  BY <1>1, <1>3 DEF FailWith, SameWork, PassRecord
<1>4. CASE Apply(t) /\ pass' = ApplyOf(p, Tail(pass.todo))
  <2>1. r \in Refs
    BY <1>1, <1>2, <1>4, ApplyTypes
  <2>2. /\ p \in PassRecord /\ p.cur = pass.cur /\ p.ns = pass.ns
        /\ p.applied = pass.applied \cup {r}
    BY <1>1, <2>1 DEF PassRecord
  <2> HIDE DEF p
  <2>3. SameWork(p, pass')
    BY <1>2, <1>4, <2>2, ApplyGoesOn
  <2>4. /\ pass'.step \notin {"idle", "delete"} /\ cur' = cur /\ pass'.ns.uid = pass.ns.uid
        /\ pass'.applied = pass.applied \cup {r}
    BY <2>2, <2>3 DEF SameWork, cur
  <2>5. Ledger!Take(r)
    BY <1>1, <1>4, <2>4, ApplyTakes
  <2> HIDE DEF r
  <2>. QED BY <2>1, <2>4, <2>5 DEF Ledger!Claim
<1>5. CASE Apply(t) /\ \E reason : pass' = FailWith(reason)
  <2>1. SameWork(pass, pass')
    BY <1>3, <1>5
  <2>2. r \in Refs /\ Ledger!Take(r)
    BY <1>1, <1>5, <2>1, ApplyTakes DEF SameWork, cur
  <2> HIDE DEF r
  <2>. QED BY <2>1, <2>2 DEF Ledger!ClaimUnnoticed, SameWork
<1>6. CASE UNCHANGED objectVars /\ \E reason : pass' = FailWith(reason)
  BY <1>1, <1>3, <1>6, LedgerUnmoved DEF objectVars, At, InventoriesKept
<1>. QED BY <1>4, <1>5, <1>6 DEF ApplyResource, ApplyReplyLost, Proceed

\* A stale object that is deleted is released, also if the reply is lost.
LEMMA DeletionReleases ==
  ASSUME Shape, ClaimsHold, DeleteStale \/ DeleteReplyLost
  PROVE  \E o \in Objects : Ledger!Release(o)
<1> DEFINE o == ObjectOf(pass.target)
<1>1. /\ At("delete") /\ UNCHANGED <<binding, queue, timers>>
      /\ pass \in PassRecord /\ cur \in Namespaces /\ pass.stale \in SUBSET Refs
      /\ pass.target \in pass.stale
      /\ \/ pass' = SweepOf(pass, pass.stale \ {pass.target})
         \/ \E reason : pass' = FailWith(reason)
      /\ owner' = [owner EXCEPT ![o] = Absent]
  BY WorkingPass
     DEF DeleteStale, DeleteReplyLost, Fault, bindingStore, At, Proceed, SetObject, Shape, PassShape
<1>2. o \in Objects /\ owner[o] \in {pass.ns.uid, Absent, Unowned} /\ cur # Absent
  BY <1>1, RefsAndObjects, SentinelAssumption DEF ClaimsHold, Claimable
<1>3. SameWork(pass, pass')
  <2>1. ASSUME NEW reason, pass' = FailWith(reason) PROVE SameWork(pass, pass')
    BY <1>1, <2>1 DEF FailWith, SameWork, PassRecord
  <2>. QED BY <1>1, <2>1, SweepGoesOn
<1>4. Aims = {o} /\ Aims' = {}
  BY <1>1, <1>3 DEF Aims, At, SameWork
<1> HIDE DEF o
<1>5. Ledger!Release(o)
  BY <1>1, <1>2, <1>3, <1>4
     DEF Ledger!Release, Ledger!Claimable, SameWork, At, cur, Recorded, Aims
<1>. QED BY <1>2, <1>5

\* The writes of a pass to its binding before and after its work.
LEMMA BindingWrites ==
  ASSUME Shape, HeldIsCurrent,
         \/ CreateBinding \/ UpdateBinding \/ DeleteBinding
         \/ BindingReplyLost /\ pass.step \in {"create", "update", "deleteBinding"}
  PROVE  \/ Ledger!Open \/ Ledger!GiveUp \/ UNCHANGED Ledger!vars
         \/ \E n \in Namespaces : Ledger!Forget(n)
<1>1. /\ ~At("idle") /\ ~At("delete") /\ cur \in Namespaces /\ pass \in PassRecord
      /\ UNCHANGED <<owner, queue>> /\ pass.applied = {}
  BY DEF CreateBinding, UpdateBinding, DeleteBinding, BindingReplyLost, Fault, At, Shape,
     PassShape, TypeOK, objectVars
<1>2. ASSUME NEW step, step \notin {"idle", "delete"}, NEW b,
             pass' = [pass EXCEPT !.binding = b, !.step = step]
      PROVE  SameWork(pass, pass')
  BY <1>1, <1>2 DEF SameWork, PassRecord
<1>3. ASSUME NEW step, step \notin {"idle", "delete"}, pass' = Goto(step)
      PROVE  SameWork(pass, pass')
  BY <1>1, <1>3 DEF SameWork, PassRecord, Goto
<1>4. CASE Return("retry") /\ UNCHANGED bindingStore
  BY <1>1, <1>4, ReturnGivesUp DEF bindingStore, InventoriesKept
<1>5. CASE /\ At("create") /\ binding[cur] = Absent /\ WriteBinding(cur, NewBinding)
           /\ Proceed(Goto("reread")) \/ Return("retry")
  <2>1. pass.ns \in NamespaceObject /\ pass.ns.label # NoLabel
    BY <1>5 DEF At, Shape, TypeOK, PassRecord, PassShape, Deleting
  <2>2. NewBinding \in BindingObject /\ NewBinding.inventory = {}
    BY <2>1 DEF NewBinding, NamespaceObject, BindingObject, Reasons
  <2>3. NewBinding # Absent /\ cur # Absent
    BY <1>1, <2>2, SentinelAssumption
  <2>4. WriteBinding(cur, NewBinding)
    BY <1>5
  <2> HIDE DEF NewBinding
  <2>5. /\ [m \in Namespaces |-> Recorded(binding[m])]'
             = [[m \in Namespaces |-> Recorded(binding[m])] EXCEPT ![cur] = {}]
        /\ {m \in Namespaces : binding[m] # Absent}' = {m \in Namespaces : binding[m] # Absent} \cup {cur}
    BY <1>1, <2>2, <2>3, <2>4, BindingWritten DEF Recorded
  <2>6. UNCHANGED [m \in Namespaces |-> Recorded(binding[m])]
    BY <1>1, <1>5, <2>5 DEF Recorded
  <2>7. CASE Proceed(Goto("reread"))
    <3>1. SameWork(pass, pass') /\ UNCHANGED timers
      BY <1>3, <2>7 DEF Proceed
    <3>2. Aims = {} /\ Aims' = {}
      BY <1>1, <3>1 DEF Aims, At, SameWork
    <3>. QED BY <1>1, <1>5, <2>3, <2>5, <2>6, <3>1, <3>2
         DEF Ledger!Open, Ledger!GoesOn, Ledger!Working, SameWork, At, cur, Aims
  <2>8. CASE Return("retry")
    BY <1>1, <1>5, <2>3, <2>5, <2>6, <2>8, ReturnResigns DEF Ledger!Open, Ledger!Working
  <2>. QED BY <1>5, <2>7, <2>8
<1>6. CASE /\ At("update") /\ HoldsBinding
           /\ WriteBinding(cur, [pass.binding EXCEPT !.class = pass.ns.label])
           /\ \/ Proceed([pass EXCEPT !.binding = [pass.binding EXCEPT !.class = pass.ns.label],
                                    !.step = "reread"])
              \/ Return("retry")
  <2> DEFINE switched == [pass.binding EXCEPT !.class = pass.ns.label]
  <2>1. /\ pass.ns \in NamespaceObject /\ pass.ns.label # NoLabel
        /\ pass.binding \in BindingObject /\ binding[cur] = pass.binding
    BY <1>6 DEF At, Shape, TypeOK, PassRecord, PassShape, Deleting,
       HoldsBinding, HeldIsCurrent, BindingSteps
  <2>2. switched \in BindingObject /\ switched.inventory = pass.binding.inventory
    BY <2>1 DEF NamespaceObject, BindingObject
  <2>3. /\ WriteBinding(cur, switched)
        /\ (SameWork(pass, pass') /\ UNCHANGED timers) \/ Return("retry")
    BY <1>2, <1>6 DEF Proceed
  <2> HIDE DEF switched
  <2>4. binding' = [binding EXCEPT ![cur] = switched] /\ binding \in [Namespaces -> BindingObject \cup {Absent}]
    BY <1>1, <2>2, <2>3, WriteBindingTypes DEF Shape, TypeOK, ClusterTypeOK
  <2>5. InventoriesKept
    BY <1>1, <2>1, <2>2, <2>4, SentinelAssumption DEF Recorded, InventoriesKept
  <2>6. CASE SameWork(pass, pass') /\ UNCHANGED timers
    BY <1>1, <2>5, <2>6, LedgerUnmoved
  <2>7. CASE Return("retry")
    BY <1>1, <2>5, <2>7, ReturnGivesUp
  <2>. QED BY <2>3, <2>6, <2>7
<1>7. CASE At("deleteBinding") /\ WriteBinding(cur, Absent) /\ Proceed(Goto("removeFinalizer"))
  BY <1>1, <1>3, <1>7, DeletionForgets DEF Proceed
<1>8. CASE At("deleteBinding") /\ WriteBinding(cur, Absent) /\ Return("retry")
  <2>1. Recorded(Absent) = {}
    BY DEF Recorded
  <2>. QED BY <1>1, <1>8, <2>1, BindingWritten, ReturnResigns DEF Ledger!Forget
<1>. QED BY <1>4, <1>5, <1>6, <1>7, <1>8
     DEF CreateBinding, UpdateBinding, DeleteBinding, BindingReplyLost, At

\* The ends of a pass.
LEMMA LastSteps ==
  ASSUME IInv,
         \/ RecordReady \/ RecordFailure \/ RemoveFinalizer \/ NamespaceReplyLost
         \/ BindingReplyLost /\ pass.step \in {"recordReady", "recordFailure"}
  PROVE  Ledger!GiveUp \/ \E inventory \in SUBSET Refs : Ledger!Post(inventory)
<1>1. /\ Shape /\ HeldIsCurrent /\ ~At("idle") /\ UNCHANGED <<owner, queue>>
      /\ \E result : Return(result)
  BY DEF IInv, Shape, RecordReady, RecordFailure, RemoveFinalizer, NamespaceReplyLost,
     BindingReplyLost, Fault, objectVars, At
<1>2. CASE RemoveFinalizer \/ NamespaceReplyLost
  <2>1. pass.applied = {} /\ UNCHANGED binding
    BY <1>2 DEF RemoveFinalizer, NamespaceReplyLost, At, IInv, PassShape, bindingStore
  <2>. QED BY <1>1, <2>1, ReturnGivesUp DEF InventoriesKept
<1>3. CASE Return("retry") /\ UNCHANGED bindingStore
  BY <1>1, <1>3, ReturnGivesUp DEF bindingStore, Return, InventoriesKept
<1>4. CASE At("recordReady") /\ StatusUpdate(pass.applied, "BindingRecorded")
  <2>1. pass.step = "recordReady" /\ pass.applied \in SUBSET Refs /\ pass.stale = {} /\ ~Deleting
    BY <1>1, <1>4, WorkingPass DEF At, Shape, PassShape, Reconciling
  <2>2. \A r \in pass.binding.inventory \ pass.applied : owner[ObjectOf(r)] \in {Absent, Unowned}
    BY <2>1 DEF IInv, SweptIsGone, Due
  <2>3. Ledger!Post(pass.applied)
    BY <1>1, <1>4, <2>1, <2>2, StatusPosts DEF Reasons
  <2>. QED BY <2>1, <2>3
<1>5. CASE /\ At("recordFailure")
           /\ StatusUpdate(MergeResourceRefs(pass.binding.inventory, pass.applied), pass.reason)
  <2> DEFINE inventory == MergeResourceRefs(pass.binding.inventory, pass.applied)
  <2>1. pass.step = "recordFailure" /\ pass.reason \in Reasons \cup {"none"}
    BY <1>1, <1>5 DEF At, Shape, TypeOK, PassRecord
  <2>2. /\ inventory \in SUBSET Refs /\ pass.binding.inventory \ inventory = {}
        /\ inventory = pass.binding.inventory \cup pass.applied
    BY <1>1, <2>1, WorkingPass DEF MergeResourceRefs
  <2>3. StatusUpdate(inventory, pass.reason)
    BY <1>5
  <2> HIDE DEF inventory
  <2>4. Ledger!Post(inventory)
    BY <1>1, <2>1, <2>2, <2>3, StatusPosts
  <2>. QED BY <2>2, <2>4
<1>. QED BY <1>2, <1>3, <1>4, <1>5 DEF RecordReady, RecordFailure, BindingReplyLost, At

\* A call that fails ends the pass or is about to be recorded; a delete comes to nothing.
LEMMA FailureGivesUp ==
  ASSUME Shape, CallFails PROVE Ledger!GiveUp \/ Ledger!Miss \/ UNCHANGED Ledger!vars
<1>1. UNCHANGED <<owner, binding, queue>>
  BY DEF CallFails, Fault, bindingStore, objectVars
<1>2. ~At("idle") /\ pass \in PassRecord
  BY DEF CallFails, At, Shape, TypeOK
<1>3. CASE Return("retry")
  BY <1>1, <1>2, <1>3, ReturnGivesUp DEF Return, InventoriesKept
<1>4. ASSUME NEW reason, Proceed(FailWith(reason)) PROVE Ledger!Miss \/ UNCHANGED Ledger!vars
  <2>1. SameWork(pass, pass') /\ UNCHANGED timers
    BY <1>2, <1>4 DEF FailWith, SameWork, PassRecord, Proceed
  <2>2. CASE At("delete")
    <3>1. Aims' = {}
      BY <2>1 DEF Aims, At, SameWork
    <3>. QED BY <1>1, <1>2, <2>1, <3>1 DEF Ledger!Miss, SameWork, At, cur, Recorded, Aims
  <2>3. CASE ~At("delete")
    BY <1>1, <1>2, <2>1, <2>3, LedgerUnmoved DEF InventoriesKept
  <2>. QED BY <2>2, <2>3
<1>. QED BY <1>3, <1>4 DEF CallFails

\* A restart makes every name with a binding due.
LEMMA RestartCrashes == ASSUME Restart PROVE Ledger!Crash
<1>1. pass' = Idle /\ UNCHANGED <<owner, binding>> /\ Opened \subseteq queue'
  BY DEF Restart, objectVars, Opened
<1>2. pass'.step = "idle" /\ cur' = Absent /\ pass'.applied = {}
  BY <1>1 DEF Idle, cur
<1>. QED BY <1>1, <1>2 DEF Ledger!Crash, Ledger!Rest, At, Recorded, Opened

-----------------------------------------------------------------------------
\* Whatever order the calls of a pass, watches, users, failures and restarts come
\* in: the inventories of the bindings are kept as InventoryLedger says.
THEOREM LedgerKept == Spec => LedgerImplemented
<1>1. Init => Ledger!Init
  BY DEF Init, ClusterInit, Idle, Ledger!Init, At, cur, Recorded
<1>2. IInv /\ Shape' /\ [Next]_vars => [Ledger!Next]_(Ledger!vars)
  <2> SUFFICES ASSUME IInv, Shape', [Next]_vars PROVE Ledger!Next \/ UNCHANGED Ledger!vars
    OBVIOUS
  <2>1. Shape /\ HeldIsCurrent /\ ClaimsHold
    BY DEF IInv, Shape
  <2>2. CASE ReadClass \/ AddFinalizer \/ Lookup \/ RereadBinding \/ Prepare \/ CheckStale
    BY <2>1, <2>2, ReadingSteps DEF Ledger!Next
  <2>3. CASE ApplyResource \/ ApplyReplyLost
    BY <2>1, <2>3, ApplyIsClaim DEF Ledger!Next
  <2>4. CASE DeleteStale \/ DeleteReplyLost
    BY <2>1, <2>4, DeletionReleases DEF Ledger!Next
  <2>5. CASE \/ CreateBinding \/ UpdateBinding \/ DeleteBinding
             \/ BindingReplyLost /\ pass.step \in {"create", "update", "deleteBinding"}
    BY <2>1, <2>5, BindingWrites DEF Ledger!Next
  <2>6. CASE \/ RecordReady \/ RecordFailure \/ RemoveFinalizer \/ NamespaceReplyLost
             \/ BindingReplyLost /\ pass.step \in {"recordReady", "recordFailure"}
    BY <2>6, LastSteps DEF Ledger!Next
  <2>7. CASE UNCHANGED vars
    <3>1. UNCHANGED <<owner, binding, pass, queue, timers>>
      BY <2>7 DEF vars, clusterVars, bindingVars, bindingStore, objectVars, workVars
    <3>. QED BY <3>1, LedgerUnmoved DEF InventoriesKept
  <2>8. CASE Environment /\ UNCHANGED <<workVars, budgetVars>>
    BY <2>1, <2>8, EnvironmentIsWorld DEF Ledger!Next
  <2>9. CASE Delivery \/ Restart
    BY <2>9, DeliveryNotices, RestartCrashes DEF Ledger!Next
  <2>10. CASE CallFails
    BY <2>1, <2>10, FailureGivesUp DEF Ledger!Next
  <2>11. CASE \E n \in Namespaces : Start(n)
    BY <2>1, <2>11, StartTakesUp DEF Ledger!Next
  <2>12. CASE BindingReplyLost
    BY <2>5, <2>6, <2>12 DEF BindingReplyLost, At
  <2>. QED BY <2>2, <2>3, <2>4, <2>5, <2>6, <2>7, <2>8, <2>9, <2>10, <2>11, <2>12 DEF Next, PassStep
<1>. QED BY <1>1, <1>2, InductiveInvariant, ShapeInvariant, PTL DEF Spec, LedgerImplemented, Ledger!Spec
=============================================================================
