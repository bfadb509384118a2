----------------------------- MODULE OrderProofs -----------------------------
(***************************************************************************)
(* The old is kept until all of the new is applied, for all values of the  *)
(* constants, as long as no object goes by two references.                 *)
(*                                                                         *)
(* prepareManagedResources, applyManagedResources and                      *)
(* deleteStaleManagedResources loop over the same list one after another:  *)
(* OrderInv says how far each has got.  It speaks of the pass alone, so    *)
(* only the pass's own steps matter.                                       *)
(***************************************************************************)
EXTENDS ReconcilerProofs

\* What a pass at p that turns to sweeping s must have done.
LEMMA SweepInOrder ==
  ASSUME NEW p \in PassRecord, NEW s \in SUBSET Refs, pass' = SweepOf(p, s),
         p.cur = cur, p.ns = pass.ns, p.resources = pass.resources,
         Reconciling => Desired \subseteq p.applied /\ s \cap p.applied = {}
  PROVE  OrderInv'
<1>1. /\ pass'.cur = pass.cur /\ pass'.ns = pass.ns /\ pass'.resources = pass.resources
      /\ pass'.applied = p.applied /\ pass'.stale = s
      /\ pass'.step \in {"sweep", "recordReady", "deleteBinding"}
  BY SweepOfShape DEF AfterSweep, cur
<1>2. Desired' = Desired /\ Reconciling' = Reconciling
  BY <1>1 DEF Desired, Reconciling, Deleting, Unlabelled, cur
<1>. QED BY <1>1, <1>2 DEF OrderInv, PreparedInOrder, NothingSkipped, SweepComesLast, At

\* All of the class is applied or in todo: the last one applied, the sweep begins.
LEMMA ApplyInOrder ==
  ASSUME NEW p \in PassRecord, NEW todo \in Seq(Templates), pass' = ApplyOf(p, todo),
         p.cur = cur, p.ns = pass.ns, p.resources = pass.resources, p.binding # Absent,
         \A i \in DOMAIN pass.resources :
           \/ RefOf(pass.resources[i], cur) \in p.applied
           \/ \E j \in DOMAIN todo : todo[j] = pass.resources[i]
  PROVE  OrderInv'
<1> DEFINE q == [p EXCEPT !.todo = todo]
<1>1. /\ q \in PassRecord /\ q.cur = p.cur /\ q.ns = p.ns /\ q.resources = p.resources
      /\ q.applied = p.applied
  BY DEF PassRecord
<1>2. CASE todo = << >>
  <2>1. pass' = SweepOf(q, p.binding.inventory \ p.applied)
    BY <1>2 DEF ApplyOf
  <2>2. p.binding.inventory \ p.applied \in SUBSET Refs
    BY DEF PassRecord, BindingObject
  <2>3. Desired \subseteq p.applied
    <3>1. \A i \in DOMAIN pass.resources : RefOf(pass.resources[i], cur) \in p.applied
      BY <1>2
    <3>. QED BY <3>1 DEF Desired, DesiredBy
  <2>4. (p.binding.inventory \ p.applied) \cap p.applied = {}
    OBVIOUS
  <2> HIDE DEF q
  <2>. QED BY <1>1, <2>1, <2>2, <2>3, <2>4, SweepInOrder
<1>3. CASE todo # << >>
  <2>1. pass' = [p EXCEPT !.todo = todo, !.step = "apply"]
    BY <1>3 DEF ApplyOf
  <2>2. /\ pass'.step = "apply" /\ pass'.todo = todo /\ pass'.applied = p.applied
        /\ pass'.resources = pass.resources /\ cur' = cur
    BY <2>1 DEF PassRecord, cur
  <2>3. NothingSkipped'
    BY <2>2 DEF NothingSkipped
  <2>. QED BY <2>2, <2>3 DEF OrderInv, PreparedInOrder, SweepComesLast, At
<1>. QED BY <1>2, <1>3

\* The head of the class's list is prepared: what has been prepared last is applied.
LEMMA PrepareInOrder ==
  ASSUME NEW p \in PassRecord, NEW prepared \in Seq(Templates), pass' = PrepareOf(p, prepared),
         p.cur = cur, p.ns = pass.ns, p.resources = pass.resources, p.binding # Absent,
         pass.resources \in Seq(Templates),
         \A i \in DOMAIN prepared : prepared[i] = pass.resources[i]
  PROVE  OrderInv'
<1>1. CASE Len(prepared) = Len(p.resources)
  <2>1. pass' = ApplyOf(p, prepared) /\ DOMAIN prepared = DOMAIN pass.resources
    BY <1>1, LenProperties DEF PrepareOf
  <2>. QED BY <2>1, ApplyInOrder
<1>2. CASE Len(prepared) # Len(p.resources)
  <2>1. pass' = [p EXCEPT !.todo = prepared, !.step = "prepare"]
    BY <1>2 DEF PrepareOf
  <2>2. pass'.step = "prepare" /\ pass'.todo = prepared /\ pass'.resources = pass.resources
    BY <2>1 DEF PassRecord
  <2>. QED BY <2>2 DEF OrderInv, PreparedInOrder, NothingSkipped, SweepComesLast, At
<1>. QED BY <1>1, <1>2

\* Nothing is prepared or applied at the start.
LEMMA WithBindingInOrder ==
  ASSUME NEW p \in PassRecord, pass' = WithBinding(p),
         p.cur = cur, p.ns = pass.ns, p.resources = pass.resources, p.binding # Absent,
         ~Deleting, ~Unlabelled
  PROVE  OrderInv'
<1>1. CASE ClassMissing
  <2>1. pass' = SweepOf(p, p.binding.inventory) /\ p.binding.inventory \in SUBSET Refs /\ ~Reconciling
    BY <1>1 DEF WithBinding, PassRecord, BindingObject, ClassMissing, Reconciling
  <2>. QED BY <2>1, SweepInOrder
<1>2. CASE ~ClassMissing
  <2>1. pass' = PrepareOf(p, << >>) /\ pass.resources \in Seq(Templates)
    BY <1>2, DataAssumption DEF WithBinding, ClassMissing, PassRecord
  <2>2. << >> \in Seq(Templates) /\ DOMAIN << >> = {}
    OBVIOUS
  <2>. QED BY <2>1, <2>2, PrepareInOrder
<1>. QED BY <1>1, <1>2

\* Steps at which the order says nothing.
LEMMA NoOrder ==
  ASSUME pass'.step \notin {"prepare", "apply", "sweep", "delete", "recordReady"} \/ pass' = pass,
         OrderInv
  PROVE  OrderInv'
<1>1. CASE pass' = pass
  BY <1>1 DEF OrderInv, PreparedInOrder, NothingSkipped, SweepComesLast, At, Desired,
     Reconciling, Deleting, Unlabelled, cur
<1>2. CASE pass'.step \notin {"prepare", "apply", "sweep", "delete", "recordReady"}
  BY <1>2 DEF OrderInv, PreparedInOrder, NothingSkipped, SweepComesLast, At
<1>. QED BY <1>1, <1>2

\* The steps that read the binding.
LEMMA BindingReadInOrder == ASSUME Shape, OrderInv, Lookup \/ RereadBinding PROVE OrderInv'
<1> DEFINE found == bindingCache[cur]
           held == [pass EXCEPT !.binding = found]
<1>1. pass \in PassRecord /\ cur \in Namespaces /\ pass.step \in {"lookup", "reread"}
  BY DEF Shape, TypeOK, PassShape, Lookup, RereadBinding, At
<1>2. found \in BindingObject \cup {Absent}
  BY <1>1 DEF Shape, TypeOK, ClusterTypeOK
<1>3. /\ held \in PassRecord /\ held.cur = cur /\ held.ns = pass.ns
      /\ held.resources = pass.resources /\ held.binding = found
  BY <1>1, <1>2 DEF PassRecord, cur
<1> HIDE DEF held, found
<1>4. ASSUME found # Absent, ~Deleting, ~Unlabelled, pass' = WithBinding(held) PROVE OrderInv'
  BY <1>3, <1>4, WithBindingInOrder
<1>5. ASSUME NEW s \in SUBSET Refs, Deleting \/ Unlabelled, pass' = SweepOf(held, s) PROVE OrderInv'
  BY <1>3, <1>5, SweepInOrder DEF Reconciling
<1>6. found # Absent => found.inventory \in SUBSET Refs /\ ClusterScoped(found.inventory) \in SUBSET Refs
  BY <1>2 DEF BindingObject, ClusterScoped
<1>7. ASSUME NEW step \in {"removeFinalizer", "create"}, pass' = Goto(step) PROVE OrderInv'
  <2>1. pass'.step = step
    BY <1>1, <1>7 DEF Goto, PassRecord
  <2>. QED BY <2>1, NoOrder
<1>8. ASSUME pass' = [held EXCEPT !.step = "update"] PROVE OrderInv'
  <2>1. pass'.step = "update"
    BY <1>3, <1>8 DEF PassRecord
  <2>. QED BY <2>1, NoOrder
<1>9. CASE Lookup
  <2>1. CASE found = Absent
    BY <1>7, <1>9, <2>1 DEF Lookup, Proceed, found
  <2>2. CASE found # Absent
    BY <1>4, <1>5, <1>6, <1>8, <1>9, <2>2 DEF Lookup, TakeCachedBinding, found, held
  <2>. QED BY <2>1, <2>2
<1>10. CASE RereadBinding
  <2>1. ~Deleting /\ ~Unlabelled
    BY <1>10 DEF RereadBinding, Shape, PassShape, At, Unlabelled
  <2>2. CASE found = Absent
    <3>1. pass'.step = "idle"
      BY <1>10, <2>2 DEF RereadBinding, Return, Idle, found
    <3>. QED BY <3>1, NoOrder
  <2>3. CASE found # Absent
    BY <1>4, <1>10, <2>1, <2>3 DEF RereadBinding, TakeCachedBinding, found, held
  <2>. QED BY <2>2, <2>3
<1>. QED BY <1>9, <1>10

\* A failure about to be recorded.
LEMMA FailureInOrder ==
  ASSUME pass \in PassRecord, OrderInv, NEW reason, pass' = FailWith(reason) PROVE OrderInv'
<1>1. pass'.step = "recordFailure"
  BY DEF FailWith, PassRecord
<1>. QED BY <1>1, NoOrder

\* One more is prepared, in the order of the class.
LEMMA PreparedNext == ASSUME Shape, OrderInv, Prepare PROVE OrderInv'
<1> DEFINE t == pass.resources[Len(pass.todo) + 1]
           prepared == Append(pass.todo, t)
<1>1. pass.step = "prepare"
  BY DEF Prepare, At
<1>2. /\ pass \in PassRecord /\ pass.binding # Absent
      /\ pass.resources \in Seq(Templates) /\ pass.todo \in Seq(Templates)
  BY <1>1, WorkingPass DEF Shape, PassShape, At, BindingSteps
<1>3. CASE pass' = PrepareOf(pass, prepared)
  <2>1. t \in Templates /\ prepared \in Seq(Templates)
    BY <1>1, NextToPrepare
  <2>2. \A i \in DOMAIN pass.todo : pass.todo[i] = pass.resources[i]
    BY <1>1 DEF OrderInv, PreparedInOrder, At
  <2>3. /\ Len(prepared) = Len(pass.todo) + 1 /\ prepared[Len(pass.todo) + 1] = t
        /\ \A i \in 1..Len(pass.todo) : prepared[i] = pass.todo[i]
    BY <1>2, <2>1, AppendProperties
  <2>4. DOMAIN prepared = 1..(Len(pass.todo) + 1) /\ DOMAIN pass.todo = 1..Len(pass.todo)
        /\ Len(pass.todo) \in Nat
    BY <1>2, <2>1, <2>3, LenProperties
  <2>5. \A i \in DOMAIN prepared : prepared[i] = pass.resources[i]
    <3> SUFFICES ASSUME NEW i \in DOMAIN prepared PROVE prepared[i] = pass.resources[i]
      OBVIOUS
    <3>1. i \in 1..Len(pass.todo) \/ i = Len(pass.todo) + 1
      BY <2>4
    <3> HIDE DEF prepared
    <3>. QED BY <2>2, <2>3, <2>4, <3>1 DEF t
  <2> HIDE DEF prepared
  <2>. QED BY <1>2, <1>3, <2>1, <2>5, PrepareInOrder DEF cur
<1>4. CASE \E reason : pass' = FailWith(reason)
  BY <1>2, <1>4, FailureInOrder
<1>. QED BY <1>3, <1>4 DEF Prepare, Proceed

\* One more is applied, the first of those left.
LEMMA AppliedNext == ASSUME Shape, OrderInv, ApplyResource PROVE OrderInv'
<1> DEFINE t == Head(pass.todo)
           p == [pass EXCEPT !.applied = @ \cup {RefOf(t, cur)}]
<1>1. At("apply") /\ t \in Templates /\ Tail(pass.todo) \in Seq(Templates)
  BY NextToApply DEF ApplyResource
<1>2. /\ pass \in PassRecord /\ pass.binding # Absent /\ cur \in Namespaces
      /\ pass.todo \in Seq(Templates) /\ pass.todo # << >>
  BY <1>1, WorkingPass DEF Shape, PassShape, At, BindingSteps
<1>3. CASE pass' = ApplyOf(p, Tail(pass.todo))
  <2>1. /\ p \in PassRecord /\ p.cur = cur /\ p.ns = pass.ns /\ p.resources = pass.resources
        /\ p.binding = pass.binding /\ p.applied = pass.applied \cup {RefOf(t, cur)}
    BY <1>1, <1>2, RefsAndObjects DEF PassRecord, cur
  <2>2. ASSUME NEW j \in DOMAIN pass.todo
        PROVE  pass.todo[j] = t \/ \E k \in DOMAIN Tail(pass.todo) : Tail(pass.todo)[k] = pass.todo[j]
    <3>1. /\ t = pass.todo[1] /\ Len(Tail(pass.todo)) = Len(pass.todo) - 1
          /\ \A i \in 1..Len(Tail(pass.todo)) : Tail(pass.todo)[i] = pass.todo[i + 1]
          /\ DOMAIN Tail(pass.todo) = 1..Len(Tail(pass.todo))
          /\ DOMAIN pass.todo = 1..Len(pass.todo) /\ Len(pass.todo) \in Nat
      BY <1>1, <1>2, HeadTailProperties, LenProperties
    <3>2. CASE j = 1
      BY <3>1, <3>2
    <3>3. CASE j # 1
      <4>1. j - 1 \in 1..Len(Tail(pass.todo)) /\ (j - 1) + 1 = j
        BY <3>1, <3>3
      <4>. QED BY <3>1, <4>1
    <3>. QED BY <3>2, <3>3
  <2>3. ASSUME NEW i \in DOMAIN pass.resources
        PROVE  \/ RefOf(pass.resources[i], cur) \in p.applied
               \/ \E k \in DOMAIN Tail(pass.todo) : Tail(pass.todo)[k] = pass.resources[i]
    <3>1. \/ RefOf(pass.resources[i], cur) \in pass.applied
          \/ \E j \in DOMAIN pass.todo : pass.todo[j] = pass.resources[i]
      BY <1>1 DEF OrderInv, NothingSkipped
    <3> HIDE DEF t, p
    <3>. QED BY <2>1, <2>2, <3>1
  <2> HIDE DEF p
  <2>. QED BY <1>1, <1>2, <1>3, <2>1, <2>3, ApplyInOrder
<1>4. CASE \E reason : pass' = FailWith(reason)
  BY <1>2, <1>4, FailureInOrder
<1>. QED BY <1>3, <1>4 DEF ApplyResource, Proceed

\* One less is left to sweep.
LEMMA SweptNext == ASSUME Shape, OrderInv, CheckStale \/ DeleteStale PROVE OrderInv'
<1>1. /\ pass \in PassRecord /\ pass.stale \in SUBSET Refs /\ pass.step \in {"sweep", "delete"}
  BY WorkingPass DEF CheckStale, DeleteStale, At
<1>2. Reconciling => Desired \subseteq pass.applied /\ pass.stale \cap pass.applied = {}
  BY <1>1 DEF OrderInv, SweepComesLast
<1>3. ASSUME NEW r, pass' = SweepOf(pass, pass.stale \ {r}) PROVE OrderInv'
  BY <1>1, <1>2, <1>3, SweepInOrder DEF cur
<1>4. ASSUME NEW r, pass' = [pass EXCEPT !.target = r, !.step = "delete"] PROVE OrderInv'
  <2>1. /\ pass'.step = "delete" /\ pass'.applied = pass.applied /\ pass'.stale = pass.stale
        /\ pass'.ns = pass.ns /\ pass'.resources = pass.resources /\ pass'.cur = pass.cur
    BY <1>1, <1>4 DEF PassRecord
  <2>2. Desired' = Desired /\ Reconciling' = Reconciling
    BY <2>1 DEF Desired, Reconciling, Deleting, Unlabelled, cur
  <2>. QED BY <1>2, <2>1, <2>2 DEF OrderInv, PreparedInOrder, NothingSkipped, SweepComesLast, At
<1>5. CASE CheckStale
  BY <1>1, <1>3, <1>4, <1>5, FailureInOrder DEF CheckStale, Proceed
<1>6. CASE DeleteStale
  BY <1>3, <1>6 DEF DeleteStale, Proceed
<1>. QED BY <1>5, <1>6

\* Steps that neither prepare nor apply nor sweep.
LEMMA OtherSteps ==
  ASSUME Shape, OrderInv,
         \/ ReadClass \/ AddFinalizer \/ CreateBinding \/ UpdateBinding \/ RecordReady
         \/ RecordFailure \/ DeleteBinding \/ RemoveFinalizer \/ CallFails
         \/ NamespaceReplyLost \/ BindingReplyLost \/ ApplyReplyLost \/ DeleteReplyLost
         \/ Restart \/ Delivery \/ \E n \in Namespaces : Start(n)
  PROVE  OrderInv'
<1>1. pass \in PassRecord
  BY DEF Shape, TypeOK
<1>2. ASSUME pass' = Idle PROVE OrderInv'
  <2>1. pass'.step = "idle"
    BY <1>2 DEF Idle
  <2>. QED BY <2>1, NoOrder
<1>3. ASSUME NEW result, Return(result) PROVE OrderInv'
  BY <1>2, <1>3 DEF Return
<1>4. ASSUME NEW step \in {"reread", "removeFinalizer"}, pass' = Goto(step) PROVE OrderInv'
  <2>1. pass'.step = step
    BY <1>1, <1>4 DEF Goto, PassRecord
  <2>. QED BY <2>1, NoOrder
<1>5. CASE ReadClass
  <2>1. pass' = [pass EXCEPT !.resources = class[pass.ns.label],
                             !.step = AfterReadClass(class[pass.ns.label])]
    BY <1>5 DEF ReadClass, Proceed
  <2>2. pass'.step \in {"lookup", "addFinalizer"}
    BY <1>1, <2>1 DEF AfterReadClass, PassRecord
  <2>. QED BY <2>2, NoOrder
<1>6. CASE AddFinalizer
  <2>1. ASSUME NEW ns, pass' = [pass EXCEPT !.ns = ns, !.step = "lookup"] PROVE OrderInv'
    <3>1. pass'.step = "lookup"
      BY <1>1, <2>1 DEF PassRecord
    <3>. QED BY <3>1, NoOrder
  <2>. QED BY <1>3, <1>6, <2>1 DEF AddFinalizer, Proceed
<1>7. CASE UpdateBinding
  <2>1. ASSUME NEW b, pass' = [pass EXCEPT !.binding = b, !.step = "reread"] PROVE OrderInv'
    <3>1. pass'.step = "reread"
      BY <1>1, <2>1 DEF PassRecord
    <3>. QED BY <3>1, NoOrder
  <2>. QED BY <1>3, <1>7, <2>1 DEF UpdateBinding, Proceed
<1>8. CASE CreateBinding \/ DeleteBinding
  BY <1>3, <1>4, <1>8 DEF CreateBinding, DeleteBinding, Proceed
<1>9. CASE RecordReady \/ RecordFailure \/ RemoveFinalizer
  BY <1>3, <1>9 DEF RecordReady, RecordFailure, RemoveFinalizer
<1>10. CASE \/ CallFails \/ NamespaceReplyLost \/ BindingReplyLost
            \/ ApplyReplyLost \/ DeleteReplyLost
  BY <1>1, <1>3, <1>10, FailureInOrder DEF CallFails, NamespaceReplyLost, BindingReplyLost,
     ApplyReplyLost, DeleteReplyLost, Proceed
<1>11. CASE Restart
  BY <1>2, <1>11 DEF Restart
<1>12. CASE Delivery
  BY <1>12, NoOrder DEF Delivery, DeliverNamespace, DeliverBinding, DeliverClass, Requeue
<1>13. ASSUME NEW n \in Namespaces, Start(n) PROVE OrderInv'
  <2>1. CASE pass' = pass
    BY <2>1, NoOrder
  <2>2. CASE pass' # pass
    <3>1. pass'.step \in {"lookup", "readClass"}
      BY <1>13, <2>2 DEF Start, Idle
    <3>. QED BY <3>1, NoOrder
  <2>. QED BY <2>1, <2>2
<1>. QED BY <1>5, <1>6, <1>7, <1>8, <1>9, <1>10, <1>11, <1>12, <1>13

-----------------------------------------------------------------------------
\* Resources are prepared in the order of the class, none is skipped, and the sweep
\* begins after the last apply and spares what was applied.
THEOREM OrderInvariant == Spec => []OrderInv
<1>1. Init => OrderInv
  BY DEF Init, Idle, OrderInv, PreparedInOrder, NothingSkipped, SweepComesLast, At
<1>2. Shape /\ OrderInv /\ [Next]_vars => OrderInv'
  <2> SUFFICES ASSUME Shape, OrderInv, [Next]_vars PROVE OrderInv'
    OBVIOUS
  <2>1. CASE UNCHANGED vars \/ (Environment /\ UNCHANGED <<workVars, budgetVars>>)
    BY <2>1, NoOrder DEF vars, workVars
  <2>. QED BY <2>1, BindingReadInOrder, PreparedNext, AppliedNext, SweptNext, OtherSteps
       DEF Next, PassStep
<1>. QED BY <1>1, <1>2, ShapeInvariant, PTL DEF Spec

\* If no object goes by two references, then while a class is being applied nothing
\* is deleted before all of it has been applied, and nothing that belongs to it.
THEOREM OldKept == ASSUME OneReferencePerObject PROVE Spec => OldKeptUntilNewApplied
<1> DEFINE Keeps == \A o \in Objects :
                      PassActs /\ owner[o] # Absent /\ owner'[o] = Absent /\ Reconciling =>
                        /\ Desired \subseteq pass.applied
                        /\ \A r \in Desired : ObjectOf(r) # o
<1>1. Shape /\ OrderInv /\ [Next]_vars => [Keeps]_vars
  <2> SUFFICES ASSUME Shape, OrderInv, Next PROVE Keeps
    OBVIOUS
  <2>1. CASE ~PassActs \/ UNCHANGED objectVars
    BY <2>1 DEF objectVars
  <2>2. CASE \/ ReadClass \/ AddFinalizer \/ Lookup \/ CreateBinding \/ UpdateBinding
             \/ RereadBinding \/ Prepare \/ CheckStale \/ RecordReady \/ RecordFailure
             \/ DeleteBinding \/ RemoveFinalizer \/ CallFails \/ NamespaceReplyLost
             \/ BindingReplyLost \/ Restart \/ \E n \in Namespaces : Start(n)
    BY <2>1, <2>2 DEF NamespaceReplyLost, BindingReplyLost, ReadClass, AddFinalizer, Lookup, CreateBinding, UpdateBinding,
       RereadBinding, Prepare, CheckStale, RecordReady, RecordFailure, DeleteBinding,
       RemoveFinalizer, CallFails, Restart, Start
  <2>3. CASE Delivery \/ (Environment /\ UNCHANGED <<workVars, budgetVars>>)
    BY <2>1, <2>3 DEF Delivery, DeliverNamespace, DeliverBinding, DeliverClass, Requeue, workVars,
       PassActs
  <2>4. CASE At("apply") /\ Apply(Head(pass.todo))
    <3>1. Head(pass.todo) \in Templates /\ pass.ns.uid \in UIDs
      BY <2>4, NextToApply, WorkingPass DEF At
    <3>2. owner' = [owner EXCEPT ![ObjectOf(RefOf(Head(pass.todo), cur))] = pass.ns.uid]
      BY <2>4, <3>1, ApplyTypes
    <3>. QED BY <3>1, <3>2, SentinelAssumption DEF Shape, TypeOK, ClusterTypeOK
  <2>5. CASE ApplyResource \/ ApplyReplyLost
    BY <2>1, <2>4, <2>5 DEF ApplyResource, ApplyReplyLost
  <2>6. CASE DeleteStale \/ DeleteReplyLost
    <3>1. /\ At("delete") /\ pass.target \in pass.stale /\ pass.stale \in SUBSET Refs
          /\ pass.applied \in SUBSET Refs
      BY <2>6, WorkingPass DEF DeleteStale, DeleteReplyLost, At, Shape, PassShape
    <3>2. owner' = [owner EXCEPT ![ObjectOf(pass.target)] = Absent]
      BY <2>6 DEF DeleteStale, DeleteReplyLost, SetObject
    <3> SUFFICES ASSUME NEW o \in Objects, owner[o] # Absent, owner'[o] = Absent, Reconciling
                 PROVE  Desired \subseteq pass.applied /\ \A r \in Desired : ObjectOf(r) # o
      OBVIOUS
    <3>3. o = ObjectOf(pass.target)
      BY <3>2 DEF Shape, TypeOK, ClusterTypeOK
    <3>4. Desired \subseteq pass.applied /\ pass.target \notin pass.applied
      BY <3>1 DEF OrderInv, SweepComesLast, At
    <3>. QED BY <3>1, <3>3, <3>4, OneReferencePerObject DEF OneReferencePerObject
  <2>. QED BY <2>2, <2>3, <2>5, <2>6 DEF Next, PassStep
<1>. QED BY <1>1, OrderInvariant, ShapeInvariant, PTL DEF Spec, OldKeptUntilNewApplied
=============================================================================
