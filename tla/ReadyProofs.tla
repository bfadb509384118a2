----------------------------- MODULE ReadyProofs -----------------------------
(***************************************************************************)
(* Ready is written only over objects that are there, for all values of    *)
(* the constants, as long as no object goes by two references, no class is *)
(* created while the controller runs, and users neither delete nor disown  *)
(* what the controller has applied.                                        *)
(*                                                                         *)
(* Three things could take an applied object away from a pass.  Its sweep  *)
(* deletes others (OrderInv).  Kubernetes collects the objects of a        *)
(* terminating namespace, which a pass need not have heard of.  And the    *)
(* namespace could be gone altogether, were it not for the finalizer       *)
(* (FinalizerInv).  Most steps of a pass move nothing that ReadyInv speaks *)
(* of, and the refinement to InventoryLedger already says which.           *)
(***************************************************************************)
EXTENDS LedgerProofs, FinalizerProofs, OrderProofs

\* Users do not take objects away from the controller.
ObjectsLeftAlone == {"deleteObject", "stripMarkers"} \cap Edits = {}

\* A pass that has applied something is at work under the finalizer.
LEMMA AppliedUnderFinalizer ==
  ASSUME Shape, FinalizerInv, pass.applied # {}
  PROVE  /\ ~At("idle") /\ cur \in Namespaces /\ pass.ns.uid \in UIDs
         /\ Guarded(cur, pass.ns)
<1>1. /\ Reconciling
      /\ pass.step \in {"apply", "sweep", "delete", "recordReady", "recordFailure"}
  BY DEF Shape, PassShape
<1>. QED BY <1>1, WorkingPass DEF FinalizerInv, FinalizerTrusted, At

\* A step that takes no part in applying, as the ledger sees it.
LEMMA Bystander ==
  ASSUME Shape, Shape', FinalizerInv, ReadyInv,
         UNCHANGED namespace \/ pass.applied = {},
         \/ pass'.applied = {}
         \/ UNCHANGED <<owner, cur, IF At("idle") THEN Absent ELSE pass.ns.uid, pass.applied>>
  PROVE  ReadyInv'
<1>1. CASE pass'.applied = {}
  BY <1>1 DEF ReadyInv, AppliedHere, AppliedOwned
<1>2. CASE /\ pass.applied # {} /\ UNCHANGED namespace
           /\ UNCHANGED <<owner, cur, IF At("idle") THEN Absent ELSE pass.ns.uid, pass.applied>>
  <2>1. ~At("idle") /\ cur \in Namespaces /\ cur # Absent
    BY <1>2, AppliedUnderFinalizer, SentinelAssumption
  <2>2. ~At("idle")'
    BY <1>2, <2>1 DEF Shape, PassShape
  <2>3. pass'.ns.uid = pass.ns.uid
    BY <1>2, <2>1, <2>2
  <2>. QED BY <1>2, <2>3 DEF ReadyInv, AppliedHere, AppliedOwned, Terminating
<1>. QED BY <1>1, <1>2

\* An apply adds an object that from then on has the namespace's markers.
LEMMA ApplyKeepsReady ==
  ASSUME Shape, ReadyInv, ApplyResource \/ ApplyReplyLost PROVE ReadyInv'
<1> DEFINE t == Head(pass.todo)
           r == RefOf(t, cur)
           p == [pass EXCEPT !.applied = @ \cup {r}]
<1>1. /\ At("apply") /\ UNCHANGED namespace
      /\ pass \in PassRecord /\ pass.applied \in SUBSET Refs
      /\ owner \in [Objects -> UIDs \cup {Absent, Unowned}]
  BY WorkingPass DEF ApplyResource, ApplyReplyLost, Fault, nsStore, At, Shape, TypeOK,
     ClusterTypeOK
<1>2. Tail(pass.todo) \in Seq(Templates) /\ t \in Templates
  BY <1>1, NextToApply
<1>3. ASSUME NEW reason, pass' = FailWith(reason) PROVE SameWork(pass, pass')
  BY <1>1, <1>3 DEF FailWith, SameWork, PassRecord
<1>4. ASSUME UNCHANGED owner, SameWork(pass, pass') PROVE ReadyInv'
  BY <1>1, <1>4 DEF SameWork, ReadyInv, AppliedHere, AppliedOwned, Terminating, cur
<1>5. ASSUME Apply(t), NEW q \in PassRecord, q.cur = pass.cur, q.ns = pass.ns,
             q.applied \subseteq pass.applied \cup {r}, SameWork(q, pass')
      PROVE  ReadyInv'
  <2>1. owner' = [owner EXCEPT ![ObjectOf(r)] = pass.ns.uid] /\ r \in Refs
    BY <1>1, <1>2, <1>5, ApplyTypes
  <2>2. r.namespace \in {cur, Cluster}
    BY DEF RefOf
  <2>3. /\ cur' = cur /\ pass'.ns.uid = pass.ns.uid
        /\ pass'.applied \subseteq pass.applied \cup {r}
    BY <1>5 DEF SameWork, cur
  <2> HIDE DEF r
  <2>4. \A s \in Refs : owner'[ObjectOf(s)] \in {owner[ObjectOf(s)], pass.ns.uid}
    BY <1>1, <2>1, RefsAndObjects
  <2>5. owner'[ObjectOf(r)] = pass.ns.uid
    BY <1>1, <2>1, RefsAndObjects
  <2>6. AppliedHere'
    BY <2>2, <2>3 DEF ReadyInv, AppliedHere
  <2>7. AppliedOwned'
    BY <1>1, <2>3, <2>4, <2>5 DEF ReadyInv, AppliedOwned, Terminating
  <2>. QED BY <2>6, <2>7 DEF ReadyInv
<1>6. CASE Apply(t) /\ pass' = ApplyOf(p, Tail(pass.todo))
  <2>1. r \in Refs
    BY <1>1, <1>2, <1>6, ApplyTypes
  <2>2. /\ p \in PassRecord /\ p.cur = pass.cur /\ p.ns = pass.ns
        /\ p.applied = pass.applied \cup {r}
    BY <1>1, <2>1 DEF PassRecord
  <2> HIDE DEF p
  <2>3. SameWork(p, pass')
    BY <1>2, <1>6, <2>2, ApplyGoesOn
  <2>. QED BY <1>5, <1>6, <2>2, <2>3
<1>7. CASE Apply(t) /\ \E reason : pass' = FailWith(reason)
  BY <1>1, <1>3, <1>5, <1>7
<1>8. CASE UNCHANGED objectVars /\ \E reason : pass' = FailWith(reason)
  BY <1>3, <1>4, <1>8 DEF objectVars
<1>. QED BY <1>6, <1>7, <1>8 DEF ApplyResource, ApplyReplyLost, Proceed

\* A sweep deletes nothing that has been applied, also if the reply is lost.
LEMMA SweepKeepsReady ==
  ASSUME OneReferencePerObject, Shape, OrderInv, ReadyInv, DeleteStale \/ DeleteReplyLost
  PROVE  ReadyInv'
<1>1. /\ At("delete") /\ UNCHANGED namespace
      /\ pass \in PassRecord /\ pass.stale \in SUBSET Refs /\ pass.applied \in SUBSET Refs
      /\ pass.target \in pass.stale
      /\ pass.applied # {} => Reconciling
      /\ \/ pass' = SweepOf(pass, pass.stale \ {pass.target})
         \/ \E reason : pass' = FailWith(reason)
      /\ owner' = [owner EXCEPT ![ObjectOf(pass.target)] = Absent]
      /\ owner \in [Objects -> UIDs \cup {Absent, Unowned}]
  BY WorkingPass DEF DeleteStale, DeleteReplyLost, Fault, nsStore, At, Proceed, SetObject, Shape,
     PassShape, TypeOK, ClusterTypeOK
<1>2. SameWork(pass, pass')
  <2>1. ASSUME NEW reason, pass' = FailWith(reason) PROVE SameWork(pass, pass')
    BY <1>1, <2>1 DEF FailWith, SameWork, PassRecord
  <2>. QED BY <1>1, <2>1, SweepGoesOn
<1>3. ASSUME NEW r \in pass.applied PROVE owner'[ObjectOf(r)] = owner[ObjectOf(r)]
  <2>1. r # pass.target
    BY <1>1, <1>3 DEF OrderInv, SweepComesLast, At
  <2>2. ObjectOf(r) # ObjectOf(pass.target)
    BY <1>1, <2>1 DEF OneReferencePerObject
  <2>. QED BY <1>1, <2>2, RefsAndObjects
<1>. QED BY <1>1, <1>2, <1>3
         DEF SameWork, ReadyInv, AppliedHere, AppliedOwned, Terminating, cur

\* Users and Kubernetes: only a terminating namespace loses what was applied to it,
\* and the finalizer keeps it from going away.
LEMMA EnvironmentKeepsReady ==
  ASSUME ObjectsLeftAlone, Shape, FinalizerInv, ReadyInv, Environment, UNCHANGED pass
  PROVE  ReadyInv'
<1>1. CASE pass.applied = {}
  BY <1>1 DEF ReadyInv, AppliedHere, AppliedOwned
<1>2. CASE pass.applied # {}
  <2>1. /\ cur \in Namespaces /\ pass.ns.uid \in UIDs
        /\ namespace[cur] # Absent /\ namespace[cur].finalizer
        /\ namespace \in [Namespaces -> NamespaceObject \cup {Absent}]
        /\ owner \in [Objects -> UIDs \cup {Absent, Unowned}]
        /\ pass.applied \in SUBSET Refs
    BY <1>2, AppliedUnderFinalizer DEF Guarded, Shape, TypeOK, ClusterTypeOK, PassRecord
  <2>2. ASSUME UNCHANGED owner, Terminating(cur) => Terminating(cur)' PROVE ReadyInv'
    BY <2>2 DEF ReadyInv, AppliedHere, AppliedOwned, cur
  <2>3. ASSUME NEW n \in Namespaces, NEW v, WriteNamespace(n, v), UNCHANGED owner,
               n = cur => v # Absent /\ (Terminating(cur) => v.deleting)
        PROVE  ReadyInv'
    <3>1. namespace'[cur] = IF n = cur THEN v ELSE namespace[cur]
      BY <2>1, <2>3 DEF WriteNamespace
    <3>. QED BY <2>2, <2>3, <3>1 DEF Terminating, cur
  <2>4. ASSUME NEW n \in Namespaces, NEW l \in Classes \cup {NoLabel}, CreateNamespace(n, l)
        PROVE  ReadyInv'
    BY <2>1, <2>3, <2>4 DEF CreateNamespace, objectVars
  <2>5. ASSUME NEW n \in Namespaces, NEW l \in Classes \cup {NoLabel}, Relabel(n, l)
        PROVE  ReadyInv'
    <3>1. [namespace[n] EXCEPT !.label = l] # Absent
      BY <2>1, <2>5, SentinelAssumption DEF Relabel, NamespaceObject
    <3>. QED BY <2>3, <2>5, <3>1 DEF Relabel, EditNamespace, objectVars, Terminating
  <2>6. ASSUME NEW n \in Namespaces, DeleteNamespace(n) PROVE ReadyInv'
    <3>1. [namespace[n] EXCEPT !.deleting = TRUE] # Absent
      BY <2>1, <2>6, SentinelAssumption DEF DeleteNamespace, NamespaceObject
    <3>. QED BY <2>3, <2>6, <3>1 DEF DeleteNamespace, EditNamespace, objectVars, Terminating
  <2>7. ASSUME NEW n \in Namespaces, FinishDeletion(n) PROVE ReadyInv'
    BY <2>1, <2>3, <2>7 DEF FinishDeletion, objectVars
  <2>8. ASSUME UNCHANGED <<owner, namespace>> PROVE ReadyInv'
    BY <2>2, <2>8 DEF Terminating, cur
  <2>9. ASSUME NEW n \in Namespaces, DeleteBindingByHand(n) PROVE ReadyInv'
    BY <2>8, <2>9 DEF DeleteBindingByHand, nsVars, nsStore, objectVars
  <2>10. ASSUME NEW c \in Classes, NEW s \in ResourceLists \cup {Absent}, SetClass(c, s)
         PROVE  ReadyInv'
    BY <2>8, <2>10 DEF SetClass, nsVars, nsStore, objectVars
  <2>11. ASSUME NEW o \in Objects, NEW who, NEW what, SetObject(o, who, what), UNCHANGED namespace,
                \/ owner[o] \notin UIDs
                \/ who = owner[o]
                \/ o.namespace # Cluster /\ Terminating(o.namespace)
         PROVE  ReadyInv'
    <3>1. owner' = [owner EXCEPT ![o] = who]
      BY <2>11 DEF SetObject
    <3>2. ASSUME NEW r \in pass.applied
          PROVE  owner'[ObjectOf(r)] = pass.ns.uid \/ (r.namespace = cur /\ Terminating(cur))
      <4>1. /\ ObjectOf(r) \in Objects /\ r.namespace \in {cur, Cluster}
            /\ owner[ObjectOf(r)] = pass.ns.uid \/ (r.namespace = cur /\ Terminating(cur))
        BY <2>1, <3>2, RefsAndObjects DEF ReadyInv, AppliedHere, AppliedOwned
      <4>2. CASE o # ObjectOf(r) \/ who = owner[o]
        BY <2>1, <3>1, <4>1, <4>2
      <4>3. CASE o = ObjectOf(r) /\ owner[o] \notin UIDs
        BY <2>1, <4>1, <4>3
      <4>4. CASE o = ObjectOf(r) /\ o.namespace # Cluster /\ Terminating(o.namespace)
        <5>1. o.namespace = r.namespace
          BY <4>4 DEF ObjectOf
        <5>. QED BY <4>1, <4>4, <5>1
      <4>. QED BY <2>11, <4>2, <4>3, <4>4
    <3>. QED BY <2>11, <3>2 DEF ReadyInv, AppliedHere, AppliedOwned, Terminating, cur
  <2>12. ASSUME NEW o \in Objects, NEW what \in {Blank, Drifted}, CreateObject(o, what)
         PROVE  ReadyInv'
    BY <2>11, <2>12, SentinelAssumption DEF CreateObject, EditObject, nsVars, nsStore
  <2>13. ASSUME NEW o \in Objects PROVE ~DeleteObject(o) /\ ~StripMarkers(o)
    BY ObjectsLeftAlone DEF DeleteObject, StripMarkers, Edit, ObjectsLeftAlone
  <2>14. ASSUME NEW o \in Objects, DriftObject(o) PROVE ReadyInv'
    BY <2>11, <2>14 DEF DriftObject, EditObject, nsVars, nsStore
  <2>15. ASSUME NEW o \in Objects, CollectObject(o) PROVE ReadyInv'
    BY <2>11, <2>15 DEF CollectObject, nsVars, nsStore
  <2>. QED BY <2>4, <2>5, <2>6, <2>7, <2>9, <2>10, <2>12, <2>13, <2>14, <2>15 DEF Environment
<1>. QED BY <1>1, <1>2

-----------------------------------------------------------------------------
\* What a pass has applied keeps the namespace's markers while the namespace lives,
\* whatever versions, failures and crashes come between the calls.
THEOREM AppliedStays ==
  ASSUME NoClassCreated, OneReferencePerObject, ObjectsLeftAlone
  PROVE  Spec => []ReadyInv
<1>1. Init => ReadyInv
  BY DEF Init, Idle, ReadyInv, AppliedHere, AppliedOwned
<1>2. Shape /\ Shape' /\ IInv /\ FinalizerInv /\ OrderInv /\ ReadyInv /\ [Next]_vars => ReadyInv'
  <2> SUFFICES ASSUME Shape, Shape', IInv, FinalizerInv, OrderInv, ReadyInv, [Next]_vars
               PROVE  ReadyInv'
    OBVIOUS
  <2>1. ASSUME UNCHANGED namespace \/ pass.applied = {},
               \/ Ledger!GiveUp \/ Ledger!Open \/ Ledger!Notice \/ Ledger!Crash \/ Ledger!Miss
               \/ UNCHANGED Ledger!vars
               \/ \E o \in Objects : Ledger!Aim(o)
               \/ \E n \in Namespaces : Ledger!Forget(n)
               \/ \E inventory \in SUBSET Refs : Ledger!Post(inventory)
        PROVE  ReadyInv'
    BY <2>1, Bystander
       DEF Ledger!GiveUp, Ledger!Open, Ledger!Notice, Ledger!Crash, Ledger!Miss, Ledger!Aim,
           Ledger!Forget, Ledger!Post, Ledger!GoesOn, Ledger!Resigns, Ledger!Rest, Ledger!vars
  <2>2. CASE ReadClass \/ AddFinalizer \/ Lookup \/ RereadBinding \/ Prepare \/ CheckStale
    <3>1. UNCHANGED namespace \/ pass.applied = {}
      BY <2>2 DEF ReadClass, AddFinalizer, Lookup, RereadBinding, Prepare, CheckStale, nsStore,
         Shape, PassShape, At
    <3>. QED BY <2>1, <2>2, <3>1, ReadingSteps
  <2>3. CASE ApplyResource \/ ApplyReplyLost
    BY <2>3, ApplyKeepsReady
  <2>4. CASE DeleteStale \/ DeleteReplyLost
    BY <2>4, OneReferencePerObject, SweepKeepsReady
  <2>5. CASE \/ CreateBinding \/ UpdateBinding \/ DeleteBinding
             \/ BindingReplyLost /\ pass.step \in {"create", "update", "deleteBinding"}
    <3>1. UNCHANGED namespace
      BY <2>5 DEF CreateBinding, UpdateBinding, DeleteBinding, BindingReplyLost, nsStore
    <3>2. HeldIsCurrent
      BY DEF IInv
    <3>. QED BY <2>1, <2>5, <3>1, <3>2, BindingWrites
  <2>6. CASE \/ RecordReady \/ RecordFailure \/ RemoveFinalizer \/ NamespaceReplyLost
             \/ BindingReplyLost /\ pass.step \in {"recordReady", "recordFailure"}
    <3>1. UNCHANGED namespace \/ pass.applied = {}
      BY <2>6 DEF RecordReady, RecordFailure, RemoveFinalizer, NamespaceReplyLost,
         BindingReplyLost, nsStore, Shape, PassShape, At
    <3>. QED BY <2>1, <2>6, <3>1, LastSteps
  <2>7. CASE Delivery \/ Restart \/ CallFails
    <3>1. UNCHANGED namespace
      BY <2>7 DEF Delivery, DeliverNamespace, DeliverBinding, DeliverClass, Requeue, Restart,
         CallFails, Fault, nsVars, nsStore, clusterVars
    <3>. QED BY <2>1, <2>7, <3>1, DeliveryNotices, RestartCrashes, FailureGivesUp
  <2>8. ASSUME NEW n \in Namespaces, Start(n) PROVE ReadyInv'
    <3>1. UNCHANGED namespace /\ pass.applied = {}
      BY <2>8 DEF Start, nsStore, Shape, PassShape, At
    <3>2. pass'.applied = {}
      BY <2>8, <3>1 DEF Start, Idle
    <3>. QED BY <3>1, <3>2, Bystander
  <2>9. CASE Environment /\ UNCHANGED <<workVars, budgetVars>>
    BY <2>9, ObjectsLeftAlone, EnvironmentKeepsReady DEF workVars
  <2>10. CASE UNCHANGED vars
    BY <2>10 DEF vars, clusterVars, nsVars, nsStore, objectVars, workVars, ReadyInv, AppliedHere,
       AppliedOwned, Terminating, cur
  <2>11. CASE BindingReplyLost
    BY <2>5, <2>6, <2>11 DEF BindingReplyLost, At
  <2>. QED BY <2>2, <2>3, <2>4, <2>5, <2>6, <2>7, <2>8, <2>9, <2>10, <2>11 DEF Next, PassStep
<1>. QED BY <1>1, <1>2, NoClassCreated, ShapeInvariant, InductiveInvariant, FinalizerInvariant,
         OrderInvariant, PTL DEF Spec

\* Under the same assumptions Ready=True is written only over objects that are there
\* with the namespace's markers, but for what Kubernetes collects of a terminating
\* namespace: the sweep that precedes the status write takes none of them.
THEOREM ReadyIsTruthful ==
  ASSUME NoClassCreated, OneReferencePerObject, ObjectsLeftAlone
  PROVE  Spec => ReadyMeansPresent
<1>1. ReadyInv /\ [Next]_vars =>
        [PassActs /\ pass'.step = "idle" /\ At("recordReady") /\ HoldsBinding => AppliedOwned]_vars
  BY DEF ReadyInv
<1>. QED BY <1>1, NoClassCreated, OneReferencePerObject, ObjectsLeftAlone, AppliedStays, PTL
         DEF Spec, ReadyMeansPresent
=============================================================================
