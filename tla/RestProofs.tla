----------------------------- MODULE RestProofs -----------------------------
(***************************************************************************)
(* A namespace that has what it asks for is left as it is, for all values  *)
(* of the constants: a pass over it finds nothing to change, and whoever   *)
(* else acts keeps away from it.                                           *)
(*                                                                         *)
(* The second half rests on UIDs.  A pass touches the objects of the UID   *)
(* it has read somewhere; that UID is only ever one namespace's (UIDInv).  *)
(***************************************************************************)
EXTENDS OrderProofs, FinalizerProofs

-----------------------------------------------------------------------------
(* UIDs.                                                                   *)

\* The versions of namespace n anybody still goes by.
Versions(n) == Copies(n) \cup (IF cur = n THEN {pass.ns} ELSE {})

\* The live namespace is the newest version, and a UID is that of one name, and none
\* that is still to be handed out.
UIDInv ==
  /\ \A n \in Namespaces : namespace[n] = Latest(nsCache[n], nsEvents[n])
  /\ \A n \in Namespaces : \A v \in Versions(n) \ {Absent} :
       /\ v.uid \leq uid
       /\ \A m \in Namespaces : \A w \in Versions(m) \ {Absent} : v.uid = w.uid => m = n

\* The live namespace is among its copies.
LEMMA LiveIsCopy ==
  ASSUME Shape, UIDInv, NEW n \in Namespaces
  PROVE  namespace[n] \in Copies(n)
<1>1. nsEvents[n] \in Seq(NamespaceObject \cup {Absent})
  BY DEF Shape, TypeOK, ClusterTypeOK
<1>2. CASE nsEvents[n] = << >>
  BY <1>2 DEF UIDInv, Latest, Copies
<1>3. CASE nsEvents[n] # << >>
  <2>1. Len(nsEvents[n]) \in DOMAIN nsEvents[n]
    BY <1>1, <1>3, EmptySeq
  <2>. QED BY <1>3, <2>1 DEF UIDInv, Latest, Copies
<1>. QED BY <1>2, <1>3

\* What a copy is if it is not Absent.
LEMMA VersionTypes ==
  ASSUME Shape, NEW n \in Namespaces
  PROVE  Versions(n) \subseteq NamespaceObject \cup {Absent}
<1>1. nsEvents[n] \in Seq(NamespaceObject \cup {Absent})
  BY DEF Shape, TypeOK, ClusterTypeOK
<1>2. nsCache[n] \in NamespaceObject \cup {Absent} /\ pass.ns \in NamespaceObject \cup {Absent}
  BY DEF Shape, TypeOK, ClusterTypeOK, PassRecord
<1>3. \A i \in DOMAIN nsEvents[n] : nsEvents[n][i] \in NamespaceObject \cup {Absent}
  BY <1>1, ElementOfSeq
<1>. QED BY <1>2, <1>3 DEF Versions, Copies

\* New versions that only repeat the UIDs of older ones leave UIDs unique.
LEMMA UIDsRepeated ==
  ASSUME UIDInv, uid' = uid,
         \A n \in Namespaces : namespace'[n] = Latest(nsCache'[n], nsEvents'[n]),
         \A n \in Namespaces : \A v \in Versions(n)' \ {Absent} :
           \E u \in Versions(n) \ {Absent} : u.uid = v.uid
  PROVE  UIDInv'
BY DEF UIDInv

\* What neither writes to a namespace nor turns to another one.
LEMMA SameVersions ==
  ASSUME Shape, UIDInv, UNCHANGED <<nsStore, uid>>,
         pass' = Idle \/ (cur' = cur /\ pass'.ns = pass.ns)
  PROVE  UIDInv'
<1>1. \A n \in Namespaces : Copies(n)' = Copies(n)
  BY DEF Copies, nsStore
<1>2. pass' = Idle => cur' \notin Namespaces
  BY SentinelAssumption DEF Idle, cur
<1>3. \A n \in Namespaces : Versions(n)' \subseteq Versions(n)
  BY <1>1, <1>2 DEF Versions
<1>. QED BY <1>3, UIDsRepeated DEF UIDInv, nsStore

\* A write of a further version of the same incarnation.
LEMMA UIDsWritten ==
  ASSUME Shape, UIDInv, UNCHANGED uid, NEW n \in Namespaces,
         NEW v \in NamespaceObject \cup {Absent}, WriteNamespace(n, v),
         v # Absent => \E u \in Versions(n) \ {Absent} : u.uid = v.uid,
         \/ pass' = Idle
         \/ cur' = cur /\ pass'.ns = pass.ns
         \/ cur' = cur /\ cur = n /\ pass'.ns = v
  PROVE  UIDInv'
<1>1. /\ \A m \in Namespaces : Copies(m)' \subseteq Copies(m) \cup (IF m = n THEN {v} ELSE {})
      /\ \A m \in Namespaces : namespace'[m] = Latest(nsCache'[m], nsEvents'[m])
  BY NamespaceWritten DEF UIDInv
<1>2. pass' = Idle => cur' \notin Namespaces
  BY SentinelAssumption DEF Idle, cur
<1>3. \A m \in Namespaces : Versions(m)' \subseteq Versions(m) \cup (IF m = n THEN {v} ELSE {})
  BY <1>1, <1>2 DEF Versions
<1>4. ASSUME NEW m \in Namespaces, NEW w \in Versions(m)' \ {Absent}
      PROVE  \E u \in Versions(m) \ {Absent} : u.uid = w.uid
  BY <1>3, <1>4
<1>. QED BY <1>1, <1>4, UIDsRepeated

\* Users and Kubernetes: a new namespace gets a UID of its own.
LEMMA EnvironmentUIDs ==
  ASSUME Shape, UIDInv, Environment, UNCHANGED pass PROVE UIDInv'
<1>1. /\ namespace \in [Namespaces -> NamespaceObject \cup {Absent}] /\ uid \in Nat
      /\ cur' = cur
  BY DEF Shape, TypeOK, ClusterTypeOK, cur
<1>2. CASE UNCHANGED <<nsStore, uid>>
  BY <1>1, <1>2, SameVersions
<1>3. ASSUME NEW n \in Namespaces, NEW l \in Classes \cup {NoLabel}, CreateNamespace(n, l)
      PROVE  UIDInv'
  <2> DEFINE v == [uid |-> uid + 1, label |-> l, deleting |-> FALSE, finalizer |-> FALSE]
  <2>1. /\ v \in NamespaceObject /\ v.uid = uid + 1 /\ WriteNamespace(n, v) /\ uid' = uid + 1
    BY <1>1, <1>3, DataAssumption DEF CreateNamespace, NamespaceObject, UIDs
  <2> HIDE DEF v
  <2>2. /\ \A m \in Namespaces : Copies(m)' \subseteq Copies(m) \cup (IF m = n THEN {v} ELSE {})
        /\ \A m \in Namespaces : namespace'[m] = Latest(nsCache'[m], nsEvents'[m])
    BY <2>1, NamespaceWritten DEF UIDInv
  <2>3. \A m \in Namespaces : Versions(m)' \subseteq Versions(m) \cup (IF m = n THEN {v} ELSE {})
    BY <1>1, <2>2 DEF Versions
  <2>4. \A m \in Namespaces : \A w \in Versions(m) \ {Absent} : w.uid \in Nat /\ w.uid \leq uid
    BY VersionTypes DEF UIDInv, NamespaceObject, UIDs
  <2>5. ASSUME NEW m \in Namespaces, NEW w \in Versions(m)' \ {Absent}
        PROVE  /\ w.uid \leq uid'
               /\ \A k \in Namespaces : \A u \in Versions(k)' \ {Absent} : w.uid = u.uid => k = m
    <3>1. w \in Versions(m) \/ (m = n /\ w = v)
      BY <2>3, <2>5
    <3>2. w.uid \leq uid'
      BY <1>1, <2>1, <2>4, <3>1
    <3>3. ASSUME NEW k \in Namespaces, NEW u \in Versions(k)' \ {Absent}, w.uid = u.uid
          PROVE  k = m
      <4>1. u \in Versions(k) \/ (k = n /\ u = v)
        BY <2>3, <3>3
      <4>. QED BY <1>1, <2>1, <2>4, <3>1, <3>3, <4>1 DEF UIDInv
    <3>. QED BY <3>2, <3>3
  <2>. QED BY <2>2, <2>5 DEF UIDInv
<1>4. ASSUME NEW n \in Namespaces, namespace[n] # Absent, NEW v \in NamespaceObject,
             v.uid = namespace[n].uid, EditNamespace(n, v)
      PROVE  UIDInv'
  <2>1. namespace[n] \in Versions(n) \ {Absent}
    BY <1>4, LiveIsCopy DEF Versions
  <2>. QED BY <1>1, <1>4, <2>1, UIDsWritten DEF EditNamespace
<1>5. ASSUME NEW n \in Namespaces, NEW l \in Classes \cup {NoLabel}, Relabel(n, l)
      PROVE  UIDInv'
  <2> DEFINE v == [namespace[n] EXCEPT !.label = l]
  <2>1. /\ namespace[n] # Absent /\ v \in NamespaceObject /\ v.uid = namespace[n].uid
        /\ EditNamespace(n, v)
    BY <1>1, <1>5 DEF Relabel, NamespaceObject
  <2>. QED BY <1>4, <2>1
<1>6. ASSUME NEW n \in Namespaces, DeleteNamespace(n) PROVE UIDInv'
  <2> DEFINE v == [namespace[n] EXCEPT !.deleting = TRUE]
  <2>1. /\ namespace[n] # Absent /\ v \in NamespaceObject /\ v.uid = namespace[n].uid
        /\ EditNamespace(n, v)
    BY <1>1, <1>6 DEF DeleteNamespace, NamespaceObject
  <2>. QED BY <1>4, <2>1
<1>7. ASSUME NEW n \in Namespaces, FinishDeletion(n) PROVE UIDInv'
  BY <1>1, <1>7, UIDsWritten DEF FinishDeletion
<1>8. ASSUME NEW n \in Namespaces, DeleteBindingByHand(n) PROVE UNCHANGED <<nsStore, uid>>
  BY <1>8 DEF DeleteBindingByHand, nsVars
<1>9. ASSUME NEW c \in Classes, NEW s \in ResourceLists \cup {Absent}, SetClass(c, s)
      PROVE  UNCHANGED <<nsStore, uid>>
  BY <1>9 DEF SetClass, nsVars
<1>10. ASSUME NEW o \in Objects,
              \/ \E what : CreateObject(o, what)
              \/ DeleteObject(o) \/ StripMarkers(o) \/ DriftObject(o) \/ CollectObject(o)
       PROVE  UNCHANGED <<nsStore, uid>>
  BY <1>10 DEF CreateObject, DeleteObject, StripMarkers, DriftObject, CollectObject, EditObject,
     nsVars
<1>. QED BY <1>2, <1>3, <1>5, <1>6, <1>7, <1>8, <1>9, <1>10 DEF Environment

\* Watches: a delivery leaves a version behind.
LEMMA DeliveryUIDs == ASSUME Shape, UIDInv, Delivery PROVE UIDInv'
<1>1. CASE UNCHANGED <<nsStore, uid, pass>>
  BY <1>1, SameVersions DEF cur
<1>2. ASSUME NEW n \in Namespaces, DeliverNamespace(n) PROVE UIDInv'
  <2>1. /\ \A m \in Namespaces : Copies(m)' \subseteq Copies(m)
        /\ \A m \in Namespaces : namespace'[m] = Latest(nsCache'[m], nsEvents'[m])
    BY <1>2, NamespaceDelivered DEF UIDInv
  <2>2. UNCHANGED <<uid, pass>>
    BY <1>2 DEF DeliverNamespace
  <2>3. \A m \in Namespaces : Versions(m)' \subseteq Versions(m)
    BY <2>1, <2>2 DEF Versions, cur
  <2>. QED BY <2>1, <2>2, <2>3, UIDsRepeated
<1>. QED BY <1>1, <1>2 DEF Delivery, DeliverBinding, DeliverClass, Requeue, clusterVars, nsVars,
     nsStore

\* The successor of a controller lists what is live.
LEMMA RestartUIDs == ASSUME Shape, UIDInv, Restart PROVE UIDInv'
<1>1. /\ pass' = Idle /\ namespace' = namespace /\ uid' = uid /\ nsCache' = namespace
      /\ nsEvents' = [n \in Namespaces |-> << >>]
  BY DEF Restart
<1>2. cur' \notin Namespaces
  BY <1>1, SentinelAssumption DEF Idle, cur
<1>3. \A n \in Namespaces : Versions(n)' = {namespace[n]}
  BY <1>1, <1>2, EmptySeq DEF Versions, Copies
<1>4. \A n \in Namespaces : namespace'[n] = Latest(nsCache'[n], nsEvents'[n])
  BY <1>1 DEF Latest
<1>5. \A n \in Namespaces : namespace[n] \in Versions(n)
  BY LiveIsCopy DEF Versions
<1>. QED BY <1>1, <1>3, <1>4, <1>5, UIDsRepeated

\* A pass starts from a copy.
LEMMA StartUIDs == ASSUME Shape, UIDInv, NEW n \in Namespaces, Start(n) PROVE UIDInv'
<1>1. UNCHANGED <<nsStore, uid>>
  BY DEF Start
<1>2. CASE pass' = pass
  BY <1>1, <1>2, SameVersions DEF cur
<1>3. CASE pass'.cur = n /\ pass'.ns = nsCache[n]
  <2>1. \A m \in Namespaces : Versions(m)' \subseteq Versions(m)
    BY <1>1, <1>3 DEF Versions, Copies, nsStore, cur
  <2>. QED BY <1>1, <2>1, UIDsRepeated DEF UIDInv, nsStore
<1>. QED BY <1>2, <1>3 DEF Start, Idle

\* All other calls of a pass but those that see to the finalizer.
Elsewhere ==
  \/ ReadClass \/ Lookup \/ CreateBinding \/ UpdateBinding \/ RereadBinding \/ Prepare
  \/ ApplyResource \/ CheckStale \/ DeleteStale \/ RecordReady \/ RecordFailure \/ DeleteBinding
  \/ CallFails \/ BindingReplyLost \/ ApplyReplyLost \/ DeleteReplyLost

\* They leave the namespace alone, and the pass keeps to the version it has read.
LEMMA ElsewhereSame ==
  ASSUME Shape, Elsewhere
  PROVE  /\ UNCHANGED <<nsStore, uid>>
         /\ pass' = Idle \/ (cur' = cur /\ pass'.ns = pass.ns)
<1> DEFINE Same == pass' = Idle \/ (cur' = cur /\ pass'.ns = pass.ns)
<1>1. UNCHANGED <<nsStore, uid>>
  BY DEF Elsewhere, ReadClass, Lookup, CreateBinding, UpdateBinding, RereadBinding, Prepare,
     ApplyResource, CheckStale, DeleteStale, RecordReady, RecordFailure, DeleteBinding, CallFails,
     BindingReplyLost, ApplyReplyLost, DeleteReplyLost, Fault
<1> SUFFICES Same
  BY <1>1
<1>2. pass \in PassRecord /\ (~At("idle") => cur \in Namespaces)
  BY DEF Shape, TypeOK, PassShape
<1>3. ASSUME NEW result, Return(result) PROVE Same
  BY <1>3 DEF Return
<1>4. ASSUME SameSight(pass, pass') PROVE Same
  BY <1>4 DEF SameSight, cur
<1>5. ASSUME NEW step, pass' = Goto(step) PROVE Same
  BY <1>2, <1>5 DEF Goto, PassRecord, cur
<1>6. ASSUME NEW reason, pass' = FailWith(reason) PROVE Same
  BY <1>2, <1>4, <1>6, FailLooksOn
<1>7. CASE ReadClass
  BY <1>2, <1>7 DEF ReadClass, Proceed, PassRecord, cur
<1>8. CASE Lookup \/ RereadBinding
  <2> DEFINE held == [pass EXCEPT !.binding = bindingCache[cur]]
  <2>1. held \in PassRecord /\ held.cur = pass.cur /\ held.ns = pass.ns
    <3>1. bindingCache[cur] \in BindingObject \cup {Absent}
      BY <1>2, <1>8 DEF Lookup, RereadBinding, At, Shape, TypeOK, ClusterTypeOK
    <3>. QED BY <1>2, <3>1 DEF PassRecord
  <2>0. held = [pass EXCEPT !.binding = bindingCache[cur]]
    OBVIOUS
  <2> HIDE DEF held
  <2>2. ASSUME SameSight(held, pass') PROVE Same
    BY <2>1, <2>2 DEF SameSight, cur
  <2>3. CASE pass' = [held EXCEPT !.step = "update"]
    BY <2>1, <2>3 DEF PassRecord, cur
  <2>4. CASE pass' = WithBinding(held)
    BY <2>1, <2>2, <2>4, WithBindingLooksOn
  <2>5. CASE \E refs : pass' = SweepOf(held, refs)
    BY <2>1, <2>2, <2>5, SweepLooksOn
  <2>6. CASE Lookup
    BY <1>5, <2>0, <2>3, <2>4, <2>5, <2>6 DEF Lookup, Proceed, TakeCachedBinding
  <2>7. CASE RereadBinding
    BY <1>3, <2>0, <2>4, <2>7 DEF RereadBinding, TakeCachedBinding
  <2>. QED BY <1>8, <2>6, <2>7
<1>9. CASE CreateBinding \/ DeleteBinding
  BY <1>3, <1>5, <1>9 DEF CreateBinding, DeleteBinding, Proceed
<1>10. CASE UpdateBinding
  <2>1. ASSUME NEW b, pass' = [pass EXCEPT !.binding = b, !.step = "reread"] PROVE Same
    BY <1>2, <2>1 DEF PassRecord, cur
  <2>. QED BY <1>3, <1>10, <2>1 DEF UpdateBinding, Proceed
<1>11. CASE Prepare
  <2> DEFINE t == pass.resources[Len(pass.todo) + 1]
  <2>1. Append(pass.todo, t) \in Seq(Templates)
    BY <1>11, NextToPrepare DEF Prepare, At
  <2> HIDE DEF t
  <2>2. SameSight(pass, PrepareOf(pass, Append(pass.todo, t)))
    BY <1>2, <2>1, PrepareLooksOn
  <2>. QED BY <1>4, <1>6, <1>11, <2>2 DEF Prepare, Proceed, t
<1>12. CASE ApplyResource
  <2> DEFINE p == [pass EXCEPT !.applied = @ \cup {RefOf(Head(pass.todo), cur)}]
  <2>1. Head(pass.todo) \in Templates /\ Tail(pass.todo) \in Seq(Templates) /\ cur \in Namespaces
    BY <1>12, NextToApply, WorkingPass DEF ApplyResource, At
  <2>2. p \in PassRecord /\ p.cur = pass.cur /\ p.ns = pass.ns /\ p.resources = pass.resources
    BY <1>2, <2>1, RefsAndObjects DEF PassRecord
  <2> HIDE DEF p
  <2>3. SameSight(pass, ApplyOf(p, Tail(pass.todo)))
    BY <2>1, <2>2, ApplyLooksOn DEF SameSight
  <2>. QED BY <1>4, <1>6, <1>12, <2>3 DEF ApplyResource, Proceed, p
<1>13. CASE CheckStale \/ DeleteStale
  <2>1. ASSUME NEW r, pass' = [pass EXCEPT !.target = r, !.step = "delete"] PROVE Same
    BY <1>2, <2>1 DEF PassRecord, cur
  <2>2. ASSUME NEW refs, pass' = SweepOf(pass, refs) PROVE Same
    BY <1>2, <1>4, <2>2, SweepLooksOn
  <2>. QED BY <1>6, <1>13, <2>1, <2>2 DEF CheckStale, DeleteStale, Proceed
<1>14. CASE RecordReady \/ RecordFailure \/ BindingReplyLost
  BY <1>3, <1>14 DEF RecordReady, RecordFailure, BindingReplyLost
<1>15. CASE CallFails \/ ApplyReplyLost \/ DeleteReplyLost
  BY <1>3, <1>6, <1>15 DEF CallFails, ApplyReplyLost, DeleteReplyLost, Proceed
<1>. QED BY <1>7, <1>8, <1>9, <1>10, <1>11, <1>12, <1>13, <1>14, <1>15 DEF Elsewhere

\* A pass writes to its own namespace, with the UID it has read.
LEMMA FinalizerUIDs ==
  ASSUME Shape, UIDInv, AddFinalizer \/ RemoveFinalizer \/ NamespaceReplyLost PROVE UIDInv'
<1>1. /\ cur \in Namespaces /\ pass.ns \in NamespaceObject /\ pass \in PassRecord /\ uid' = uid
      /\ pass.ns \in Versions(cur) \ {Absent}
  BY SentinelAssumption DEF AddFinalizer, RemoveFinalizer, NamespaceReplyLost, Fault, Shape,
     TypeOK, PassShape, PassRecord, At, Versions
<1>2. CASE UNCHANGED nsStore /\ pass' = Idle
  BY <1>1, <1>2, SameVersions
<1>3. ASSUME NEW value \in BOOLEAN
      PROVE  LET v == [pass.ns EXCEPT !.finalizer = value]
             IN v \in NamespaceObject /\ v.uid = pass.ns.uid
  BY <1>1 DEF NamespaceObject
<1>4. CASE AddFinalizer
  <2> DEFINE v == [pass.ns EXCEPT !.finalizer = TRUE]
  <2>1. v \in NamespaceObject /\ v.uid = pass.ns.uid
    BY <1>3
  <2>2. CASE WriteNamespace(cur, v) /\ pass' = [pass EXCEPT !.ns = v, !.step = "lookup"]
    <3> HIDE DEF v
    <3>1. cur' = cur /\ pass'.ns = v
      BY <1>1, <2>2 DEF PassRecord, cur
    <3>. QED BY <1>1, <2>1, <2>2, <3>1, UIDsWritten
  <2>. QED BY <1>2, <1>4, <2>2 DEF AddFinalizer, Proceed, Return
<1>5. CASE RemoveFinalizer
  <2> DEFINE v == [pass.ns EXCEPT !.finalizer = FALSE]
  <2>1. v \in NamespaceObject /\ v.uid = pass.ns.uid
    BY <1>3
  <2>2. CASE WriteNamespace(cur, v) /\ pass' = Idle
    <3> HIDE DEF v
    <3>. QED BY <1>1, <2>1, <2>2, UIDsWritten
  <2>. QED BY <1>2, <1>5, <2>2 DEF RemoveFinalizer, Return
<1>6. ASSUME NEW value \in BOOLEAN, WriteNamespace(cur, [pass.ns EXCEPT !.finalizer = value]),
             pass' = Idle
      PROVE  UIDInv'
  <2> DEFINE v == [pass.ns EXCEPT !.finalizer = value]
  <2>1. v \in NamespaceObject /\ v.uid = pass.ns.uid
    BY <1>3
  <2>2. WriteNamespace(cur, v)
    BY <1>6
  <2> HIDE DEF v
  <2>. QED BY <1>1, <1>6, <2>1, <2>2, UIDsWritten
<1>7. CASE NamespaceReplyLost
  BY <1>6, <1>7 DEF NamespaceReplyLost, Return
<1>. QED BY <1>4, <1>5, <1>7

\* No two namespace names ever go by the same UID.
LEMMA UIDInvariant == Spec => []UIDInv
<1>1. Init => UIDInv
  <2> SUFFICES ASSUME Init PROVE UIDInv
    OBVIOUS
  <2>1. /\ pass = Idle /\ namespace = [n \in Namespaces |-> Absent]
        /\ nsCache = namespace /\ nsEvents = [n \in Namespaces |-> << >>]
    BY DEF Init, ClusterInit
  <2>2. cur \notin Namespaces
    BY <2>1, SentinelAssumption DEF Idle, cur
  <2>3. \A n \in Namespaces : Versions(n) = {Absent} /\ namespace[n] = Latest(nsCache[n], nsEvents[n])
    BY <2>1, <2>2, EmptySeq DEF Versions, Copies, Latest
  <2>. QED BY <2>3 DEF UIDInv
<1>2. Shape /\ UIDInv /\ [Next]_vars => UIDInv'
  <2> SUFFICES ASSUME Shape, UIDInv, [Next]_vars PROVE UIDInv'
    OBVIOUS
  <2>1. CASE Elsewhere
    BY <2>1, ElsewhereSame, SameVersions
  <2>2. CASE AddFinalizer \/ RemoveFinalizer \/ NamespaceReplyLost
    BY <2>2, FinalizerUIDs
  <2>3. CASE Delivery \/ Restart \/ \E n \in Namespaces : Start(n)
    BY <2>3, DeliveryUIDs, RestartUIDs, StartUIDs
  <2>4. CASE Environment /\ UNCHANGED <<workVars, budgetVars>>
    BY <2>4, EnvironmentUIDs DEF workVars
  <2>5. CASE UNCHANGED vars
    BY <2>5, SameVersions DEF vars, clusterVars, nsVars, workVars, cur
  <2>. QED BY <2>1, <2>2, <2>3, <2>4, <2>5 DEF Next, PassStep, Elsewhere
<1>. QED BY <1>1, <1>2, ShapeInvariant, PTL DEF Spec

-----------------------------------------------------------------------------
(* Who else acts.                                                          *)

\* What concerns namespace n is left alone.
Undisturbed(n) ==
  /\ namespace'[n] = namespace[n]
  /\ binding'[n] = binding[n]
  /\ class' = class
  /\ Known(n)'
  /\ \A o \in Objects : o.namespace \in {n, Cluster} /\ owner[o] = namespace[n].uid =>
       owner'[o] = owner[o] /\ content'[o] = content[o]

\* What a class and a namespace are when they are there.
LEMMA WhatIsThere ==
  ASSUME Shape, NEW n \in Namespaces
  PROVE  /\ namespace[n] # Absent => /\ namespace[n] \in NamespaceObject
                                     /\ namespace[n].uid \in UIDs
         /\ binding[n] # Absent => binding[n] \in BindingObject
         /\ \A c \in Classes : class[c] # Absent => class[c] \in Seq(Templates)
<1>1. /\ namespace[n] \in NamespaceObject \cup {Absent}
      /\ binding[n] \in BindingObject \cup {Absent}
      /\ class \in [Classes -> ResourceLists \cup {Absent}]
  BY DEF Shape, TypeOK, ClusterTypeOK
<1>. QED BY <1>1, DataAssumption DEF NamespaceObject

\* A namespace that is left alone still has what it had.
LEMMA LeftAsItWas ==
  ASSUME Shape, NEW n \in Namespaces, Undisturbed(n)
  PROVE  (Served(n) => Served(n)') /\ (Unasked(n) => Unasked(n)')
<1>1. ASSUME Unasked(n) PROVE Unasked(n)'
  BY <1>1 DEF Unasked, Undisturbed
<1>2. ASSUME Served(n) PROVE Served(n)'
  <2> DEFINE resources == class[namespace[n].label]
  <2>1. resources \in Seq(Templates)
    <3>1. namespace[n] \in NamespaceObject /\ namespace[n].label # NoLabel /\ resources # Absent
      BY <1>2, WhatIsThere DEF Served
    <3>2. namespace[n].label \in Classes
      BY <3>1 DEF NamespaceObject
    <3>. QED BY <3>1, <3>2, WhatIsThere
  <2>2. ASSUME NEW i \in DOMAIN resources, InPlace(resources[i], n)
        PROVE  InPlace(resources[i], n)'
    <3> DEFINE o == ObjectOf(RefOf(resources[i], n))
    <3>1. resources[i] \in Templates
      BY <2>1, <2>2, ElementOfSeq
    <3>2. o \in Objects
      BY <3>1, RefsAndObjects
    <3>3. o.namespace \in {n, Cluster}
      BY DEF ObjectOf, RefOf
    <3>4. owner[o] = namespace[n].uid /\ content[o] = resources[i].body
      BY <2>2 DEF InPlace
    <3> HIDE DEF o
    <3>5. owner'[o] = namespace'[n].uid /\ content'[o] = resources[i].body
      BY <3>2, <3>3, <3>4 DEF Undisturbed
    <3>6. resources' = resources
      BY DEF Undisturbed
    <3>. QED BY <3>5, <3>6 DEF InPlace, o
  <2>3. ClassInPlace(n)'
    BY <1>2, <2>2 DEF Served, ClassInPlace, Undisturbed
  <2>. QED BY <1>2, <2>3 DEF Served, Undisturbed
<1>. QED BY <1>1, <1>2

\* At rest it stays if the pass over it, if any, is left alone as well or ends.
LEMMA RestsOn ==
  ASSUME Shape, NEW n \in Namespaces, Undisturbed(n), AtRest(n),
         cur' = n => pass' = pass /\ (n \in bindingHeld => n \in bindingHeld')
  PROVE  AtRest(n)'
<1>1. (Served(n) => Served(n)') /\ (Unasked(n) => Unasked(n)')
  BY LeftAsItWas
<1>2. cur' = n => cur = n
  BY DEF cur
<1>3. ASSUME cur' = n, ServesAgain(n) PROVE ServesAgain(n)'
  BY <1>3 DEF ServesAgain, Undisturbed, At
<1>4. ASSUME cur' = n, PassesBy(n) PROVE PassesBy(n)'
  BY <1>4 DEF PassesBy, Undisturbed
<1>. QED BY <1>1, <1>2, <1>3, <1>4 DEF AtRest

\* Without an edit users do nothing but create namespaces, and Kubernetes clears
\* others away.
LEMMA EnvironmentRests ==
  ASSUME Shape, NEW n \in Namespaces, AtRest(n), Environment, edits' = edits,
         UNCHANGED <<workVars, budgetVars>>
  PROVE  Undisturbed(n) /\ AtRest(n)'
<1>1. /\ edits \in Nat /\ pass' = pass
      /\ namespace \in [Namespaces -> NamespaceObject \cup {Absent}]
      /\ nsEvents \in [Namespaces -> Seq(NamespaceObject \cup {Absent})]
      /\ owner \in [Objects -> UIDs \cup {Absent, Unowned}]
      /\ content \in [Objects -> Bodies \cup {Blank, Drifted}]
  BY DEF Shape, TypeOK, ClusterTypeOK, workVars
<1>2. namespace[n] # Absent /\ ~namespace[n].deleting /\ Known(n)
  BY DEF AtRest, Served, Unasked
<1>3. ASSUME NEW m \in Namespaces, m # n, NEW v, WriteNamespace(m, v),
             UNCHANGED <<bindingVars, classVars, objectVars>>
      PROVE  Undisturbed(n) /\ bindingHeld' = bindingHeld
  BY <1>1, <1>2, <1>3 DEF WriteNamespace, Undisturbed, Known, bindingVars, bindingStore,
     classVars, objectVars
<1>4. ASSUME NEW o \in Objects, CollectObject(o) PROVE Undisturbed(n) /\ bindingHeld' = bindingHeld
  <2>1. o.namespace \notin {n, Cluster}
    BY <1>2, <1>4 DEF CollectObject, Terminating
  <2>2. UNCHANGED <<nsVars, bindingVars, classVars>>
    BY <1>4 DEF CollectObject
  <2>3. \A x \in Objects : x # o => owner'[x] = owner[x] /\ content'[x] = content[x]
    BY <1>1, <1>4 DEF CollectObject, SetObject
  <2>4. Known(n)'
    BY <1>2, <2>2 DEF Known, nsVars, nsStore, bindingVars, bindingStore
  <2>. QED BY <2>1, <2>2, <2>3, <2>4 DEF Undisturbed, nsVars, nsStore, bindingVars, bindingStore,
       classVars
<1>5. \A kind : ~Edit(kind)
  BY <1>1 DEF Edit
<1>6. ASSUME NEW m \in Namespaces, NEW l \in Classes \cup {NoLabel},
             CreateNamespace(m, l) \/ Relabel(m, l)
      PROVE  Undisturbed(n) /\ bindingHeld' = bindingHeld
  BY <1>2, <1>3, <1>5, <1>6 DEF CreateNamespace, Relabel
<1>7. ASSUME NEW m \in Namespaces,
             DeleteNamespace(m) \/ DeleteBindingByHand(m) \/ FinishDeletion(m)
      PROVE  Undisturbed(n) /\ bindingHeld' = bindingHeld
  BY <1>2, <1>3, <1>5, <1>7 DEF DeleteNamespace, DeleteBindingByHand, FinishDeletion, Terminating
<1>8. \A c \in Classes, s \in ResourceLists \cup {Absent} : ~SetClass(c, s)
  BY <1>5 DEF SetClass
<1>9. \A o \in Objects : /\ \A what : ~CreateObject(o, what)
                         /\ ~DeleteObject(o) /\ ~StripMarkers(o) /\ ~DriftObject(o)
  BY <1>5 DEF CreateObject, DeleteObject, StripMarkers, DriftObject
<1>10. Undisturbed(n) /\ bindingHeld' = bindingHeld
  BY <1>4, <1>6, <1>7, <1>8, <1>9 DEF Environment
<1>. QED BY <1>1, <1>10, RestsOn

\* There is no news of it to deliver, and other events only fill the workqueue.
LEMMA DeliveryRests ==
  ASSUME Shape, NEW n \in Namespaces, AtRest(n), Delivery
  PROVE  Undisturbed(n) /\ AtRest(n)'
<1>1. Known(n)
  BY DEF AtRest, Served, Unasked
<1>2. /\ nsCache \in [Namespaces -> NamespaceObject \cup {Absent}]
      /\ nsEvents \in [Namespaces -> Seq(NamespaceObject \cup {Absent})]
      /\ bindingCache \in [Namespaces -> BindingObject \cup {Absent}]
      /\ bindingEvents \in [Namespaces -> Seq(BindingObject \cup {Absent})]
  BY DEF Shape, TypeOK, ClusterTypeOK
<1>3. ASSUME NEW m \in Namespaces, DeliverNamespace(m)
      PROVE  Undisturbed(n) /\ UNCHANGED <<pass, bindingHeld>>
  <2>1. m # n
    BY <1>1, <1>3 DEF DeliverNamespace, Known
  <2>. QED BY <1>1, <1>2, <1>3, <2>1 DEF DeliverNamespace, Undisturbed, Known, bindingVars,
       bindingStore, classVars, objectVars
<1>4. ASSUME NEW m \in Namespaces, DeliverBinding(m)
      PROVE  Undisturbed(n) /\ UNCHANGED <<pass, bindingHeld>>
  <2>1. m # n
    BY <1>1, <1>4 DEF DeliverBinding, Known
  <2>. QED BY <1>1, <1>2, <1>4, <2>1 DEF DeliverBinding, Undisturbed, Known, nsVars, nsStore,
       classVars, objectVars
<1>5. ASSUME \/ \E m \in Namespaces : Requeue(m)
             \/ \E c \in Classes : DeliverClass(c)
      PROVE  Undisturbed(n) /\ UNCHANGED <<pass, bindingHeld>>
  BY <1>1, <1>5 DEF Requeue, DeliverClass, Undisturbed, Known, clusterVars, nsVars, nsStore,
     bindingVars, bindingStore, classVars, objectVars
<1>6. Undisturbed(n) /\ UNCHANGED <<pass, bindingHeld>>
  BY <1>3, <1>4, <1>5 DEF Delivery
<1>. QED BY <1>6, RestsOn

\* A new controller lists what the old one knew.
LEMMA RestartRests ==
  ASSUME Shape, NEW n \in Namespaces, AtRest(n), Restart
  PROVE  Undisturbed(n) /\ AtRest(n)'
<1>1. /\ Undisturbed(n)
      /\ cur' # n
  BY SentinelAssumption DEF Restart, Undisturbed, Known, objectVars, Idle, cur
<1>. QED BY <1>1, RestsOn

\* A pass that begins with it begins with what is so.
LEMMA StartRests ==
  ASSUME Shape, NEW n \in Namespaces, AtRest(n), NEW m \in Namespaces, Start(m)
  PROVE  Undisturbed(n) /\ AtRest(n)'
<1>1. Known(n) /\ Undisturbed(n)
  BY DEF AtRest, Served, Unasked, Start, Undisturbed, Known, nsStore, bindingVars, bindingStore,
     classVars, objectVars
<1>2. cur # n /\ UNCHANGED bindingHeld
  BY SentinelAssumption DEF Start, Shape, PassShape, bindingVars
<1>3. CASE cur' # n
  BY <1>1, <1>3, RestsOn
<1>4. CASE cur' = n
  <2> DEFINE ns == nsCache[n]
  <2>1. /\ m = n
        /\ pass' = [Idle EXCEPT !.cur = n, !.ns = ns,
                      !.step = IF ns.deleting \/ ns.label = NoLabel THEN "lookup" ELSE "readClass"]
    BY <1>2, <1>4 DEF Start, Idle, cur
  <2>2. pass'.ns = ns /\ pass'.applied = {}
        /\ pass'.step = IF ns.deleting \/ ns.label = NoLabel THEN "lookup" ELSE "readClass"
    BY <2>1 DEF Idle
  <2>3. ns = namespace[n] /\ namespace'[n] = namespace[n]
    BY <1>1 DEF Known, Undisturbed
  <2>4. ASSUME Served(n) PROVE ServesAgain(n)'
    BY <2>2, <2>3, <2>4 DEF Served, ServesAgain, At, BindingSteps
  <2>5. ASSUME Unasked(n) PROVE PassesBy(n)'
    BY <2>2, <2>3, <2>5 DEF Unasked, PassesBy, At
  <2>. QED BY <1>1, <2>4, <2>5, LeftAsItWas DEF AtRest
<1>. QED BY <1>3, <1>4

\* A call writes to no other namespace, to no other binding and to no class.
LEMMA WritesItsOwn ==
  ASSUME Shape, Call, NEW n \in Namespaces, n # cur
  PROVE  /\ namespace'[n] = namespace[n] /\ nsCache'[n] = nsCache[n] /\ nsEvents'[n] = nsEvents[n]
         /\ binding'[n] = binding[n] /\ bindingCache'[n] = bindingCache[n]
         /\ bindingEvents'[n] = bindingEvents[n]
         /\ class' = class
         /\ cur' # n
<1> DEFINE NamespaceKept == /\ namespace'[n] = namespace[n] /\ nsCache'[n] = nsCache[n]
                            /\ nsEvents'[n] = nsEvents[n]
           BindingKept == /\ binding'[n] = binding[n] /\ bindingCache'[n] = bindingCache[n]
                          /\ bindingEvents'[n] = bindingEvents[n]
<1>1. /\ namespace \in [Namespaces -> NamespaceObject \cup {Absent}]
      /\ nsEvents \in [Namespaces -> Seq(NamespaceObject \cup {Absent})]
      /\ binding \in [Namespaces -> BindingObject \cup {Absent}]
      /\ bindingEvents \in [Namespaces -> Seq(BindingObject \cup {Absent})]
      /\ pass \in PassRecord
  BY DEF Shape, TypeOK, ClusterTypeOK
<1>2. ASSUME NEW v, WriteNamespace(cur, v) PROVE NamespaceKept
  BY <1>1, <1>2 DEF WriteNamespace
<1>3. ASSUME NEW v, WriteBinding(cur, v) PROVE BindingKept
  BY <1>1, <1>3 DEF WriteBinding
<1>4. UNCHANGED nsStore => NamespaceKept
  BY DEF nsStore
<1>5. UNCHANGED bindingStore => BindingKept
  BY DEF bindingStore
<1>6. pass' = Idle => cur' # n
  BY SentinelAssumption DEF Idle, cur
<1>7. CASE AddFinalizer \/ RemoveFinalizer \/ NamespaceReplyLost
  <2>1. NamespaceKept
    BY <1>2, <1>4, <1>7 DEF AddFinalizer, RemoveFinalizer, NamespaceReplyLost
  <2>2. BindingKept /\ class' = class
    BY <1>5, <1>7 DEF AddFinalizer, RemoveFinalizer, NamespaceReplyLost, Fault, classVars
  <2>3. \A ns : [pass EXCEPT !.ns = ns, !.step = "lookup"].cur = cur
    BY <1>1 DEF PassRecord, cur
  <2>4. pass' = Idle \/ cur' = cur
    BY <1>7, <2>3 DEF AddFinalizer, RemoveFinalizer, NamespaceReplyLost, Proceed, Return, cur
  <2>. QED BY <1>6, <2>1, <2>2, <2>4
<1>8. CASE Elsewhere
  <2>1. NamespaceKept /\ cur' # n
    BY <1>4, <1>6, <1>8, ElsewhereSame
  <2>2. CASE \/ CreateBinding \/ UpdateBinding \/ RecordReady \/ RecordFailure \/ DeleteBinding
             \/ BindingReplyLost
    BY <1>3, <1>5, <2>1, <2>2 DEF CreateBinding, UpdateBinding, RecordReady, RecordFailure,
       DeleteBinding, BindingReplyLost, Fault, StatusUpdate, classVars
  <2>3. CASE \/ ReadClass \/ Lookup \/ RereadBinding \/ Prepare \/ ApplyResource \/ CheckStale
             \/ DeleteStale \/ CallFails \/ ApplyReplyLost \/ DeleteReplyLost
    BY <1>5, <2>1, <2>3 DEF ReadClass, Lookup, RereadBinding, Prepare, ApplyResource, CheckStale,
       DeleteStale, CallFails, ApplyReplyLost, DeleteReplyLost, Fault, classVars
  <2>. QED BY <1>8, <2>2, <2>3 DEF Elsewhere
<1>. QED BY <1>7, <1>8 DEF Call, PassStep, Elsewhere

\* A pass over one namespace has the UID of no other.
LEMMA OthersRest ==
  ASSUME IInv, UIDInv, NEW n \in Namespaces, AtRest(n), Call, cur # n
  PROVE  Undisturbed(n) /\ AtRest(n)'
<1>1. Shape
  BY DEF IInv, Shape
<1>2. namespace[n] # Absent /\ Known(n)
  BY DEF AtRest, Served, Unasked
<1>3. cur \in Namespaces /\ pass.ns # Absent
  BY <1>1 DEF Shape, PassShape, Call, PassStep, At, ReadClass, AddFinalizer, Lookup,
     CreateBinding, UpdateBinding, RereadBinding, Prepare, ApplyResource, CheckStale, DeleteStale,
     RecordReady, RecordFailure, DeleteBinding, RemoveFinalizer, CallFails, ApplyReplyLost,
     NamespaceReplyLost, BindingReplyLost, DeleteReplyLost
<1>4. namespace[n].uid # pass.ns.uid /\ namespace[n].uid \in UIDs
  <2>1. namespace[n] \in Versions(n) \ {Absent} /\ pass.ns \in Versions(cur) \ {Absent}
    BY <1>1, <1>2, <1>3, LiveIsCopy DEF Versions
  <2>. QED BY <1>1, <1>2, <1>3, <2>1, WhatIsThere DEF UIDInv
<1>5. \A o \in Objects : owner[o] = namespace[n].uid => ~Changes(o)
  BY <1>4, OwnObjectsOnly DEF Call
<1>6. Undisturbed(n) /\ cur' # n
  BY <1>1, <1>2, <1>5, WritesItsOwn DEF Undisturbed, Known, Changes
<1>. QED BY <1>1, <1>6, RestsOn

-----------------------------------------------------------------------------
(* The pass over a namespace that is at rest.                              *)

\* A step that changes nothing but the pass and what it holds of the binding.
OnlyThePass == UNCHANGED <<nsStore, bindingStore, classVars, objectVars>>

\* It leaves every namespace alone whose caches are up to date.
LEMMA PassOnly ==
  ASSUME NEW n \in Namespaces, Known(n), OnlyThePass
  PROVE  Undisturbed(n)
BY DEF OnlyThePass, Undisturbed, Known, nsStore, bindingStore, classVars, objectVars

\* Such a step keeps a pass that learned nothing new on its way.
LEMMA GoesOnServing ==
  ASSUME Shape, NEW n \in Namespaces, Served(n), Undisturbed(n), cur = n,
         pass'.ns = namespace[n],
         pass'.step \in {"lookup", "prepare", "apply", "recordReady"},
         pass'.resources = class[namespace[n].label],
         pass'.step # "lookup" => pass'.binding = binding[n] /\ n \in bindingHeld',
         pass'.step \in {"prepare", "apply"} =>
           \A i \in DOMAIN pass'.todo :
             \E j \in DOMAIN class[namespace[n].label] :
               pass'.todo[i] = class[namespace[n].label][j],
         pass'.applied \subseteq DesiredBy(class[namespace[n].label], n)
  PROVE  AtRest(n)'
<1>1. ServesAgain(n)'
  BY DEF ServesAgain, Undisturbed, At, BindingSteps
<1>. QED BY <1>1, LeftAsItWas DEF AtRest

\* What a pass over a served namespace that has read its class goes by.
Serving(n, p) ==
  /\ p \in PassRecord
  /\ p.ns = namespace[n]
  /\ p.resources = class[namespace[n].label]
  /\ p.binding = binding[n]
  /\ p.applied \subseteq DesiredBy(class[namespace[n].label], n)

\* Applying what is left, or recording that all is there: nothing is stale.
LEMMA AppliesAgain ==
  ASSUME Shape, NEW n \in Namespaces, Served(n), Undisturbed(n), cur = n, Reconciling,
         NEW p, Serving(n, p), n \in bindingHeld',
         NEW todo \in Seq(Templates), pass' = ApplyOf(p, todo),
         \A i \in DOMAIN todo : \E j \in DOMAIN p.resources : todo[i] = p.resources[j],
         todo = << >> => DesiredBy(p.resources, n) \subseteq p.applied
  PROVE  AtRest(n)'
<1>1. CASE todo = << >>
  <2>1. p.binding.inventory = DesiredBy(p.resources, n)
    BY DEF Served, ClassInPlace, Serving
  <2>2. p.binding.inventory \ p.applied = {}
    BY <1>1, <2>1
  <2> DEFINE q == [p EXCEPT !.todo = todo]
  <2>3. q \in PassRecord /\ q.ns = p.ns /\ q.resources = p.resources /\ q.binding = p.binding
        /\ q.applied = p.applied
    BY DEF Serving, PassRecord
  <2>4. pass' = SweepOf(q, {})
    BY <1>1, <2>2 DEF ApplyOf
  <2> HIDE DEF q
  <2>5. /\ pass'.ns = q.ns /\ pass'.resources = q.resources /\ pass'.binding = q.binding
        /\ pass'.applied = q.applied /\ pass'.step = "recordReady"
    BY <2>3, <2>4, SweepOfShape DEF AfterSweep
  <2>. QED BY <2>3, <2>5, GoesOnServing DEF Serving
<1>2. CASE todo # << >>
  <2>1. /\ pass'.ns = p.ns /\ pass'.resources = p.resources /\ pass'.binding = p.binding
        /\ pass'.applied = p.applied /\ pass'.step = "apply" /\ pass'.todo = todo
    BY <1>2 DEF ApplyOf, Serving, PassRecord
  <2>. QED BY <2>1, GoesOnServing DEF Serving
<1>. QED BY <1>1, <1>2

\* Preparing what is left, or going on to apply all of it.
LEMMA PreparesAgain ==
  ASSUME Shape, NEW n \in Namespaces, Served(n), Undisturbed(n), cur = n, Reconciling,
         NEW p, Serving(n, p), n \in bindingHeld', p.resources \in Seq(Templates),
         NEW prepared \in Seq(Templates), pass' = PrepareOf(p, prepared),
         \A i \in DOMAIN prepared : \E j \in DOMAIN p.resources : prepared[i] = p.resources[j]
  PROVE  AtRest(n)'
<1>1. CASE Len(prepared) = Len(p.resources)
  <2>1. prepared = << >> => DesiredBy(p.resources, n) \subseteq p.applied
    <3>1. prepared = << >> => DOMAIN p.resources = {}
      BY <1>1
    <3>. QED BY <3>1 DEF DesiredBy
  <2>2. pass' = ApplyOf(p, prepared)
    BY <1>1 DEF PrepareOf
  <2>. QED BY <2>1, <2>2, AppliesAgain
<1>2. CASE Len(prepared) # Len(p.resources)
  <2>1. /\ pass'.ns = p.ns /\ pass'.resources = p.resources /\ pass'.binding = p.binding
        /\ pass'.applied = p.applied /\ pass'.step = "prepare" /\ pass'.todo = prepared
    BY <1>2 DEF PrepareOf, Serving, PassRecord
  <2>. QED BY <2>1, GoesOnServing DEF Serving
<1>. QED BY <1>1, <1>2

\* The facts of a pass over a served namespace.
LEMMA ServingPass ==
  ASSUME IInv, NEW n \in Namespaces, Served(n), ServesAgain(n), cur = n
  PROVE  /\ Shape /\ Known(n) /\ pass \in PassRecord /\ pass.ns = namespace[n]
         /\ namespace[n] \in NamespaceObject /\ namespace[n].label \in Classes
         /\ ~Deleting /\ ~Unlabelled
         /\ class[namespace[n].label] \in Seq(Templates)
         /\ class[namespace[n].label] # Absent
         /\ binding[n] \in BindingObject
         /\ ~At("readClass") => Reconciling /\ pass.resources = class[namespace[n].label]
         /\ At("prepare") \/ At("apply") \/ At("recordReady") =>
              Serving(n, pass) /\ n \in bindingHeld
<1>1. Shape /\ Known(n) /\ pass \in PassRecord /\ pass.ns = namespace[n]
  BY DEF IInv, Shape, TypeOK, Served, ServesAgain
<1>2. namespace[n] \in NamespaceObject /\ namespace[n].label # NoLabel
  BY <1>1, WhatIsThere DEF Served
<1>3. namespace[n].label \in Classes
  BY <1>2 DEF NamespaceObject
<1>4. class[namespace[n].label] \in Seq(Templates) /\ class[namespace[n].label] # Absent
  BY <1>1, <1>3, WhatIsThere DEF Served
<1>5. binding[n] \in BindingObject
  BY <1>1, WhatIsThere DEF Served, ClassInPlace
<1>6. ~Deleting /\ ~Unlabelled
  BY <1>1, <1>2 DEF Served, Deleting, Unlabelled
<1>7. ~At("readClass") => Reconciling /\ pass.resources = class[namespace[n].label]
  BY <1>4, <1>6 DEF ServesAgain, Reconciling
<1>8. ASSUME At("prepare") \/ At("apply") \/ At("recordReady")
      PROVE  Serving(n, pass) /\ n \in bindingHeld
  BY <1>1, <1>7, <1>8 DEF ServesAgain, Serving, At, BindingSteps
<1>. QED BY <1>1, <1>2, <1>3, <1>4, <1>5, <1>6, <1>7, <1>8

\* It finds the class, and the finalizer in its place.
LEMMA ReadsAgain ==
  ASSUME IInv, NEW n \in Namespaces, Served(n), ServesAgain(n), cur = n, ReadClass
  PROVE  Undisturbed(n) /\ AtRest(n)'
<1>1. Undisturbed(n)
  BY ServingPass, PassOnly DEF ReadClass, OnlyThePass
<1> DEFINE found == class[pass.ns.label]
<1>2. /\ pass' = [pass EXCEPT !.resources = found, !.step = "lookup"]
      /\ found = class[namespace[n].label]
  BY ServingPass DEF ReadClass, Proceed, AfterReadClass, Served
<1>3. /\ pass'.ns = namespace[n] /\ pass'.step = "lookup" /\ pass'.resources = found
      /\ pass'.applied = pass.applied
  BY <1>2, ServingPass DEF PassRecord
<1>. QED BY <1>1, <1>2, <1>3, ServingPass, GoesOnServing DEF ServesAgain

\* It finds the binding as it is, of the right class.
LEMMA LooksUpAgain ==
  ASSUME IInv, NEW n \in Namespaces, Served(n), ServesAgain(n), cur = n, Lookup
  PROVE  Undisturbed(n) /\ AtRest(n)'
<1>1. Undisturbed(n) /\ Reconciling
  BY ServingPass, PassOnly DEF Lookup, OnlyThePass, At
<1> DEFINE held == [pass EXCEPT !.binding = binding[n]]
<1>2. /\ bindingCache[cur] = binding[n] /\ binding[n] # Absent
      /\ binding[n].class = pass.ns.label /\ bindingEvents[cur] = << >>
  BY ServingPass DEF Served, ClassInPlace, Known
<1>3. pass' = WithBinding(held) /\ n \in bindingHeld'
  BY <1>2, ServingPass DEF Lookup, TakeCachedBinding
<1>4. pass' = PrepareOf(held, << >>)
  BY <1>1, <1>3 DEF WithBinding, Reconciling, ClassMissing
<1>5. Serving(n, held)
  <2>1. pass \in PassRecord /\ binding[n] \in BindingObject /\ pass.ns = namespace[n]
        /\ pass.resources = class[namespace[n].label]
        /\ pass.applied \subseteq DesiredBy(class[namespace[n].label], n)
    BY ServingPass DEF Lookup, At, ServesAgain
  <2>. QED BY <2>1 DEF Serving, PassRecord
<1> HIDE DEF held
<1>6. held.resources \in Seq(Templates) /\ << >> \in Seq(Templates) /\ DOMAIN << >> = {}
  BY <1>5, ServingPass DEF Serving
<1>. QED BY <1>1, <1>3, <1>4, <1>5, <1>6, ServingPass, PreparesAgain

\* It finds nothing to refuse: every object is the namespace's own.
LEMMA PreparesNextAgain ==
  ASSUME IInv, OrderInv, NEW n \in Namespaces, Served(n), ServesAgain(n), cur = n, Prepare
  PROVE  Undisturbed(n) /\ AtRest(n)'
<1> DEFINE k == Len(pass.todo) + 1
           t == pass.resources[k]
<1>1. /\ Shape /\ Known(n) /\ Serving(n, pass) /\ Reconciling /\ n \in bindingHeld
      /\ pass.step = "prepare"
      /\ pass.resources = class[namespace[n].label] /\ pass.resources \in Seq(Templates)
  BY ServingPass DEF Prepare, At
<1>2. Undisturbed(n)
  BY <1>1, PassOnly DEF Prepare, OnlyThePass
<1>3. /\ pass.todo \in Seq(Templates) /\ Len(pass.todo) < Len(pass.resources)
      /\ t \in Templates /\ Append(pass.todo, t) \in Seq(Templates)
  BY <1>1, WorkingPass, NextToPrepare
<1>4. k \in DOMAIN pass.resources
  BY <1>1, <1>3
<1>5. t.fault = "none"
  BY <1>1, <1>4 DEF Served, Appliable, Distinct
<1>6. CanManage(ObjectOf(RefOf(t, cur)))
  <2>1. InPlace(t, n)
    BY <1>1, <1>4 DEF Served, ClassInPlace
  <2>. QED BY <1>1, <2>1 DEF InPlace, CanManage, IsManagedBy, Serving
<1>7. ~\E i \in DOMAIN pass.todo : RefOf(pass.todo[i], cur) = RefOf(t, cur)
  <2>1. ASSUME NEW i \in DOMAIN pass.todo PROVE RefOf(pass.todo[i], cur) # RefOf(t, cur)
    <3>1. pass.todo[i] = pass.resources[i]
      BY <1>1 DEF OrderInv, PreparedInOrder, At
    <3>2. i \in DOMAIN pass.resources /\ i # k
      BY <1>1, <1>3
    <3>. QED BY <1>1, <1>4, <3>1, <3>2 DEF Served, Appliable, Distinct
  <2>. QED BY <2>1
<1>8. Refusal(t) = "none"
  BY <1>5, <1>6, <1>7 DEF Refusal
<1>9. pass' = PrepareOf(pass, Append(pass.todo, t)) /\ bindingHeld' = bindingHeld
  BY <1>8 DEF Prepare, Proceed
<1>10. ASSUME NEW i \in DOMAIN Append(pass.todo, t)
       PROVE  \E j \in DOMAIN pass.resources : Append(pass.todo, t)[i] = pass.resources[j]
  <2>1. CASE i \in DOMAIN pass.todo
    <3>1. Append(pass.todo, t)[i] = pass.todo[i]
      BY <1>3, <2>1
    <3>. QED BY <1>1, <2>1, <3>1 DEF ServesAgain
  <2>2. CASE i \notin DOMAIN pass.todo
    <3>1. Append(pass.todo, t)[i] = t
      BY <1>3, <1>10, <2>2
    <3>. QED BY <1>4, <3>1
  <2>. QED BY <2>1, <2>2
<1> HIDE DEF t, k
<1>. QED BY <1>1, <1>2, <1>3, <1>9, <1>10, PreparesAgain

\* Applying an object as it already is changes nothing, and is not refused.
LEMMA AppliesNextAgain ==
  ASSUME IInv, OrderInv, NEW n \in Namespaces, Served(n), ServesAgain(n), cur = n, ApplyResource
  PROVE  Undisturbed(n) /\ AtRest(n)'
<1> DEFINE t == Head(pass.todo)
           o == ObjectOf(RefOf(t, n))
           p == [pass EXCEPT !.applied = @ \cup {RefOf(t, n)}]
<1>1. /\ Shape /\ Known(n) /\ Serving(n, pass) /\ Reconciling /\ n \in bindingHeld
      /\ pass.step = "apply"
      /\ pass.resources = class[namespace[n].label] /\ pass.resources \in Seq(Templates)
  BY ServingPass DEF ApplyResource, At
<1>2. /\ pass.todo \in Seq(Templates) /\ pass.todo # << >>
      /\ t \in Templates /\ Tail(pass.todo) \in Seq(Templates)
      /\ RefOf(t, n) \in Refs /\ o \in Objects
  BY <1>1, WorkingPass, NextToApply, RefsAndObjects DEF Shape, PassShape, At
<1>3. PICK k \in DOMAIN pass.resources : t = pass.resources[k]
  <2>1. 1 \in DOMAIN pass.todo /\ t = pass.todo[1]
    BY <1>2, EmptySeq
  <2>. QED BY <1>1, <2>1 DEF ServesAgain
<1>4. t.fault = "none" /\ owner[o] = pass.ns.uid /\ content[o] = t.body
  BY <1>1, <1>3 DEF Served, Appliable, Distinct, ClassInPlace, InPlace, Serving
<1>5. t.body \in Bodies /\ pass.ns.uid \in UIDs
  BY <1>1, <1>2, WorkingPass DEF Bodies
<1>6. ApplyRefusals(t) = {}
  BY <1>4, <1>5, SentinelAssumption DEF ApplyRefusals
<1> HIDE DEF t
<1>7. /\ Apply(t) /\ Proceed(ApplyOf(p, Tail(pass.todo)))
      /\ UNCHANGED <<nsStore, bindingStore, classVars>>
  BY <1>6 DEF ApplyResource, t
<1>8. UNCHANGED objectVars
  <2>1. owner' = [owner EXCEPT ![o] = pass.ns.uid] /\ content' = [content EXCEPT ![o] = t.body]
    BY <1>7 DEF Apply, SetObject
  <2>2. /\ owner \in [Objects -> UIDs \cup {Absent, Unowned}]
        /\ content \in [Objects -> Bodies \cup {Blank, Drifted}]
    BY <1>1 DEF Shape, TypeOK, ClusterTypeOK
  <2> HIDE DEF o
  <2>3. owner' = owner /\ content' = content
    BY <1>4, <2>1, <2>2
  <2>. QED BY <2>3 DEF objectVars
<1>9. Undisturbed(n)
  BY <1>1, <1>7, <1>8, PassOnly DEF OnlyThePass
<1>10. /\ p \in PassRecord /\ p.ns = pass.ns /\ p.resources = pass.resources
       /\ p.binding = pass.binding /\ p.applied = pass.applied \cup {RefOf(t, n)}
  BY <1>1, <1>2 DEF Serving, PassRecord
<1> HIDE DEF p, o
<1>11. RefOf(t, n) \in DesiredBy(pass.resources, n)
  BY <1>3 DEF DesiredBy
<1>12. Serving(n, p)
  BY <1>1, <1>10, <1>11 DEF Serving
<1>13. ASSUME NEW i \in DOMAIN Tail(pass.todo)
       PROVE  \E j \in DOMAIN p.resources : Tail(pass.todo)[i] = p.resources[j]
  <2>1. i + 1 \in DOMAIN pass.todo /\ Tail(pass.todo)[i] = pass.todo[i + 1]
    BY <1>2, <1>13
  <2>. QED BY <1>1, <1>10, <2>1 DEF ServesAgain
<1>14. ASSUME Tail(pass.todo) = << >> PROVE DesiredBy(p.resources, n) \subseteq p.applied
  <2>1. \A j \in DOMAIN pass.todo : pass.todo[j] = t
    <3>1. Len(pass.todo) = 1
      <4>1. Len(Tail(pass.todo)) = Len(pass.todo) - 1 /\ Len(pass.todo) \in Nat
        BY <1>2, EmptySeq
      <4>2. Len(Tail(pass.todo)) = 0
        BY <1>14, EmptySeq
      <4>. QED BY <4>1, <4>2
    <3>2. t = pass.todo[1]
      BY <1>2, EmptySeq DEF t
    <3>. QED BY <1>2, <3>1, <3>2
  <2>2. \A i \in DOMAIN pass.resources :
          RefOf(pass.resources[i], n) \in pass.applied \/ pass.resources[i] = t
    BY <1>1, <2>1 DEF OrderInv, NothingSkipped, At
  <2>. QED BY <1>10, <2>2 DEF DesiredBy
<1>15. pass' = ApplyOf(p, Tail(pass.todo)) /\ bindingHeld' = bindingHeld
  BY <1>7 DEF Proceed
<1>. QED BY <1>1, <1>2, <1>9, <1>12, <1>13, <1>14, <1>15, AppliesAgain

\* The status it writes is the one that is there.
LEMMA RecordsAgain ==
  ASSUME IInv, OrderInv, NEW n \in Namespaces, Served(n), ServesAgain(n), cur = n, RecordReady
  PROVE  Undisturbed(n) /\ AtRest(n)'
<1> DEFINE resources == class[namespace[n].label]
<1>1. /\ Shape /\ Known(n) /\ Serving(n, pass) /\ Reconciling /\ n \in bindingHeld
      /\ pass.step = "recordReady" /\ pass.resources = resources /\ binding[n] \in BindingObject
  BY ServingPass DEF RecordReady, At
<1>2. pass.applied = DesiredBy(resources, n)
  BY <1>1 DEF Serving, OrderInv, SweepComesLast, Desired
<1>3. [pass.binding EXCEPT !.inventory = pass.applied, !.reason = "BindingRecorded"] = binding[n]
  <2>1. /\ binding[n].inventory = pass.applied /\ binding[n].reason = "BindingRecorded"
        /\ pass.binding = binding[n]
    BY <1>1, <1>2 DEF Served, ClassInPlace, Serving
  <2>. QED BY <1>1, <2>1 DEF BindingObject
<1>4. /\ StatusUpdate(pass.applied, "BindingRecorded") /\ pass' = Idle
      /\ UNCHANGED <<nsStore, classVars, objectVars>>
  BY <1>1 DEF RecordReady, HoldsBinding, Return
<1>5. UNCHANGED bindingStore
  BY <1>3, <1>4 DEF StatusUpdate, WriteBinding, bindingStore
<1>6. Undisturbed(n)
  BY <1>1, <1>4, <1>5, PassOnly DEF OnlyThePass
<1>7. cur' # n /\ AtRest(n)
  BY <1>4, SentinelAssumption DEF Idle, cur, AtRest
<1>. QED BY <1>1, <1>6, <1>7, RestsOn

\* A pass over a namespace without label, binding and finalizer does nothing.
LEMMA PassesByAgain ==
  ASSUME IInv, NEW n \in Namespaces, Unasked(n), PassesBy(n), cur = n, PassStep
  PROVE  Undisturbed(n) /\ AtRest(n)'
<1>1. Shape /\ Known(n) /\ pass \in PassRecord
  BY DEF IInv, Shape, TypeOK, Unasked
<1>2. ~Deleting /\ Unlabelled
  BY DEF Unasked, PassesBy, Deleting, Unlabelled
<1>3. Lookup \/ RemoveFinalizer
  BY DEF PassesBy, PassStep, At, ReadClass, AddFinalizer, CreateBinding, UpdateBinding,
     RereadBinding, Prepare, ApplyResource, CheckStale, DeleteStale, RecordReady, RecordFailure,
     DeleteBinding
<1>4. CASE Lookup
  <2>1. bindingCache[cur] = Absent
    BY DEF Unasked, Known
  <2>2. pass' = Goto("removeFinalizer") /\ Undisturbed(n)
    BY <1>1, <1>2, <1>4, <2>1, PassOnly DEF Lookup, Proceed, OnlyThePass
  <2>3. pass'.ns = pass.ns /\ pass'.step = "removeFinalizer"
    BY <1>1, <2>2 DEF Goto, PassRecord
  <2>4. PassesBy(n)'
    BY <2>2, <2>3 DEF PassesBy, Undisturbed, At
  <2>. QED BY <1>1, <2>2, <2>4, LeftAsItWas DEF AtRest
<1>5. CASE RemoveFinalizer
  <2>1. ~pass.ns.finalizer
    BY DEF Unasked, PassesBy
  <2>2. pass' = Idle /\ Undisturbed(n)
    BY <1>1, <1>5, <2>1, PassOnly DEF RemoveFinalizer, Return, OnlyThePass
  <2>3. cur' # n /\ AtRest(n)
    BY <2>2, SentinelAssumption DEF Idle, cur, AtRest
  <2>. QED BY <1>1, <2>2, <2>3, RestsOn
<1>. QED BY <1>3, <1>4, <1>5

\* A pass over a namespace at rest, none of whose calls fails, leaves it at rest.
LEMMA OwnPassRests ==
  ASSUME IInv, OrderInv, NEW n \in Namespaces, AtRest(n), cur = n, PassStep
  PROVE  Undisturbed(n) /\ AtRest(n)'
<1>1. CASE Unasked(n) /\ PassesBy(n)
  BY <1>1, PassesByAgain
<1>2. CASE Served(n) /\ ServesAgain(n)
  <2>1. ReadClass \/ Lookup \/ Prepare \/ ApplyResource \/ RecordReady
    BY <1>2 DEF ServesAgain, PassStep, At, AddFinalizer, CreateBinding, UpdateBinding,
       RereadBinding, CheckStale, DeleteStale, RecordFailure, DeleteBinding, RemoveFinalizer
  <2>. QED BY <1>2, <2>1, ReadsAgain, LooksUpAgain, PreparesNextAgain, AppliesNextAgain, RecordsAgain
<1>. QED BY <1>1, <1>2 DEF AtRest

\* A namespace that has what it asks for keeps it: whatever timers, events and
\* restarts make the controller pass over it again, the passes change nothing, and
\* neither do the passes over other namespaces, whether their calls fail or not.
THEOREM RestKept == Spec => RestIsKept
<1>1. ASSUME IInv, OrderInv, UIDInv, [Next]_vars,
             NEW n \in Namespaces, AtRest(n), edits' = edits, faults' = faults \/ cur # n
      PROVE  AtRest(n)' /\ namespace'[n] = namespace[n] /\ binding'[n] = binding[n]
  <2>1. Shape /\ Known(n) /\ faults \in Nat
    BY <1>1 DEF IInv, Shape, TypeOK, AtRest, Served, Unasked
  <2>2. SUFFICES Undisturbed(n) /\ AtRest(n)'
    BY DEF Undisturbed
  <2>3. CASE Environment /\ UNCHANGED <<workVars, budgetVars>>
    BY <1>1, <2>1, <2>3, EnvironmentRests
  <2>4. CASE Delivery \/ Restart
    BY <1>1, <2>1, <2>4, DeliveryRests, RestartRests
  <2>5. CASE \E m \in Namespaces : Start(m)
    BY <1>1, <2>1, <2>5, StartRests
  <2>6. CASE Call /\ cur # n
    BY <1>1, <2>6, OthersRest
  <2>7. CASE PassStep /\ cur = n
    BY <1>1, <2>7, OwnPassRests
  <2>8. CASE /\ cur = n
             /\ \/ CallFails
                \/ NamespaceReplyLost \/ BindingReplyLost \/ ApplyReplyLost \/ DeleteReplyLost
    BY <1>1, <2>1, <2>8 DEF CallFails, NamespaceReplyLost, BindingReplyLost, ApplyReplyLost,
       DeleteReplyLost, Fault
  <2>9. CASE UNCHANGED vars
    <3>1. OnlyThePass /\ pass' = pass /\ bindingHeld' = bindingHeld
      BY <2>9 DEF vars, clusterVars, workVars, nsVars, bindingVars, OnlyThePass
    <3>. QED BY <1>1, <2>1, <3>1, PassOnly, RestsOn
  <2>. QED BY <1>1, <2>3, <2>4, <2>5, <2>6, <2>7, <2>8, <2>9 DEF Next, Call
<1>2. IInv /\ OrderInv /\ UIDInv /\ [Next]_vars => KeepsRest
  BY <1>1 DEF KeepsRest
<1>3. IInv /\ OrderInv /\ UIDInv /\ [Next]_vars => [KeepsRest]_vars
  BY <1>2
<1>. QED BY <1>3, InductiveInvariant, OrderInvariant, UIDInvariant, PTL DEF Spec, RestIsKept
=============================================================================
