--------------------------- MODULE FinalizerProofs ---------------------------
(***************************************************************************)
(* Objects are created only under the finalizer, for all values of the     *)
(* constants, as long as no class is created while the controller runs.    *)
(*                                                                         *)
(* The danger is a pass that takes the finalizer for granted because the   *)
(* cached namespace has it, after another pass has removed it.  Removal    *)
(* happens from the current version only; all versions still on their way  *)
(* then agree with it on label and deletion, and give a later pass the     *)
(* same reason not to apply anything.                                      *)
(***************************************************************************)
EXTENDS ReconcilerProofs

-----------------------------------------------------------------------------
(* Versions of a namespace in flight.                                      *)

\* A write puts one more version on its way.
LEMMA NamespaceWritten ==
  ASSUME Shape, NEW n \in Namespaces, NEW v \in NamespaceObject \cup {Absent},
         WriteNamespace(n, v), \A m \in Namespaces : namespace[m] = Latest(nsCache[m], nsEvents[m])
  PROVE  /\ namespace' = [namespace EXCEPT ![n] = v]
         /\ \A m \in Namespaces : Copies(m)' \subseteq Copies(m) \cup (IF m = n THEN {v} ELSE {})
         /\ \A m \in Namespaces : namespace'[m] = Latest(nsCache'[m], nsEvents'[m])
<1>1. /\ namespace \in [Namespaces -> NamespaceObject \cup {Absent}]
      /\ nsEvents \in [Namespaces -> Seq(NamespaceObject \cup {Absent})]
      /\ namespace' = [namespace EXCEPT ![n] = v]
      /\ nsEvents' = [nsEvents EXCEPT ![n] = Append(nsEvents[n], v)]
      /\ nsCache' = nsCache
  BY DEF Shape, TypeOK, ClusterTypeOK, WriteNamespace
<1>2. nsEvents[n] \in Seq(NamespaceObject \cup {Absent})
  BY <1>1
<1>3. \A c : Latest(c, Append(nsEvents[n], v)) = v
  BY <1>2, LatestOfAppend
<1>4. ASSUME NEW i \in DOMAIN Append(nsEvents[n], v)
      PROVE  Append(nsEvents[n], v)[i] = v \/ \E j \in DOMAIN nsEvents[n] : nsEvents[n][j] = Append(nsEvents[n], v)[i]
  BY <1>2, <1>4, AppendProperties
<1>5. ASSUME NEW m \in Namespaces
      PROVE  /\ Copies(m)' \subseteq Copies(m) \cup (IF m = n THEN {v} ELSE {})
             /\ namespace'[m] = Latest(nsCache'[m], nsEvents'[m])
  <2>1. CASE m = n
    <3>1. nsEvents'[m] = Append(nsEvents[n], v) /\ namespace'[m] = v /\ nsCache'[m] = nsCache[n]
      BY <1>1, <2>1
    <3>. QED BY <1>3, <1>4, <2>1, <3>1 DEF Copies
  <2>2. CASE m # n
    <3>1. nsEvents'[m] = nsEvents[m] /\ namespace'[m] = namespace[m] /\ nsCache'[m] = nsCache[m]
      BY <1>1, <2>2
    <3>. QED BY <2>2, <3>1 DEF Copies
  <2>. QED BY <2>1, <2>2
<1>. QED BY <1>1, <1>5

\* A delivery leaves a version behind.
LEMMA NamespaceDelivered ==
  ASSUME Shape, NEW n \in Namespaces, DeliverNamespace(n),
         \A m \in Namespaces : namespace[m] = Latest(nsCache[m], nsEvents[m])
  PROVE  /\ \A m \in Namespaces : Copies(m)' \subseteq Copies(m)
         /\ \A m \in Namespaces : namespace'[m] = Latest(nsCache'[m], nsEvents'[m])
<1>1. /\ nsCache \in [Namespaces -> NamespaceObject \cup {Absent}]
      /\ nsEvents \in [Namespaces -> Seq(NamespaceObject \cup {Absent})]
      /\ namespace' = namespace
      /\ nsEvents' = [nsEvents EXCEPT ![n] = Tail(nsEvents[n])]
      /\ nsCache' = [nsCache EXCEPT ![n] = Head(nsEvents[n])]
      /\ nsEvents[n] # << >>
  BY DEF Shape, TypeOK, ClusterTypeOK, DeliverNamespace
<1>2. nsEvents[n] \in Seq(NamespaceObject \cup {Absent})
  BY <1>1
<1>3. Latest(Head(nsEvents[n]), Tail(nsEvents[n])) = Latest(nsCache[n], nsEvents[n])
  BY <1>1, <1>2, LatestOfTail
<1>4. /\ Head(nsEvents[n]) = nsEvents[n][1] /\ 1 \in DOMAIN nsEvents[n]
      /\ \A i \in DOMAIN Tail(nsEvents[n]) :
           i + 1 \in DOMAIN nsEvents[n] /\ Tail(nsEvents[n])[i] = nsEvents[n][i + 1]
  BY <1>1, <1>2, HeadTailProperties, EmptySeq
<1>5. ASSUME NEW m \in Namespaces
      PROVE  /\ Copies(m)' \subseteq Copies(m)
             /\ namespace'[m] = Latest(nsCache'[m], nsEvents'[m])
  <2>1. CASE m = n
    <3>1. nsEvents'[m] = Tail(nsEvents[n]) /\ namespace'[m] = namespace[n] /\ nsCache'[m] = Head(nsEvents[n])
      BY <1>1, <2>1
    <3>. QED BY <1>3, <1>4, <2>1, <3>1 DEF Copies
  <2>2. CASE m # n
    <3>1. nsEvents'[m] = nsEvents[m] /\ namespace'[m] = namespace[m] /\ nsCache'[m] = nsCache[m]
      BY <1>1, <2>2
    <3>. QED BY <2>2, <3>1 DEF Copies
  <2>. QED BY <2>1, <2>2
<1>. QED BY <1>5

-----------------------------------------------------------------------------
(* What happens to namespaces and classes.                                 *)

\* No class comes into being.
NoClassCreated == "createClass" \notin Edits

\* A user's or Kubernetes' write to a namespace that does not take the finalizer
\* off, on a version that does not bring it on.
LEMMA ForeignWrite ==
  ASSUME Shape, FinalizerInv, UNCHANGED <<pass, class>>,
         NEW n \in Namespaces, NEW v \in NamespaceObject \cup {Absent}, WriteNamespace(n, v),
         nsHeld' = nsHeld \ {n},
         namespace[n] # Absent /\ namespace[n].finalizer =>
           v # Absent /\ v.uid = namespace[n].uid /\ v.finalizer,
         Trusts(v) => namespace[n] # Absent /\ v.uid = namespace[n].uid
  PROVE  FinalizerInv'
<1>1. /\ namespace' = [namespace EXCEPT ![n] = v]
      /\ \A m \in Namespaces : Copies(m)' \subseteq Copies(m) \cup (IF m = n THEN {v} ELSE {})
      /\ \A m \in Namespaces : namespace'[m] = Latest(nsCache'[m], nsEvents'[m])
      /\ namespace \in [Namespaces -> NamespaceObject \cup {Absent}]
  BY NamespaceWritten DEF FinalizerInv, NamespaceTrails, Shape, TypeOK, ClusterTypeOK
<1>2. ASSUME NEW m \in Namespaces, NEW u, Guarded(m, u) PROVE Guarded(m, u)'
  <2>1. CASE m = n
    BY <1>1, <1>2, <2>1 DEF Guarded
  <2>2. CASE m # n
    BY <1>1, <1>2, <2>2 DEF Guarded
  <2>. QED BY <2>1, <2>2
<1>3. Trusts(v) => Guarded(n, v)'
  BY <1>1 DEF Guarded, Trusts
<1>4. \A u : Trusts(u)' = Trusts(u)
  BY DEF Trusts
<1>5. \A m \in Namespaces : \A u \in Copies(m)' : Trusts(u)' => Guarded(m, u)'
  BY <1>1, <1>2, <1>3, <1>4 DEF FinalizerInv, FinalizerTrusted
<1>6. cur' = cur /\ (~At("idle") => cur \in Namespaces)
  BY DEF cur, Shape, PassShape
<1>7. FinalizerTrusted'
  <2>1. At("readClass") /\ Trusts(pass.ns) => Guarded(cur, pass.ns)'
    BY <1>2, <1>6 DEF FinalizerInv, FinalizerTrusted, At
  <2>2. ~At("idle") /\ Reconciling /\ ~At("addFinalizer") => pass.ns.finalizer /\ Guarded(cur, pass.ns)'
    BY <1>2, <1>6 DEF FinalizerInv, FinalizerTrusted
  <2>. QED BY <1>4, <1>5, <1>6, <2>1, <2>2
       DEF FinalizerInv, FinalizerTrusted, At, Deleting, Unlabelled, Reconciling, ClassMissing
<1>8. NamespaceTrails'
  <2>1. nsHeld' \subseteq {cur}'
    BY <1>6 DEF FinalizerInv, NamespaceTrails
  <2>2. ASSUME cur' \in nsHeld'
        PROVE  /\ namespace'[cur'] = pass'.ns
               /\ \A u \in Copies(cur)' : u # Absent /\ u.label = pass'.ns.label
                                                  /\ u.deleting = pass'.ns.deleting
    <3>1. cur \in nsHeld /\ cur # n /\ cur \in Namespaces
      BY <1>6, <2>2 DEF Shape, TypeOK, ClusterTypeOK
    <3>2. Copies(cur)' \subseteq Copies(cur) /\ namespace'[cur] = namespace[cur]
      BY <1>1, <1>6, <3>1 DEF Copies
    <3>. QED BY <1>6, <3>1, <3>2 DEF FinalizerInv, NamespaceTrails
  <2>. QED BY <1>1, <2>1, <2>2 DEF NamespaceTrails
<1>. QED BY <1>7, <1>8 DEF FinalizerInv

\* What touches neither namespaces nor the pass, and lets no class come to be.
LEMMA NothingOfMatter ==
  ASSUME FinalizerInv, UNCHANGED <<nsStore, nsHeld, pass>>,
         \A c \in Classes : class[c] = Absent => class'[c] = Absent, Shape
  PROVE  FinalizerInv'
<1>1. \A n \in Namespaces : Copies(n)' = Copies(n)
  BY DEF Copies, nsStore
<1>2. \A n \in Namespaces : \A v : Guarded(n, v)' = Guarded(n, v)
  BY DEF Guarded, nsStore
<1>3. ASSUME NEW v \in NamespaceObject \cup {Absent}, Trusts(v)' PROVE Trusts(v)
  BY <1>3 DEF Trusts, NamespaceObject
<1>4. \A n \in Namespaces : \A v \in Copies(n) : v \in NamespaceObject \cup {Absent}
  BY ElementOfSeq DEF Copies, Shape, TypeOK, ClusterTypeOK
<1>5. /\ cur' = cur /\ pass.ns \in NamespaceObject \cup {Absent}
      /\ ~At("idle") => cur \in Namespaces /\ pass.ns \in NamespaceObject
  BY DEF cur, Shape, TypeOK, PassShape, PassRecord
<1>6. ~At("idle") /\ ClassMissing => pass.ns.label \in Classes
  BY <1>5 DEF ClassMissing, Unlabelled, NamespaceObject
<1>7. NamespaceTrails'
  <2>1. /\ nsHeld' \subseteq {cur'}
        /\ \A n \in Namespaces : namespace'[n] = Latest(nsCache'[n], nsEvents'[n])
    BY <1>5 DEF nsStore, FinalizerInv, NamespaceTrails
  <2>2. Copies(cur)' = Copies(cur)
    BY <1>5 DEF Copies, nsStore
  <2>. QED BY <1>5, <2>1, <2>2 DEF nsStore, FinalizerInv, NamespaceTrails
<1>8. \A n \in Namespaces : \A v \in Copies(n)' : Trusts(v)' => Guarded(n, v)'
  BY <1>1, <1>2, <1>3, <1>4 DEF FinalizerInv, FinalizerTrusted
<1>9. At("readClass") /\ Trusts(pass.ns)' => Guarded(cur, pass.ns)'
  BY <1>2, <1>3, <1>5 DEF FinalizerInv, FinalizerTrusted, At
<1>10. ~At("idle") /\ Reconciling /\ ~At("addFinalizer") => pass.ns.finalizer /\ Guarded(cur, pass.ns)'
  BY <1>2, <1>5 DEF FinalizerInv, FinalizerTrusted
<1>11. ~At("idle") /\ ClassMissing /\ ~At("readClass") => class'[pass.ns.label] = Absent
  BY <1>6 DEF FinalizerInv, FinalizerTrusted
<1>12. FinalizerTrusted'
  BY <1>5, <1>8, <1>9, <1>10, <1>11
     DEF FinalizerInv, FinalizerTrusted, At, Deleting, Unlabelled, Reconciling, ClassMissing
<1>. QED BY <1>7, <1>12 DEF FinalizerInv

\* Users and Kubernetes.
LEMMA EnvironmentTrusted ==
  ASSUME NoClassCreated, Shape, FinalizerInv, Environment, UNCHANGED <<workVars, budgetVars>>
  PROVE  FinalizerInv'
<1>1. UNCHANGED pass /\ namespace \in [Namespaces -> NamespaceObject \cup {Absent}] /\ nsHeld \subseteq Namespaces
  BY DEF workVars, Shape, TypeOK, ClusterTypeOK
<1>2. CASE UNCHANGED <<nsVars, class>>
  BY <1>1, <1>2, NothingOfMatter DEF nsVars
<1>3. ASSUME NEW n \in Namespaces, NEW l \in Classes \cup {NoLabel}, CreateNamespace(n, l)
      PROVE  FinalizerInv'
  <2> DEFINE v == [uid |-> uid + 1, label |-> l, deleting |-> FALSE, finalizer |-> FALSE]
  <2>1. WriteNamespace(n, v) /\ namespace[n] = Absent /\ nsHeld' = nsHeld /\ UNCHANGED class
    BY <1>3 DEF CreateNamespace, classVars
  <2>2. v \in NamespaceObject
    <3>1. uid \in 0..MaxUID /\ uid < MaxUID /\ MaxUID \in Nat
      BY <1>3, DataAssumption DEF CreateNamespace, Shape, TypeOK, ClusterTypeOK
    <3>2. uid + 1 \in UIDs
      BY <3>1 DEF UIDs
    <3>. QED BY <3>2 DEF NamespaceObject
  <2>3. ~Trusts(v)
    BY DEF Trusts
  <2>4. n \notin nsHeld
    BY <2>1, SentinelAssumption DEF FinalizerInv, NamespaceTrails, Shape, PassShape
  <2> HIDE DEF v
  <2>. QED BY <1>1, <2>1, <2>2, <2>3, <2>4, ForeignWrite
<1>4. ASSUME NEW n \in Namespaces, NEW l \in Classes \cup {NoLabel}, Relabel(n, l)
      PROVE  FinalizerInv'
  <2> DEFINE v == [namespace[n] EXCEPT !.label = l]
  <2>1. WriteNamespace(n, v) /\ namespace[n] # Absent /\ nsHeld' = nsHeld \ {n} /\ UNCHANGED class
    BY <1>4 DEF Relabel, EditNamespace, classVars
  <2>2. v \in NamespaceObject /\ v.uid = namespace[n].uid /\ v.finalizer = namespace[n].finalizer /\ v # Absent
    BY <1>1, <2>1, SentinelAssumption DEF NamespaceObject
  <2> HIDE DEF v
  <2>. QED BY <1>1, <2>1, <2>2, ForeignWrite
<1>5. ASSUME NEW n \in Namespaces, DeleteNamespace(n) PROVE FinalizerInv'
  <2> DEFINE v == [namespace[n] EXCEPT !.deleting = TRUE]
  <2>1. WriteNamespace(n, v) /\ namespace[n] # Absent /\ nsHeld' = nsHeld \ {n} /\ UNCHANGED class
    BY <1>5 DEF DeleteNamespace, EditNamespace, classVars
  <2>2. v \in NamespaceObject /\ v.uid = namespace[n].uid /\ v.finalizer = namespace[n].finalizer /\ v # Absent
    BY <1>1, <2>1, SentinelAssumption DEF NamespaceObject
  <2> HIDE DEF v
  <2>. QED BY <1>1, <2>1, <2>2, ForeignWrite
<1>6. ASSUME NEW n \in Namespaces, FinishDeletion(n) PROVE FinalizerInv'
  <2>1. /\ WriteNamespace(n, Absent) /\ ~namespace[n].finalizer /\ nsHeld' = nsHeld \ {n}
        /\ UNCHANGED class
    BY <1>6 DEF FinishDeletion, classVars
  <2>2. ~Trusts(Absent)
    BY DEF Trusts
  <2>. QED BY <1>1, <2>1, <2>2, ForeignWrite
<1>7. ASSUME NEW c \in Classes, NEW s \in ResourceLists \cup {Absent}, SetClass(c, s)
      PROVE  FinalizerInv'
  <2>1. /\ UNCHANGED <<nsStore, nsHeld>> /\ class' = [class EXCEPT ![c] = s] /\ class[c] # s
        /\ class[c] = Absent => s = Absent
    BY <1>7 DEF SetClass, Edit, nsVars, NoClassCreated
  <2>2. \A d \in Classes : class[d] = Absent => class'[d] = Absent
    BY <2>1 DEF Shape, TypeOK, ClusterTypeOK
  <2>. QED BY <1>1, <2>1, <2>2, NothingOfMatter
<1>8. ASSUME NEW n \in Namespaces, DeleteBindingByHand(n) PROVE UNCHANGED <<nsVars, class>>
  BY <1>8 DEF DeleteBindingByHand, classVars
<1>9. ASSUME NEW o \in Objects, NEW what \in {Blank, Drifted}, CreateObject(o, what)
      PROVE  UNCHANGED <<nsVars, class>>
  BY <1>9 DEF CreateObject, EditObject, classVars
<1>10. ASSUME NEW o \in Objects,
              DeleteObject(o) \/ StripMarkers(o) \/ DriftObject(o) \/ CollectObject(o)
       PROVE  UNCHANGED <<nsVars, class>>
  BY <1>10 DEF DeleteObject, StripMarkers, DriftObject, CollectObject, EditObject, classVars
<1>. QED BY <1>2, <1>3, <1>4, <1>5, <1>6, <1>7, <1>8, <1>9, <1>10 DEF Environment

-----------------------------------------------------------------------------
(* What the controller does.                                               *)

\* Deliveries only use up versions.
LEMMA DeliveryTrusted == ASSUME Shape, FinalizerInv, Delivery PROVE FinalizerInv'
<1>1. UNCHANGED <<pass, class, nsHeld, namespace>>
  BY DEF Delivery, DeliverNamespace, DeliverBinding, DeliverClass, Requeue, nsVars, nsStore, classVars, clusterVars
<1>2. CASE UNCHANGED nsStore
  BY <1>1, <1>2, NothingOfMatter
<1>3. ASSUME NEW n \in Namespaces, DeliverNamespace(n) PROVE FinalizerInv'
  <2>1. /\ \A m \in Namespaces : Copies(m)' \subseteq Copies(m)
        /\ \A m \in Namespaces : namespace'[m] = Latest(nsCache'[m], nsEvents'[m])
    BY <1>3, NamespaceDelivered DEF FinalizerInv, NamespaceTrails
  <2>2. /\ \A m \in Namespaces : \A v : Guarded(m, v)' = Guarded(m, v)
        /\ \A v : Trusts(v)' = Trusts(v)
        /\ Guarded(cur, pass.ns)' = Guarded(cur, pass.ns)
        /\ cur' = cur /\ nsHeld \subseteq Namespaces
    BY <1>1 DEF Guarded, Trusts, cur, Shape, TypeOK, ClusterTypeOK
  <2>3. NamespaceTrails'
    <3>1. cur \in nsHeld => Copies(cur)' \subseteq Copies(cur)
      BY <2>1, <2>2 DEF Copies
    <3>. QED BY <1>1, <2>1, <2>2, <3>1 DEF FinalizerInv, NamespaceTrails
  <2>4. FinalizerTrusted'
    BY <1>1, <2>1, <2>2
       DEF FinalizerInv, FinalizerTrusted, At, Deleting, Unlabelled, Reconciling, ClassMissing
  <2>. QED BY <2>3, <2>4 DEF FinalizerInv
<1>4. ASSUME ~ \E n \in Namespaces : DeliverNamespace(n) PROVE UNCHANGED nsStore
  BY <1>4 DEF Delivery, DeliverBinding, DeliverClass, Requeue, nsVars, clusterVars
<1>. QED BY <1>2, <1>3, <1>4

\* Without a pass only the versions in flight matter.
LEMMA IdleTrusted ==
  ASSUME pass' = Idle, nsHeld' = {},
         \A n \in Namespaces : namespace'[n] = Latest(nsCache'[n], nsEvents'[n]),
         \A n \in Namespaces : \A v \in Copies(n)' : Trusts(v)' => Guarded(n, v)'
  PROVE  FinalizerInv'
<1>1. pass'.step = "idle"
  BY DEF Idle
<1>. QED BY <1>1 DEF FinalizerInv, NamespaceTrails, FinalizerTrusted, At

\* A new process starts from the live namespaces.
LEMMA RestartTrusted == ASSUME Restart PROVE FinalizerInv'
<1>1. namespace' = namespace /\ nsCache' = namespace /\ \A n \in Namespaces : nsEvents'[n] = << >>
  BY DEF Restart
<1>2. ASSUME NEW n \in Namespaces
      PROVE  namespace'[n] = Latest(nsCache'[n], nsEvents'[n]) /\ Copies(n)' = {namespace[n]}
  BY <1>1 DEF Latest, Copies
<1>3. ASSUME NEW n \in Namespaces, NEW v, v = namespace[n], Trusts(v)'
      PROVE  Guarded(n, v)'
  BY <1>1, <1>3 DEF Trusts, Guarded
<1>. QED BY <1>2, <1>3, IdleTrusted DEF Restart

\* A pass that returns without a write to the namespace.
LEMMA ReturnTrusted ==
  ASSUME FinalizerInv, UNCHANGED <<nsStore, class>>, NEW result, Return(result)
  PROVE  FinalizerInv'
<1>1. pass' = Idle /\ nsHeld' = {}
  BY DEF Return
<1>2. \A n \in Namespaces : Copies(n)' = Copies(n) /\ \A v : Guarded(n, v)' = Guarded(n, v)
  BY DEF Copies, Guarded, nsStore
<1>3. \A v : Trusts(v)' = Trusts(v)
  BY DEF Trusts
<1>. QED BY <1>1, <1>2, <1>3, IdleTrusted DEF FinalizerInv, NamespaceTrails, FinalizerTrusted, nsStore

\* q has seen the same namespace and class as p, and is past both.
SameSight(p, q) ==
  /\ q.cur = p.cur /\ q.ns = p.ns /\ q.resources = p.resources
  /\ q.step \notin {"idle", "readClass", "addFinalizer", "removeFinalizer"}

\* A pass that has seen to its namespace and its class goes on.
LEMMA SightKept ==
  ASSUME FinalizerInv, UNCHANGED <<nsStore, nsHeld, class>>,
         pass.step \notin {"idle", "readClass", "addFinalizer"},
         \/ SameSight(pass, pass')
         \/ /\ pass'.cur = pass.cur /\ pass'.ns = pass.ns /\ pass'.resources = pass.resources
            /\ pass'.step = "removeFinalizer" /\ ~Reconciling
  PROVE  FinalizerInv'
<1>1. /\ cur' = cur /\ pass'.ns = pass.ns /\ pass'.resources = pass.resources
      /\ pass'.step \notin {"idle", "readClass", "addFinalizer"}
      /\ pass'.step = "removeFinalizer" => ~Reconciling
  BY DEF SameSight, cur
<1>2. \A n : Copies(n)' = Copies(n) /\ \A v : Guarded(n, v)' = Guarded(n, v)
  BY DEF Copies, Guarded, nsStore
<1>3. \A v : Trusts(v)' = Trusts(v)
  BY DEF Trusts
<1>4. /\ Reconciling' = Reconciling /\ ClassMissing' = ClassMissing
  BY <1>1 DEF Deleting, Unlabelled, Reconciling, ClassMissing
<1>5. NamespaceTrails'
  BY <1>1, <1>2 DEF FinalizerInv, NamespaceTrails, nsStore
<1>6. FinalizerTrusted'
  <2>1. Guarded(cur, pass.ns)' = Guarded(cur, pass.ns)
    BY <1>1 DEF Guarded, nsStore
  <2>. QED BY <1>1, <1>2, <1>3, <1>4, <2>1 DEF FinalizerInv, FinalizerTrusted, At
<1>. QED BY <1>5, <1>6 DEF FinalizerInv

\* The operators that continue a pass leave its sight alone.
LEMMA SweepLooksOn == ASSUME NEW p \in PassRecord, NEW s PROVE SameSight(p, SweepOf(p, s))
BY DEF SameSight, SweepOf, AfterSweep, PassRecord

\* So does going on to apply what is left, or to sweep if nothing is.
LEMMA ApplyLooksOn ==
  ASSUME NEW p \in PassRecord, NEW todo \in Seq(Templates)
  PROVE  SameSight(p, ApplyOf(p, todo))
<1> DEFINE q == [p EXCEPT !.todo = todo]
<1>1. q \in PassRecord /\ q.cur = p.cur /\ q.ns = p.ns /\ q.resources = p.resources
  BY DEF PassRecord
<1>2. CASE todo = << >>
  <2>1. ApplyOf(p, todo) = SweepOf(q, p.binding.inventory \ p.applied)
    BY <1>2 DEF ApplyOf
  <2> HIDE DEF q
  <2>. QED BY <1>1, <2>1, SweepLooksOn DEF SameSight
<1>3. CASE todo # << >>
  BY <1>3 DEF ApplyOf, SameSight, PassRecord
<1>. QED BY <1>2, <1>3

\* So does preparing one resource more, or turning to apply.
LEMMA PrepareLooksOn ==
  ASSUME NEW p \in PassRecord, NEW prepared \in Seq(Templates)
  PROVE  SameSight(p, PrepareOf(p, prepared))
<1>1. CASE Len(prepared) = Len(p.resources)
  BY <1>1, ApplyLooksOn DEF PrepareOf
<1>2. CASE Len(prepared) # Len(p.resources)
  BY <1>2 DEF PrepareOf, SameSight, PassRecord
<1>. QED BY <1>1, <1>2

\* So does starting on the class once the binding is read.
LEMMA WithBindingLooksOn == ASSUME NEW p \in PassRecord PROVE SameSight(p, WithBinding(p))
BY SweepLooksOn, PrepareLooksOn, EmptySeq DEF WithBinding

\* So does turning to record a failure.
LEMMA FailLooksOn == ASSUME pass \in PassRecord, NEW reason PROVE SameSight(pass, FailWith(reason))
BY DEF FailWith, SameSight, PassRecord

-----------------------------------------------------------------------------
(* The steps of a pass that see to the namespace and the class.            *)

\* A pass starts from the cached version, and holds it if nothing newer is on its way.
LEMMA StartTrusted == ASSUME Shape, FinalizerInv, NEW n \in Namespaces, Start(n) PROVE FinalizerInv'
<1>1. UNCHANGED <<nsStore, class>>
  BY DEF Start, classVars
<1>2. CASE UNCHANGED <<pass, nsHeld>>
  BY <1>1, <1>2, NothingOfMatter
<1>3. CASE ~UNCHANGED <<pass, nsHeld>>
  <2> DEFINE v == nsCache[n]
  <2>1. /\ pass' = [Idle EXCEPT !.cur = n, !.ns = v,
                       !.step = IF v.deleting \/ v.label = NoLabel THEN "lookup" ELSE "readClass"]
        /\ nsHeld' = IF nsEvents[n] = << >> THEN {n} ELSE {}
        /\ v # Absent
    BY <1>3 DEF Start
  <2>2. /\ cur' = n /\ pass'.ns = v /\ pass'.resources = Absent
        /\ pass'.step = IF v.deleting \/ v.label = NoLabel THEN "lookup" ELSE "readClass"
    BY <2>1 DEF Idle, cur
  <2>3. v \in Copies(n)
    BY DEF Copies
  <2>4. \A m : Copies(m)' = Copies(m) /\ \A u : Guarded(m, u)' = Guarded(m, u)
    BY <1>1 DEF Copies, Guarded, nsStore
  <2>5. \A u : Trusts(u)' = Trusts(u)
    BY <1>1 DEF Trusts
  <2>6. NamespaceTrails'
    <3>1. nsEvents[n] = << >> => Copies(n) = {v} /\ namespace[n] = v
      BY EmptySeq DEF Copies, FinalizerInv, NamespaceTrails, Latest
    <3>. QED BY <1>1, <2>1, <2>2, <2>4, <3>1 DEF FinalizerInv, NamespaceTrails, nsStore
  <2>7. /\ ~Reconciling'
        /\ ~At("readClass")' => ~ClassMissing'
        /\ ~At("removeFinalizer")'
    BY <2>2 DEF Reconciling, ClassMissing, Unlabelled, Deleting, At
  <2>8. Trusts(pass'.ns) => Guarded(cur, pass.ns)'
    <3>1. Guarded(cur, pass.ns)' = Guarded(n, v)
      BY <1>1, <2>2 DEF Guarded, nsStore
    <3>. QED BY <2>2, <2>3, <3>1 DEF FinalizerInv, FinalizerTrusted
  <2>9. Trusts(pass.ns)' = Trusts(pass'.ns)
    BY <1>1 DEF Trusts
  <2>10. FinalizerTrusted'
    BY <2>4, <2>5, <2>7, <2>8, <2>9 DEF FinalizerInv, FinalizerTrusted
  <2>. QED BY <2>6, <2>10 DEF FinalizerInv
<1>. QED BY <1>2, <1>3

\* Taking the finalizer for granted is right, and the class is as it was read.
LEMMA ReadClassTrusted == ASSUME Shape, FinalizerInv, ReadClass PROVE FinalizerInv'
<1> DEFINE found == class[pass.ns.label]
<1>1. /\ UNCHANGED <<nsStore, nsHeld, class>>
      /\ pass' = [pass EXCEPT !.resources = found, !.step = AfterReadClass(found)]
      /\ At("readClass")
  BY DEF ReadClass, Proceed, classVars
<1>2. pass \in PassRecord /\ pass.ns # Absent /\ ~Deleting /\ pass.ns.label # NoLabel
  BY <1>1 DEF Shape, TypeOK, PassShape, At
<1>3. /\ pass'.resources = found /\ pass'.step = AfterReadClass(found)
      /\ cur' = cur /\ pass'.ns = pass.ns
  BY <1>1, <1>2 DEF PassRecord, cur
<1>4. \A m : Copies(m)' = Copies(m) /\ \A u : Guarded(m, u)' = Guarded(m, u)
  BY <1>1 DEF Copies, Guarded, nsStore
<1>5. \A u : Trusts(u)' = Trusts(u)
  BY <1>1 DEF Trusts
<1>6. NamespaceTrails'
  BY <1>1, <1>3, <1>4 DEF FinalizerInv, NamespaceTrails, nsStore
<1>7. Reconciling' /\ ~At("addFinalizer")' => pass.ns.finalizer /\ Trusts(pass.ns)
  BY <1>2, <1>3 DEF Reconciling, Deleting, At, AfterReadClass, Trusts
<1>8. Guarded(cur, pass.ns)' = Guarded(cur, pass.ns)
  BY <1>1, <1>3 DEF Guarded, nsStore
<1>9. At("readClass")' = FALSE /\ At("removeFinalizer")' = FALSE
  BY <1>3 DEF At, AfterReadClass
<1>10. ClassMissing' => class'[pass'.ns.label] = Absent
  BY <1>1, <1>3 DEF ClassMissing
<1>11. FinalizerTrusted'
  BY <1>1, <1>3, <1>4, <1>5, <1>7, <1>8, <1>9, <1>10 DEF FinalizerInv, FinalizerTrusted
<1>. QED BY <1>6, <1>11 DEF FinalizerInv

\* The finalizer is added where the live namespace is the one of the pass.
LEMMA AdditionStored ==
  ASSUME Shape, FinalizerInv, At("addFinalizer"), UNCHANGED class, HoldsNamespace,
         NEW v, v = [pass.ns EXCEPT !.finalizer = TRUE], WriteNamespace(cur, v)
  PROVE  /\ cur \in Namespaces /\ pass \in PassRecord
         /\ v \in NamespaceObject /\ v # Absent /\ v.finalizer
         /\ v.uid = pass.ns.uid /\ v.label = pass.ns.label /\ v.deleting = pass.ns.deleting
         /\ namespace'[cur] = v
         /\ \A m \in Namespaces : Copies(m)' \subseteq Copies(m) \cup (IF m = cur THEN {v} ELSE {})
         /\ \A m \in Namespaces : namespace'[m] = Latest(nsCache'[m], nsEvents'[m])
         /\ \A m \in Namespaces : \A u \in Copies(m)' : Trusts(u)' => Guarded(m, u)'
<1>1. /\ pass \in PassRecord /\ cur \in Namespaces
      /\ pass.ns \in NamespaceObject /\ namespace[cur] = pass.ns
      /\ namespace \in [Namespaces -> NamespaceObject \cup {Absent}]
  BY DEF Shape, TypeOK, ClusterTypeOK, PassShape, PassRecord, At, FinalizerInv, NamespaceTrails,
         HoldsNamespace
<1>2. /\ v \in NamespaceObject /\ v # Absent /\ v.finalizer
      /\ v.uid = pass.ns.uid /\ v.label = pass.ns.label /\ v.deleting = pass.ns.deleting
  BY <1>1, SentinelAssumption DEF NamespaceObject
<1>3. /\ namespace' = [namespace EXCEPT ![cur] = v]
      /\ \A m \in Namespaces : Copies(m)' \subseteq Copies(m) \cup (IF m = cur THEN {v} ELSE {})
      /\ \A m \in Namespaces : namespace'[m] = Latest(nsCache'[m], nsEvents'[m])
  BY <1>1, <1>2, NamespaceWritten DEF FinalizerInv, NamespaceTrails
<1>4. namespace'[cur] = v
  BY <1>1, <1>3
<1>5. ASSUME NEW m \in Namespaces, NEW u, Guarded(m, u) \/ (m = cur /\ u = v) PROVE Guarded(m, u)'
  <2>1. CASE m = cur
    BY <1>1, <1>2, <1>4, <1>5, <2>1 DEF Guarded
  <2>2. CASE m # cur
    <3>1. namespace'[m] = namespace[m]
      BY <1>1, <1>3, <2>2
    <3>. QED BY <1>5, <2>2, <3>1 DEF Guarded
  <2>. QED BY <2>1, <2>2
<1>6. \A u : Trusts(u)' = Trusts(u)
  BY DEF Trusts
<1>7. \A m \in Namespaces : \A u \in Copies(m)' : Trusts(u)' => Guarded(m, u)'
  BY <1>3, <1>5, <1>6 DEF FinalizerInv, FinalizerTrusted
<1>. QED BY <1>1, <1>2, <1>3, <1>4, <1>7

\* AddFinalizer stores the namespace that the pass goes on with.
LEMMA AddFinalizerTrusted == ASSUME Shape, FinalizerInv, AddFinalizer PROVE FinalizerInv'
<1>1. At("addFinalizer") /\ UNCHANGED class
  BY DEF AddFinalizer, classVars
<1>2. CASE UNCHANGED nsStore /\ Return("retry")
  BY <1>1, <1>2, ReturnTrusted
<1>3. CASE ~(UNCHANGED nsStore /\ Return("retry"))
  <2> DEFINE v == [pass.ns EXCEPT !.finalizer = TRUE]
  <2>1. /\ HoldsNamespace
        /\ WriteNamespace(cur, v)
        /\ pass' = [pass EXCEPT !.ns = v, !.step = "lookup"]
        /\ UNCHANGED nsHeld
    BY <1>3 DEF AddFinalizer, Proceed
  <2>2. /\ cur \in Namespaces /\ pass \in PassRecord
        /\ v \in NamespaceObject /\ v # Absent /\ v.finalizer
        /\ v.uid = pass.ns.uid /\ v.label = pass.ns.label /\ v.deleting = pass.ns.deleting
        /\ namespace'[cur] = v
        /\ \A m \in Namespaces : Copies(m)' \subseteq Copies(m) \cup (IF m = cur THEN {v} ELSE {})
        /\ \A m \in Namespaces : namespace'[m] = Latest(nsCache'[m], nsEvents'[m])
        /\ \A m \in Namespaces : \A u \in Copies(m)' : Trusts(u)' => Guarded(m, u)'
    BY <1>1, <2>1, AdditionStored
  <2> HIDE DEF v
  <2>3. /\ pass'.ns = v /\ pass'.step = "lookup" /\ cur' = cur /\ pass'.resources = pass.resources
    BY <2>1, <2>2 DEF PassRecord, cur
  <2>4. NamespaceTrails'
    <3>1. PICK n \in Namespaces : n = cur /\ n = cur'
      BY <2>2, <2>3
    <3>2. Copies(n)' \subseteq Copies(n) \cup {v} /\ namespace'[n] = v
      BY <2>2, <3>1
    <3>3. \A u \in Copies(n)' : u # Absent /\ u.label = pass'.ns.label /\ u.deleting = pass'.ns.deleting
      BY <2>1, <2>2, <2>3, <3>1, <3>2 DEF FinalizerInv, NamespaceTrails, HoldsNamespace
    <3>4. Copies(cur)' = Copies(n)'
      BY <3>1 DEF Copies
    <3>. QED BY <2>1, <2>2, <2>3, <3>1, <3>2, <3>3, <3>4 DEF FinalizerInv, NamespaceTrails
  <2>5. Guarded(cur, pass.ns)'
    <3>1. namespace'[cur'] = v
      BY <2>2, <2>3
    <3>. QED BY <2>2, <2>3, <3>1 DEF Guarded
  <2>6. ClassMissing' => class'[pass'.ns.label] = Absent
    <3>1. ClassMissing' => ClassMissing
      BY <2>2, <2>3 DEF ClassMissing, Deleting, Unlabelled
    <3>. QED BY <1>1, <2>2, <2>3, <3>1 DEF FinalizerInv, FinalizerTrusted, At
  <2>7. FinalizerTrusted'
    BY <2>2, <2>3, <2>5, <2>6 DEF FinalizerTrusted, At
  <2>. QED BY <2>4, <2>7 DEF FinalizerInv
<1>. QED BY <1>2, <1>3

\* The finalizer is taken off the current version, and no version in flight lets a
\* The finalizer is removed where no version of the namespace is trusted to have it.
LEMMA RemovalStored ==
  ASSUME Shape, FinalizerInv, At("removeFinalizer"), UNCHANGED class, HoldsNamespace,
         NEW result, Return(result),
         WriteNamespace(cur, [pass.ns EXCEPT !.finalizer = FALSE])
  PROVE  FinalizerInv'
<1> DEFINE v == [pass.ns EXCEPT !.finalizer = FALSE]
<1>1. /\ WriteNamespace(cur, v) /\ cur \in nsHeld /\ pass' = Idle /\ nsHeld' = {}
  BY DEF HoldsNamespace, Return
<1>2. /\ cur \in Namespaces /\ pass.ns \in NamespaceObject
      /\ namespace \in [Namespaces -> NamespaceObject \cup {Absent}]
  BY DEF Shape, TypeOK, ClusterTypeOK, PassShape, PassRecord, At
<1>3. v \in NamespaceObject /\ ~v.finalizer
  BY <1>2 DEF NamespaceObject
<1> HIDE DEF v
<1>4. /\ namespace' = [namespace EXCEPT ![cur] = v]
      /\ \A m \in Namespaces : Copies(m)' \subseteq Copies(m) \cup (IF m = cur THEN {v} ELSE {})
      /\ \A m \in Namespaces : namespace'[m] = Latest(nsCache'[m], nsEvents'[m])
  BY <1>1, <1>2, <1>3, NamespaceWritten DEF FinalizerInv, NamespaceTrails
<1>5. \A u \in Copies(cur) : ~Trusts(u)
  <2>1. \A u \in Copies(cur) : u.label = pass.ns.label /\ u.deleting = pass.ns.deleting
    BY <1>1 DEF FinalizerInv, NamespaceTrails
  <2>2. pass.ns.deleting \/ pass.ns.label = NoLabel \/ class[pass.ns.label] = Absent
    BY DEF FinalizerInv, FinalizerTrusted, At, Reconciling, ClassMissing, Unlabelled, Deleting
  <2>. QED BY <2>1, <2>2 DEF Trusts
<1>6. \A u : Trusts(u)' = Trusts(u)
  BY DEF Trusts
<1>7. ASSUME NEW m \in Namespaces, NEW u \in Copies(m)', Trusts(u) PROVE Guarded(m, u)'
  <2>1. m # cur /\ u \in Copies(m)
    BY <1>3, <1>4, <1>5, <1>7 DEF Trusts
  <2>2. namespace'[m] = namespace[m]
    BY <1>2, <1>4, <2>1
  <2>. QED BY <1>7, <2>1, <2>2 DEF FinalizerInv, FinalizerTrusted, Guarded
<1>. QED BY <1>1, <1>4, <1>6, <1>7, IdleTrusted

\* later pass take it for granted.
LEMMA RemoveFinalizerTrusted == ASSUME Shape, FinalizerInv, RemoveFinalizer PROVE FinalizerInv'
<1>1. At("removeFinalizer") /\ UNCHANGED class
  BY DEF RemoveFinalizer, classVars
<1>. QED BY <1>1, ReturnTrusted, RemovalStored DEF RemoveFinalizer

-----------------------------------------------------------------------------
(* The other steps of a pass.                                              *)

\* Steps that only read.
LEMMA ReadingTrusted ==
  ASSUME Shape, FinalizerInv, Lookup \/ RereadBinding \/ Prepare \/ CheckStale
  PROVE  FinalizerInv'
<1>1. /\ UNCHANGED <<nsStore, class>> /\ pass \in PassRecord
      /\ pass.step \in {"lookup", "reread", "prepare", "sweep"}
  BY DEF Lookup, RereadBinding, Prepare, CheckStale, classVars, At, Shape, TypeOK
<1>2. CASE Return("retry")
  BY <1>1, <1>2, ReturnTrusted
<1>3. ASSUME UNCHANGED nsHeld, SameSight(pass, pass') PROVE FinalizerInv'
  BY <1>1, <1>3, SightKept
<1>4. cur \in Namespaces
  BY <1>1 DEF Shape, PassShape, At
<1>5. bindingCache[cur] \in BindingObject \cup {Absent}
  BY <1>4 DEF Shape, TypeOK, ClusterTypeOK
<1> DEFINE held == [pass EXCEPT !.binding = bindingCache[cur]]
<1>6. held \in PassRecord /\ held.cur = pass.cur /\ held.ns = pass.ns /\ held.resources = pass.resources
  BY <1>1, <1>5 DEF PassRecord
<1>7. CASE Lookup
  <2>1. ASSUME NEW q, pass' = q, UNCHANGED nsHeld, SameSight(held, q) PROVE FinalizerInv'
    BY <1>3, <1>6, <2>1 DEF SameSight
  <2>2. CASE pass' = Goto("create") /\ UNCHANGED nsHeld
    <3>1. SameSight(pass, pass')
      BY <1>1, <2>2 DEF Goto, SameSight, PassRecord
    <3>. QED BY <1>3, <2>2, <3>1
  <2>3. CASE pass' = Goto("removeFinalizer") /\ (Deleting \/ Unlabelled) /\ UNCHANGED nsHeld
    <3>1. /\ pass'.cur = pass.cur /\ pass'.ns = pass.ns /\ pass'.resources = pass.resources
          /\ pass'.step = "removeFinalizer" /\ ~Reconciling
      BY <1>1, <2>3 DEF Goto, PassRecord, Reconciling
    <3>. QED BY <1>1, <2>3, <3>1, SightKept
  <2>4. CASE pass' = [held EXCEPT !.step = "update"] /\ UNCHANGED nsHeld
    <3> HIDE DEF held
    <3>1. SameSight(held, [held EXCEPT !.step = "update"])
      BY <1>6 DEF SameSight, PassRecord
    <3>. QED BY <2>1, <2>4, <3>1
  <2>5. CASE (\E s : pass' = SweepOf(held, s)) /\ UNCHANGED nsHeld
    BY <1>6, <2>1, <2>5, SweepLooksOn
  <2>6. CASE pass' = WithBinding(held) /\ UNCHANGED nsHeld
    BY <1>6, <2>1, <2>6, WithBindingLooksOn
  <2>. QED BY <1>7, <2>2, <2>3, <2>4, <2>5, <2>6 DEF Lookup, Proceed, TakeCachedBinding
<1>8. CASE RereadBinding
  <2>1. CASE pass' = WithBinding(held) /\ UNCHANGED nsHeld
    <3>1. SameSight(held, pass')
      BY <1>6, <2>1, WithBindingLooksOn
    <3>. QED BY <1>3, <1>6, <2>1, <3>1 DEF SameSight
  <2>. QED BY <1>2, <1>8, <2>1 DEF RereadBinding, TakeCachedBinding
<1>9. CASE Prepare
  <2> DEFINE t == pass.resources[Len(pass.todo) + 1]
  <2>1. Append(pass.todo, t) \in Seq(Templates)
    BY <1>9, NextToPrepare DEF Prepare, At
  <2> HIDE DEF t
  <2>2. SameSight(pass, PrepareOf(pass, Append(pass.todo, t)))
    BY <1>1, <2>1, PrepareLooksOn
  <2>3. \A reason : SameSight(pass, FailWith(reason))
    BY <1>1, FailLooksOn
  <2>. QED BY <1>3, <1>9, <2>2, <2>3 DEF Prepare, Proceed, t
<1>10. CASE CheckStale
  <2>1. UNCHANGED nsHeld /\ \E r \in pass.stale :
          \/ pass' = SweepOf(pass, pass.stale \ {r})
          \/ pass' = [pass EXCEPT !.target = r, !.step = "delete"]
          \/ pass' = FailWith(SweepFailed)
    BY <1>10 DEF CheckStale, Proceed
  <2>2. \A r : SameSight(pass, [pass EXCEPT !.target = r, !.step = "delete"])
    BY <1>1 DEF SameSight, PassRecord
  <2>3. SameSight(pass, pass')
    BY <1>1, <2>1, <2>2, SweepLooksOn, FailLooksOn
  <2>. QED BY <1>3, <2>1, <2>3
<1>. QED BY <1>7, <1>8, <1>9, <1>10

\* Steps that write to bindings and objects.
LEMMA WritingTrusted ==
  ASSUME Shape, FinalizerInv,
         \/ CreateBinding \/ UpdateBinding \/ ApplyResource \/ DeleteStale \/ RecordReady
         \/ RecordFailure \/ DeleteBinding
  PROVE  FinalizerInv'
<1>1. /\ UNCHANGED <<nsStore, class>> /\ pass \in PassRecord
      /\ pass.step \in {"create", "update", "apply", "delete", "recordReady", "recordFailure",
                        "deleteBinding"}
  BY DEF CreateBinding, UpdateBinding, ApplyResource, DeleteStale, RecordReady, RecordFailure,
         DeleteBinding, classVars, At, Shape, TypeOK
<1>2. ASSUME NEW result, Return(result) PROVE FinalizerInv'
  BY <1>1, <1>2, ReturnTrusted
<1>3. ASSUME UNCHANGED nsHeld, SameSight(pass, pass') PROVE FinalizerInv'
  BY <1>1, <1>3, SightKept
<1>4. CASE CreateBinding
  <2>1. SameSight(pass, Goto("reread"))
    BY <1>1 DEF Goto, SameSight, PassRecord
  <2>. QED BY <1>2, <1>3, <1>4, <2>1 DEF CreateBinding, Proceed
<1>5. CASE UpdateBinding
  <2>1. \A b : SameSight(pass, [pass EXCEPT !.binding = b, !.step = "reread"])
    BY <1>1 DEF SameSight, PassRecord
  <2>. QED BY <1>2, <1>3, <1>5, <2>1 DEF UpdateBinding, Proceed
<1>6. CASE ApplyResource
  <2> DEFINE p == [pass EXCEPT !.applied = @ \cup {RefOf(Head(pass.todo), cur)}]
  <2>1. /\ Head(pass.todo) \in Templates /\ Tail(pass.todo) \in Seq(Templates)
        /\ cur \in Namespaces
    BY <1>6, NextToApply, WorkingPass DEF ApplyResource, At
  <2>2. p \in PassRecord /\ p.cur = pass.cur /\ p.ns = pass.ns /\ p.resources = pass.resources
    BY <1>1, <2>1, RefsAndObjects DEF PassRecord
  <2> HIDE DEF p
  <2>3. SameSight(pass, ApplyOf(p, Tail(pass.todo)))
    BY <2>1, <2>2, ApplyLooksOn DEF SameSight
  <2>. QED BY <1>1, <1>3, <1>6, <2>3, FailLooksOn DEF ApplyResource, Proceed, p
<1>7. CASE DeleteStale
  BY <1>1, <1>3, <1>7, SweepLooksOn DEF DeleteStale, Proceed
<1>8. CASE RecordReady \/ RecordFailure
  BY <1>2, <1>8 DEF RecordReady, RecordFailure
<1>9. CASE DeleteBinding
  <2>1. /\ pass'.cur = pass.cur /\ pass'.ns = pass.ns /\ pass'.resources = pass.resources
        /\ pass'.step = "removeFinalizer" /\ UNCHANGED nsHeld
    BY <1>1, <1>9 DEF DeleteBinding, Proceed, Goto, PassRecord
  <2>2. ~Reconciling
    BY <1>9 DEF DeleteBinding, Shape, PassShape
  <2>. QED BY <1>1, <2>1, <2>2, SightKept
<1>. QED BY <1>4, <1>5, <1>6, <1>7, <1>8, <1>9

\* Calls that fail and replies that are lost.
LEMMA FailureTrusted ==
  ASSUME Shape, FinalizerInv,
         CallFails \/ NamespaceReplyLost \/ BindingReplyLost \/ ApplyReplyLost \/ DeleteReplyLost
  PROVE  FinalizerInv'
<1>1. UNCHANGED class /\ pass \in PassRecord
  BY DEF CallFails, NamespaceReplyLost, BindingReplyLost, ApplyReplyLost, DeleteReplyLost, Fault,
         classVars, Shape, TypeOK
<1>2. CASE UNCHANGED nsStore /\ Return("retry")
  BY <1>1, <1>2, ReturnTrusted
<1>3. ASSUME NEW reason, Proceed(FailWith(reason)), UNCHANGED nsStore,
             pass.step \in {"prepare", "apply", "sweep", "delete"}
      PROVE  FinalizerInv'
  <2>1. SameSight(pass, pass') /\ UNCHANGED nsHeld
    BY <1>1, <1>3, FailLooksOn DEF Proceed
  <2>. QED BY <1>1, <1>3, <2>1, SightKept
<1>4. CASE CallFails \/ BindingReplyLost \/ ApplyReplyLost \/ DeleteReplyLost
  BY <1>2, <1>3, <1>4 DEF CallFails, BindingReplyLost, ApplyReplyLost, DeleteReplyLost, At
<1>5. CASE NamespaceReplyLost /\ At("removeFinalizer")
  BY <1>1, <1>5, RemovalStored DEF NamespaceReplyLost, At
<1>6. CASE NamespaceReplyLost /\ At("addFinalizer")
  <2> DEFINE v == [pass.ns EXCEPT !.finalizer = TRUE]
  <2>1. WriteNamespace(cur, v) /\ HoldsNamespace /\ pass' = Idle /\ nsHeld' = {}
    BY <1>6 DEF NamespaceReplyLost, At, Return
  <2> HIDE DEF v
  <2>2. /\ \A m \in Namespaces : namespace'[m] = Latest(nsCache'[m], nsEvents'[m])
        /\ \A m \in Namespaces : \A u \in Copies(m)' : Trusts(u)' => Guarded(m, u)'
    BY <1>1, <1>6, <2>1, AdditionStored DEF v
  <2>. QED BY <2>1, <2>2, IdleTrusted
<1>. QED BY <1>4, <1>5, <1>6 DEF NamespaceReplyLost

-----------------------------------------------------------------------------
\* As long as no class is created, no version of a namespace that is still to be
\* acted upon is wrong about the finalizer, nor is the one of the pass.
THEOREM FinalizerInvariant == ASSUME NoClassCreated PROVE Spec => []FinalizerInv
<1>1. Init => FinalizerInv
  <2> SUFFICES ASSUME Init PROVE FinalizerInv
    OBVIOUS
  <2>1. /\ pass = Idle /\ nsHeld = {} /\ namespace = [n \in Namespaces |-> Absent]
        /\ nsCache = namespace /\ nsEvents = [n \in Namespaces |-> << >>]
    BY DEF Init, ClusterInit
  <2>2. pass.step = "idle"
    BY <2>1 DEF Idle
  <2>3. \A n \in Namespaces : Copies(n) = {Absent} /\ namespace[n] = Latest(nsCache[n], nsEvents[n])
    BY <2>1, EmptySeq DEF Copies, Latest
  <2>. QED BY <2>1, <2>2, <2>3 DEF FinalizerInv, NamespaceTrails, FinalizerTrusted, Trusts, At
<1>2. Shape /\ FinalizerInv /\ [Next]_vars => FinalizerInv'
  <2> SUFFICES ASSUME Shape, FinalizerInv, [Next]_vars PROVE FinalizerInv'
    OBVIOUS
  <2>1. CASE ReadClass \/ AddFinalizer \/ RemoveFinalizer
    BY <2>1, ReadClassTrusted, AddFinalizerTrusted, RemoveFinalizerTrusted
  <2>2. CASE Lookup \/ RereadBinding \/ Prepare \/ CheckStale
    BY <2>2, ReadingTrusted
  <2>3. CASE \/ CreateBinding \/ UpdateBinding \/ ApplyResource \/ DeleteStale \/ RecordReady
             \/ RecordFailure \/ DeleteBinding
    BY <2>3, WritingTrusted
  <2>4. CASE \/ CallFails \/ NamespaceReplyLost \/ BindingReplyLost \/ ApplyReplyLost
             \/ DeleteReplyLost \/ Restart \/ Delivery
    BY <2>4, FailureTrusted, RestartTrusted, DeliveryTrusted
  <2>5. CASE \E n \in Namespaces : Start(n)
    BY <2>5, StartTrusted
  <2>6. CASE Environment /\ UNCHANGED <<workVars, budgetVars>>
    BY <2>6, NoClassCreated, EnvironmentTrusted
  <2>7. CASE UNCHANGED vars
    <3>1. UNCHANGED <<nsStore, nsHeld, pass, class>>
      BY <2>7 DEF vars, clusterVars, nsVars, classVars, workVars
    <3>. QED BY <3>1, NothingOfMatter
  <2>. QED BY <2>1, <2>2, <2>3, <2>4, <2>5, <2>6, <2>7 DEF Next, PassStep
<1>. QED BY <1>1, <1>2, ShapeInvariant, PTL DEF Spec

\* As long as no class is created while the controller runs, an object is created
\* for a namespace only while that very namespace exists with the finalizer,
\* whatever versions of it the informer is still to deliver.
THEOREM FinalizerComesFirst == ASSUME NoClassCreated PROVE Spec => FinalizerGuardsApply
<1> DEFINE Guards == \A o \in Objects : owner[o] = Absent /\ owner'[o] \in UIDs =>
                       Guarded(cur, pass.ns)
<1>1. Shape /\ FinalizerInv /\ [Next]_vars => [Guards]_vars
  <2> SUFFICES ASSUME Shape, FinalizerInv, Next PROVE Guards
    OBVIOUS
  <2>1. CASE At("apply")
    <3>1. Reconciling
      BY <2>1, WorkingPass DEF At
    <3>. QED BY <2>1, <3>1 DEF At, FinalizerInv, FinalizerTrusted
  <2>2. CASE UNCHANGED objectVars
    BY <2>2, SentinelAssumption DEF objectVars
  <2>3. CASE \/ ReadClass \/ AddFinalizer \/ Lookup \/ CreateBinding \/ UpdateBinding
             \/ RereadBinding \/ Prepare \/ CheckStale \/ RecordReady \/ RecordFailure
             \/ DeleteBinding \/ RemoveFinalizer \/ CallFails \/ NamespaceReplyLost
             \/ BindingReplyLost \/ Restart \/ Delivery \/ \E n \in Namespaces : Start(n)
    BY <2>2, <2>3 DEF NamespaceReplyLost, BindingReplyLost, ReadClass, AddFinalizer, Lookup, CreateBinding, UpdateBinding,
       RereadBinding, Prepare, CheckStale, RecordReady, RecordFailure, DeleteBinding,
       RemoveFinalizer, CallFails, Restart, Start, Delivery, DeliverNamespace, DeliverBinding,
       DeliverClass, Requeue, clusterVars
  <2>4. CASE ApplyResource \/ ApplyReplyLost
    BY <2>1, <2>4 DEF ApplyResource, ApplyReplyLost
  <2>5. CASE DeleteStale \/ DeleteReplyLost
    <3>1. pass.target \in Refs /\ owner \in [Objects -> UIDs \cup {Absent, Unowned}]
      BY <2>5, WorkingPass DEF DeleteStale, DeleteReplyLost, At, Shape, PassShape, TypeOK, ClusterTypeOK
    <3>2. owner' = [owner EXCEPT ![ObjectOf(pass.target)] = Absent]
      BY <2>5 DEF DeleteStale, DeleteReplyLost, SetObject
    <3>. QED BY <3>1, <3>2, SentinelAssumption
  <2>6. CASE Environment /\ UNCHANGED <<workVars, budgetVars>>
    BY <2>6, EnvironmentDisowns, SentinelAssumption
  <2>. QED BY <2>3, <2>4, <2>5, <2>6 DEF Next, PassStep
<1>2. [Guards]_vars => [\A o \in Objects :
                          owner[o] = Absent /\ owner'[o] \in UIDs =>
                            /\ namespace[cur] # Absent
                            /\ namespace[cur].uid = pass.ns.uid
                            /\ namespace[cur].finalizer]_vars
  BY DEF Guarded
<1>. QED BY <1>1, <1>2, FinalizerInvariant, NoClassCreated, ShapeInvariant, PTL
         DEF Spec, FinalizerGuardsApply
=============================================================================
