-------------------------- MODULE ReconcilerProofs --------------------------
(***************************************************************************)
(* Theorems about the reconciler, for all values of the constants.         *)
(*                                                                         *)
(* Part 1: TypeOK and the shape of a pass (what it has learned by the time *)
(* it is at a step) are invariant.  Part 2: so is IInv, which adds how the *)
(* informer's copies relate to the stored bindings and what a sweep has    *)
(* achieved so far.  Part 3: the action properties that follow.  Each part *)
(* has one lemma per action.                                               *)
(***************************************************************************)
EXTENDS ReconcilerProperties, SequenceTheorems, TLAPS

-----------------------------------------------------------------------------
(* Watch events: sequences appended to by writes, consumed by deliveries.  *)

\* After a write the newest pending event is the written value.
LEMMA LatestOfAppend ==
  ASSUME NEW S, NEW s \in Seq(S), NEW v \in S
  PROVE  Append(s, v) \in Seq(S) /\ \A c : Latest(c, Append(s, v)) = v
<1>1. /\ Append(s, v) \in Seq(S)
      /\ Len(Append(s, v)) = Len(s) + 1
      /\ Append(s, v)[Len(s) + 1] = v
  OBVIOUS
<1>2. Append(s, v) # << >>
  BY <1>1, EmptySeq
<1>. QED BY <1>1, <1>2 DEF Latest

\* A delivery does not change what the cache will end up with.
LEMMA LatestOfTail ==
  ASSUME NEW S, NEW s \in Seq(S), s # << >>, NEW c
  PROVE  /\ Head(s) \in S
         /\ Tail(s) \in Seq(S)
         /\ Latest(Head(s), Tail(s)) = Latest(c, s)
<1> DEFINE t == Tail(s)
           l == Len(s)
<1>1. /\ Head(s) \in S
      /\ Head(s) = s[1]
      /\ t \in Seq(S)
      /\ Len(t) = l - 1
      /\ \A i \in 1..Len(t) : t[i] = s[i + 1]
  BY HeadTailProperties
<1>2. l \in Nat \ {0}
  BY EmptySeq
<1>3. Latest(c, s) = s[l]
  BY DEF Latest
<1>4. /\ t = << >> => Len(t) = 0
      /\ t # << >> => Len(t) \in Nat \ {0}
  BY <1>1, EmptySeq
<1> HIDE DEF t, l
<1>5. CASE t = << >>
  <2>1. l = 1
    BY <1>1, <1>2, <1>4, <1>5
  <2>2. Latest(Head(s), t) = Head(s)
    BY <1>5 DEF Latest
  <2>. QED BY <1>1, <1>3, <2>1, <2>2 DEF t
<1>6. CASE t # << >>
  <2>1. Len(t) = l - 1 /\ Len(t) \in 1..Len(t)
    BY <1>1, <1>2, <1>4, <1>6
  <2>2. t[Len(t)] = s[l]
    BY <1>1, <1>2, <2>1
  <2>3. Latest(Head(s), t) = t[Len(t)]
    BY <1>6 DEF Latest
  <2>. QED BY <1>1, <1>3, <2>2, <2>3 DEF t
<1>. QED BY <1>5, <1>6

\* Every rendering of a template has a reference, and that an object.
LEMMA RefsAndObjects ==
  /\ \A t \in Templates, n \in Namespaces : RefOf(t, n) \in Refs
  /\ \A r \in Refs : ObjectOf(r) \in Objects
BY DEF Refs, Objects

\* What part 1 proves.
Shape == TypeOK /\ PassShape

\* What a sweep sets in the pass and what it keeps.
LEMMA SweepOfShape ==
  ASSUME NEW p \in PassRecord, NEW s \in SUBSET Refs
  PROVE  /\ SweepOf(p, s) \in PassRecord
         /\ SweepOf(p, s).cur = p.cur
         /\ SweepOf(p, s).ns = p.ns
         /\ SweepOf(p, s).resources = p.resources
         /\ SweepOf(p, s).binding = p.binding
         /\ SweepOf(p, s).applied = p.applied
         /\ SweepOf(p, s).stale = s
         /\ SweepOf(p, s).step = IF s = {} THEN AfterSweep ELSE "sweep"
<1>1. (IF s = {} THEN AfterSweep ELSE "sweep") \in Steps
  BY DEF AfterSweep, Steps
<1>. QED BY <1>1 DEF SweepOf, PassRecord

\* Part 1 initially.
LEMMA InitShape == Init => Shape
<1> SUFFICES ASSUME Init PROVE Shape
  OBVIOUS
<1>1. ClusterTypeOK
  BY SentinelAssumption, DataAssumption, EmptySeq DEF Init, ClusterInit, ClusterTypeOK
<1>2. pass \in PassRecord
  BY EmptySeq DEF Init, Idle, PassRecord, Steps
<1>. QED BY <1>1, <1>2 DEF Init, Shape, TypeOK, PassShape, At, cur, Idle, BindingSteps

\* A write to a namespace keeps the types of the store and of the cache.
LEMMA WriteNamespaceTypes ==
  ASSUME Shape, NEW n \in Namespaces, NEW v \in NamespaceObject \cup {Absent},
         WriteNamespace(n, v)
  PROVE  /\ namespace' \in [Namespaces -> NamespaceObject \cup {Absent}]
         /\ nsCache' \in [Namespaces -> NamespaceObject \cup {Absent}]
         /\ nsEvents' \in [Namespaces -> Seq(NamespaceObject \cup {Absent})]
<1>1. Append(nsEvents[n], v) \in Seq(NamespaceObject \cup {Absent})
  BY LatestOfAppend DEF Shape, TypeOK, ClusterTypeOK
<1>. QED BY <1>1 DEF WriteNamespace, Shape, TypeOK, ClusterTypeOK

\* Users and Kubernetes keep the types and do not touch the pass.
LEMMA EnvironmentShape == Shape /\ Environment /\ UNCHANGED <<workVars, budgetVars>> => Shape'
<1> SUFFICES ASSUME Shape, Environment, UNCHANGED <<workVars, budgetVars>>
             PROVE  ClusterTypeOK'
  BY DEF Shape, workVars, budgetVars, TypeOK, PassShape, At, cur, Deleting, Unlabelled,
         Reconciling
<1> USE DEF Shape, TypeOK
<1>1. ASSUME NEW n \in Namespaces, NEW l \in Classes \cup {NoLabel}, CreateNamespace(n, l)
      PROVE  ClusterTypeOK'
  <2>1. [uid |-> uid + 1, label |-> l, deleting |-> FALSE, finalizer |-> FALSE] \in NamespaceObject
    BY <1>1, DataAssumption DEF CreateNamespace, NamespaceObject, UIDs, ClusterTypeOK
  <2>. QED BY <1>1, <2>1, WriteNamespaceTypes, DataAssumption
       DEF CreateNamespace, ClusterTypeOK, bindingVars, bindingStore, classVars, objectVars
<1>2. ASSUME NEW n \in Namespaces, NEW v \in NamespaceObject, EditNamespace(n, v),
             edits' \in Nat
      PROVE  ClusterTypeOK'
  BY <1>2, WriteNamespaceTypes
     DEF EditNamespace, ClusterTypeOK, bindingVars, bindingStore, classVars, objectVars
<1>3. ASSUME NEW n \in Namespaces, NEW l \in Classes \cup {NoLabel}, Relabel(n, l)
      PROVE  ClusterTypeOK'
  <2>1. namespace[n] \in NamespaceObject
    BY <1>3 DEF Relabel, ClusterTypeOK
  <2>2. [namespace[n] EXCEPT !.label = l] \in NamespaceObject
    BY <2>1 DEF NamespaceObject
  <2>3. edits' \in Nat
    BY <1>3 DEF Relabel, Edit, ClusterTypeOK
  <2>. QED BY <1>2, <1>3, <2>2, <2>3 DEF Relabel
<1>4. ASSUME NEW n \in Namespaces, DeleteNamespace(n)
      PROVE  ClusterTypeOK'
  <2>1. namespace[n] \in NamespaceObject
    BY <1>4 DEF DeleteNamespace, ClusterTypeOK
  <2>2. [namespace[n] EXCEPT !.deleting = TRUE] \in NamespaceObject
    BY <2>1 DEF NamespaceObject
  <2>3. edits' \in Nat
    BY <1>4 DEF DeleteNamespace, Edit, ClusterTypeOK
  <2>. QED BY <1>2, <1>4, <2>2, <2>3 DEF DeleteNamespace
<1>5. ASSUME NEW n \in Namespaces, FinishDeletion(n)
      PROVE  ClusterTypeOK'
  BY <1>5, WriteNamespaceTypes
     DEF FinishDeletion, ClusterTypeOK, bindingVars, bindingStore, classVars, objectVars
<1>6. ASSUME NEW n \in Namespaces, DeleteBindingByHand(n)
      PROVE  ClusterTypeOK'
  <2>1. bindingEvents[n] \in Seq(BindingObject \cup {Absent})
    BY DEF ClusterTypeOK
  <2>2. Append(bindingEvents[n], Absent) \in Seq(BindingObject \cup {Absent})
    BY <2>1, LatestOfAppend
  <2>3. /\ binding' = [binding EXCEPT ![n] = Absent]
        /\ bindingEvents' = [bindingEvents EXCEPT ![n] = Append(bindingEvents[n], Absent)]
        /\ bindingCache' = bindingCache
    BY <1>6 DEF DeleteBindingByHand, WriteBinding
  <2>. QED BY <1>6, <2>2, <2>3
     DEF DeleteBindingByHand, Edit, ClusterTypeOK, nsVars, nsStore, classVars, objectVars
<1>7. ASSUME NEW c \in Classes, NEW s \in ResourceLists \cup {Absent}, SetClass(c, s)
      PROVE  ClusterTypeOK'
  BY <1>7 DEF SetClass, Edit, ClusterTypeOK, nsVars, nsStore, bindingVars, bindingStore, objectVars
<1>8. ASSUME NEW o \in Objects, NEW who \in UIDs \cup {Absent, Unowned},
             NEW what \in Bodies \cup {Blank, Drifted},
             EditObject(o, who, what), edits' \in Nat
      PROVE  ClusterTypeOK'
  BY <1>8 DEF EditObject, SetObject, ClusterTypeOK, nsVars, nsStore, bindingVars, bindingStore, classVars
<1>9. ASSUME NEW o \in Objects, CollectObject(o)
      PROVE  ClusterTypeOK'
  BY <1>9 DEF CollectObject, SetObject, ClusterTypeOK, nsVars, nsStore, bindingVars, bindingStore, classVars
<1>10. ASSUME NEW o \in Objects, NEW what \in {Blank, Drifted}, CreateObject(o, what)
       PROVE  ClusterTypeOK'
  <2>1. edits' \in Nat
    BY <1>10 DEF CreateObject, Edit, ClusterTypeOK
  <2>. QED BY <1>8, <1>10, <2>1 DEF CreateObject
<1>11. ASSUME NEW o \in Objects, DeleteObject(o) \/ StripMarkers(o) \/ DriftObject(o)
       PROVE  ClusterTypeOK'
  <2>1. /\ edits' \in Nat
        /\ owner[o] \in UIDs \cup {Absent, Unowned}
        /\ content[o] \in Bodies \cup {Blank, Drifted}
    BY <1>11 DEF DeleteObject, StripMarkers, DriftObject, Edit, ClusterTypeOK
  <2>. QED BY <1>8, <1>11, <2>1 DEF DeleteObject, StripMarkers, DriftObject
<1>. QED BY <1>1, <1>3, <1>4, <1>5, <1>6, <1>7, <1>9, <1>10, <1>11 DEF Environment

\* A write to a binding stores it and keeps the types.
LEMMA WriteBindingTypes ==
  ASSUME Shape, NEW n \in Namespaces, NEW v \in BindingObject \cup {Absent}, WriteBinding(n, v)
  PROVE  /\ binding' = [binding EXCEPT ![n] = v]
         /\ binding' \in [Namespaces -> BindingObject \cup {Absent}]
         /\ bindingCache' \in [Namespaces -> BindingObject \cup {Absent}]
         /\ bindingEvents' \in [Namespaces -> Seq(BindingObject \cup {Absent})]
<1>0. /\ binding \in [Namespaces -> BindingObject \cup {Absent}]
      /\ bindingCache \in [Namespaces -> BindingObject \cup {Absent}]
      /\ bindingEvents \in [Namespaces -> Seq(BindingObject \cup {Absent})]
  BY DEF Shape, TypeOK, ClusterTypeOK
<1>1. Append(bindingEvents[n], v) \in Seq(BindingObject \cup {Absent})
  BY <1>0, LatestOfAppend
<1>2. CASE v = binding[n]
  BY <1>0, <1>2 DEF WriteBinding
<1>3. CASE v # binding[n]
  BY <1>0, <1>1, <1>3 DEF WriteBinding
<1>. QED BY <1>2, <1>3

\* Watch events and timers keep the types and do not touch the pass.
LEMMA DeliveryShape == Shape /\ Delivery => Shape'
<1> SUFFICES ASSUME Shape, Delivery PROVE Shape'
  OBVIOUS
<1> USE DEF Shape
<1>1. ASSUME pass' = pass, faults' = faults, crashes' = crashes, ClusterTypeOK',
             queue' \subseteq Namespaces, timers' \subseteq Namespaces
      PROVE  Shape'
  BY <1>1 DEF TypeOK, PassShape, At, cur, Deleting, Unlabelled, Reconciling
<1>2. ASSUME NEW n \in Namespaces, DeliverNamespace(n) PROVE Shape'
  <2>1. nsEvents[n] \in Seq(NamespaceObject \cup {Absent}) /\ nsEvents[n] # << >>
    BY <1>2 DEF DeliverNamespace, TypeOK, ClusterTypeOK
  <2>2. /\ Head(nsEvents[n]) \in NamespaceObject \cup {Absent}
        /\ Tail(nsEvents[n]) \in Seq(NamespaceObject \cup {Absent})
    BY <2>1, LatestOfTail
  <2>3. ClusterTypeOK' /\ queue' \subseteq Namespaces
    BY <1>2, <2>2
       DEF DeliverNamespace, TypeOK, ClusterTypeOK, bindingVars, bindingStore, classVars, objectVars
  <2>. QED BY <1>1, <1>2, <2>3 DEF DeliverNamespace, TypeOK, budgetVars
<1>3. ASSUME NEW n \in Namespaces, DeliverBinding(n) PROVE Shape'
  <2>1. bindingEvents[n] \in Seq(BindingObject \cup {Absent}) /\ bindingEvents[n] # << >>
    BY <1>3 DEF DeliverBinding, TypeOK, ClusterTypeOK
  <2>2. /\ Head(bindingEvents[n]) \in BindingObject \cup {Absent}
        /\ Tail(bindingEvents[n]) \in Seq(BindingObject \cup {Absent})
    BY <2>1, LatestOfTail
  <2>3. ClusterTypeOK' /\ queue' \subseteq Namespaces
    BY <1>3, <2>2
       DEF DeliverBinding, TypeOK, ClusterTypeOK, nsVars, nsStore, classVars, objectVars
  <2>. QED BY <1>1, <1>3, <2>3 DEF DeliverBinding, TypeOK, budgetVars
<1>4. ASSUME NEW n \in Namespaces, Requeue(n) PROVE Shape'
  <2>1. ClusterTypeOK' /\ queue' \subseteq Namespaces /\ timers' \subseteq Namespaces
    BY <1>4 DEF Requeue, TypeOK, ClusterTypeOK, clusterVars, nsVars, nsStore, bindingVars,
                bindingStore, classVars, objectVars
  <2>. QED BY <1>1, <1>4, <2>1 DEF Requeue, budgetVars
<1>5. ASSUME NEW c \in Classes, DeliverClass(c) PROVE Shape'
  <2>1. classEvents[c] - 1 \in Nat
    BY <1>5 DEF DeliverClass, TypeOK, ClusterTypeOK
  <2>2. ClusterTypeOK' /\ queue' \subseteq Namespaces
    BY <1>5, <2>1 DEF DeliverClass, RequestsForNamespaceClass, TypeOK, ClusterTypeOK, nsVars,
                      nsStore, bindingVars, bindingStore, objectVars
  <2>. QED BY <1>1, <1>5, <2>2 DEF DeliverClass, TypeOK, budgetVars
<1>. QED BY <1>2, <1>3, <1>4, <1>5 DEF Delivery

\* A restarted controller is idle.
LEMMA RestartShape == Shape /\ Restart => Shape'
<1> SUFFICES ASSUME Shape, Restart PROVE Shape'
  OBVIOUS
<1>1. pass' \in PassRecord
  BY EmptySeq DEF Restart, Idle, PassRecord, Steps
<1>2. PassShape'
  BY DEF Restart, Idle, PassShape, At, cur, BindingSteps
<1>3. TypeOK'
  BY <1>1, EmptySeq DEF Shape, Restart, TypeOK, ClusterTypeOK, objectVars
<1>. QED BY <1>2, <1>3 DEF Shape

\* A pass that returns is idle and holds no copy any more.
LEMMA ReturnShape ==
  ASSUME Shape, cur \in Namespaces, NEW result, Return(result)
  PROVE  /\ pass' \in PassRecord
         /\ PassShape'
         /\ timers' \subseteq Namespaces
         /\ nsHeld' = {}
         /\ bindingHeld' = {}
<1>1. pass' \in PassRecord
  BY EmptySeq DEF Return, Idle, PassRecord, Steps
<1>2. PassShape'
  BY DEF Return, Idle, PassShape, At, cur, BindingSteps
<1>. QED BY <1>1, <1>2 DEF Return, Shape, TypeOK

\* A sweep, or what follows it when nothing is left to sweep.
LEMMA SweepShape ==
  ASSUME NEW p \in PassRecord, NEW s \in SUBSET Refs, pass' = SweepOf(p, s),
         p.cur = cur, p.ns = pass.ns, p.resources = pass.resources,
         p.cur \in Namespaces, p.ns # Absent, p.binding # Absent,
         p.applied # {} => Reconciling
  PROVE  pass' \in PassRecord /\ PassShape'
<1>1. CASE s = {}
  <2>1. pass'.step = AfterSweep
    BY <1>1, SweepOfShape
  <2>2. /\ pass'.step = "recordReady" => Reconciling
        /\ pass'.step = "deleteBinding" => ~Reconciling
        /\ pass'.step \in {"recordReady", "deleteBinding"}
        /\ Reconciling => pass'.step = "recordReady"
    BY <2>1 DEF AfterSweep
  <2>. QED BY <1>1, <2>2, SweepOfShape
       DEF PassShape, At, cur, Deleting, Unlabelled, Reconciling, BindingSteps
<1>2. CASE s # {}
  BY <1>2, SweepOfShape DEF PassShape, At, cur, Deleting, Unlabelled, Reconciling, BindingSteps
<1>. QED BY <1>1, <1>2

\* A failure about to be recorded.
LEMMA FailShape ==
  ASSUME Shape, pass.step \in {"prepare", "apply", "sweep", "delete"},
         NEW reason \in Reasons, pass' = FailWith(reason)
  PROVE  pass' \in PassRecord /\ PassShape'
<1>1. pass' \in PassRecord
  BY DEF Shape, TypeOK, FailWith, PassRecord, Steps
<1>2. /\ pass'.step = "recordFailure"
      /\ pass'.cur = pass.cur /\ pass'.ns = pass.ns /\ pass'.resources = pass.resources
      /\ pass'.binding = pass.binding /\ pass'.applied = pass.applied
  BY DEF Shape, TypeOK, FailWith, PassRecord
<1>. QED BY <1>1, <1>2
     DEF Shape, PassShape, At, cur, Deleting, Unlabelled, Reconciling, BindingSteps

\* The next resource to apply, or the sweep after the last one.
LEMMA ApplyShape ==
  ASSUME NEW p \in PassRecord, NEW todo \in Seq(Templates), pass' = ApplyOf(p, todo),
         p.cur = cur, p.ns = pass.ns, p.resources = pass.resources,
         p.cur \in Namespaces, p.ns # Absent, p.binding # Absent, Reconciling
  PROVE  pass' \in PassRecord /\ PassShape'
<1> DEFINE q == [p EXCEPT !.todo = todo]
<1>1. q \in PassRecord
  BY DEF PassRecord
<1>2. /\ q.cur = p.cur /\ q.ns = p.ns /\ q.resources = p.resources
      /\ q.binding = p.binding /\ q.applied = p.applied
  BY DEF PassRecord
<1>3. p.binding.inventory \ p.applied \in SUBSET Refs
  BY DEF PassRecord, BindingObject
<1>4. CASE todo = << >>
  <2>1. pass' = SweepOf(q, p.binding.inventory \ p.applied)
    BY <1>4 DEF ApplyOf
  <2> HIDE DEF q
  <2>. QED BY <1>1, <1>2, <1>3, <2>1, SweepShape
<1>5. CASE todo # << >>
  <2>1. pass' = [p EXCEPT !.todo = todo, !.step = "apply"]
    BY <1>5 DEF ApplyOf
  <2>2. pass' \in PassRecord
    BY <2>1 DEF PassRecord, Steps
  <2>3. /\ pass'.step = "apply" /\ pass'.todo = todo /\ pass'.cur = p.cur /\ pass'.ns = p.ns
        /\ pass'.resources = p.resources /\ pass'.binding = p.binding
    BY <2>1 DEF PassRecord
  <2>. QED BY <1>5, <2>2, <2>3
       DEF PassShape, At, cur, Deleting, Unlabelled, Reconciling, BindingSteps
<1>. QED BY <1>4, <1>5

\* The next resource to prepare, or what follows the last one.
LEMMA PrepareOfShape ==
  ASSUME NEW p \in PassRecord, NEW prepared \in Seq(Templates), pass' = PrepareOf(p, prepared),
         p.cur = cur, p.ns = pass.ns, p.resources = pass.resources,
         p.cur \in Namespaces, p.ns # Absent, p.binding # Absent, p.applied = {}, Reconciling,
         p.resources \in Seq(Templates), Len(prepared) \leq Len(p.resources)
  PROVE  pass' \in PassRecord /\ PassShape'
<1>1. CASE Len(prepared) = Len(p.resources)
  BY <1>1, ApplyShape DEF PrepareOf
<1>2. CASE Len(prepared) # Len(p.resources)
  <2>1. pass' = [p EXCEPT !.todo = prepared, !.step = "prepare"]
    BY <1>2 DEF PrepareOf
  <2>2. pass' \in PassRecord
    BY <2>1 DEF PassRecord, Steps
  <2>3. /\ pass'.step = "prepare" /\ pass'.cur = p.cur /\ pass'.ns = p.ns
        /\ pass'.resources = p.resources /\ pass'.binding = p.binding
        /\ pass'.applied = p.applied /\ pass'.todo = prepared
    BY <2>1 DEF PassRecord
  <2>4. Len(prepared) \in Nat /\ Len(p.resources) \in Nat
    BY LenProperties
  <2>. QED BY <1>2, <2>2, <2>3, <2>4
       DEF PassShape, At, cur, Deleting, Unlabelled, Reconciling, BindingSteps
<1>. QED BY <1>1, <1>2

\* What follows once the binding has been read.
LEMMA WithBindingShape ==
  ASSUME NEW p \in PassRecord, pass' = WithBinding(p),
         p.cur = cur, p.ns = pass.ns, p.resources = pass.resources,
         p.cur \in Namespaces, p.ns # Absent, p.binding # Absent, p.applied = {},
         ~Deleting, pass.ns.label # NoLabel
  PROVE  pass' \in PassRecord /\ PassShape'
<1>1. CASE ClassMissing
  <2>1. pass' = SweepOf(p, p.binding.inventory) /\ p.binding.inventory \in SUBSET Refs
    BY <1>1 DEF WithBinding, PassRecord, BindingObject
  <2>. QED BY <2>1, SweepShape
<1>2. CASE ~ClassMissing
  <2>1. pass' = PrepareOf(p, << >>)
    BY <1>2 DEF WithBinding
  <2>2. Reconciling /\ p.resources \in Seq(Templates)
    BY <1>2, DataAssumption DEF PassRecord, Reconciling, ClassMissing, Unlabelled
  <2>3. << >> \in Seq(Templates) /\ Len(<< >>) = 0 /\ Len(p.resources) \in Nat
    BY <2>2, EmptySeq, LenProperties
  <2>4. Len(<< >>) \leq Len(p.resources)
    BY <2>3
  <2>. QED BY <2>1, <2>2, <2>3, <2>4, PrepareOfShape
<1>. QED BY <1>1, <1>2

\* Start keeps the types and the shape of the pass.
LEMMA StartShape == ASSUME Shape, NEW n \in Namespaces, Start(n) PROVE Shape'
<1>1. CASE nsCache[n] = Absent \/ (nsCache[n].deleting /\ ~nsCache[n].finalizer)
  BY <1>1 DEF Start, Shape, TypeOK, ClusterTypeOK, PassShape, At, cur, Deleting, Unlabelled,
     Reconciling, nsStore, bindingVars, bindingStore, classVars, objectVars, budgetVars
<1>2. CASE ~(nsCache[n] = Absent \/ (nsCache[n].deleting /\ ~nsCache[n].finalizer))
  <2> DEFINE ns == nsCache[n]
             next == IF ns.deleting \/ ns.label = NoLabel THEN "lookup" ELSE "readClass"
  <2>1. /\ pass' = [Idle EXCEPT !.cur = n, !.ns = ns, !.step = next]
        /\ nsHeld' = IF nsEvents[n] = << >> THEN {n} ELSE {}
    BY <1>2 DEF Start
  <2>2. ns \in NamespaceObject
    BY <1>2 DEF Shape, TypeOK, ClusterTypeOK
  <2>3. pass' \in PassRecord
    BY <2>1, <2>2, EmptySeq DEF Idle, PassRecord, Steps
  <2>4. /\ pass'.step = next /\ pass'.cur = n /\ pass'.ns = ns /\ pass'.applied = {}
    BY <2>1 DEF Idle
  <2>5. PassShape'
    BY <1>2, <2>2, <2>4 DEF PassShape, At, cur, Deleting, BindingSteps
  <2>. QED BY <2>1, <2>3, <2>5 DEF Start, Shape, TypeOK, ClusterTypeOK,
     nsStore, bindingVars, bindingStore, classVars, objectVars, budgetVars
<1>. QED BY <1>1, <1>2

\* ReadClass keeps the types and the shape of the pass.
LEMMA ReadClassShape == ASSUME Shape, ReadClass PROVE Shape'
<1> DEFINE found == class[pass.ns.label]
<1>1. /\ pass.ns \in NamespaceObject /\ pass.ns.label \in Classes
      /\ cur \in Namespaces /\ ~Deleting /\ pass.applied = {}
  BY DEF Shape, TypeOK, PassRecord, NamespaceObject, PassShape, ReadClass, At, cur
<1>2. found \in ResourceLists \cup {Absent}
  BY <1>1 DEF Shape, TypeOK, ClusterTypeOK
<1>3. pass' = [pass EXCEPT !.resources = found, !.step = AfterReadClass(found)]
  BY DEF ReadClass, Proceed
<1>4. AfterReadClass(found) \in {"lookup", "addFinalizer"}
  BY DEF AfterReadClass
<1> HIDE DEF found
<1>5. pass' \in PassRecord
  BY <1>2, <1>3, <1>4 DEF Shape, TypeOK, PassRecord, Steps
<1>6. /\ pass'.step \in {"lookup", "addFinalizer"} /\ pass'.cur = pass.cur
      /\ pass'.ns = pass.ns /\ pass'.applied = pass.applied
  BY <1>3, <1>4 DEF Shape, TypeOK, PassRecord
<1>7. PassShape'
  BY <1>1, <1>6, SentinelAssumption DEF PassShape, At, cur, Deleting, BindingSteps
<1>. QED BY <1>5, <1>7 DEF ReadClass, Proceed, Shape, TypeOK, ClusterTypeOK,
         nsStore, bindingStore, classVars, objectVars, budgetVars

\* AddFinalizer keeps the types and the shape of the pass.
LEMMA AddFinalizerShape == ASSUME Shape, AddFinalizer PROVE Shape'
<1>1. /\ pass.ns \in NamespaceObject /\ cur \in Namespaces /\ ~Deleting /\ pass.applied = {}
      /\ pass.ns.label # NoLabel
  BY DEF Shape, TypeOK, PassRecord, PassShape, AddFinalizer, At, cur
<1>2. CASE HoldsNamespace /\ At("addFinalizer") /\ ~(UNCHANGED nsStore /\ Return("retry"))
  <2> DEFINE ns == [pass.ns EXCEPT !.finalizer = TRUE]
  <2>1. /\ WriteNamespace(cur, ns)
        /\ pass' = [pass EXCEPT !.ns = ns, !.step = "lookup"]
        /\ UNCHANGED <<timers, nsHeld, bindingHeld>>
    BY <1>2 DEF AddFinalizer, Proceed
  <2>2. /\ ns \in NamespaceObject /\ ns.deleting = pass.ns.deleting /\ ns.label = pass.ns.label
    BY <1>1 DEF NamespaceObject
  <2> HIDE DEF ns
  <2>3. pass' \in PassRecord
    BY <2>1, <2>2 DEF Shape, TypeOK, PassRecord, Steps
  <2>4. pass'.step = "lookup" /\ pass'.cur = pass.cur /\ pass'.ns = ns /\ pass'.applied = {}
    BY <1>1, <2>1 DEF Shape, TypeOK, PassRecord
  <2>5. PassShape'
    BY <1>1, <2>2, <2>4, SentinelAssumption DEF PassShape, At, cur, Deleting, BindingSteps
  <2>. QED BY <1>1, <2>1, <2>2, <2>3, <2>5, WriteNamespaceTypes
       DEF AddFinalizer, Shape, TypeOK, ClusterTypeOK,
           bindingStore, classVars, objectVars, budgetVars
<1>3. CASE UNCHANGED nsStore /\ Return("retry")
  BY <1>1, <1>3, ReturnShape DEF AddFinalizer, Shape, TypeOK, ClusterTypeOK,
     nsStore, bindingStore, classVars, objectVars, budgetVars
<1>. QED BY <1>2, <1>3 DEF AddFinalizer

\* A step that leaves the cluster's stores alone, apart from managed objects.
LEMMA StepShape ==
  ASSUME Shape, pass' \in PassRecord, PassShape', timers' \subseteq Namespaces,
         nsHeld' \subseteq Namespaces, bindingHeld' \subseteq Namespaces,
         owner' \in [Objects -> UIDs \cup {Absent, Unowned}],
         content' \in [Objects -> Bodies \cup {Blank, Drifted}],
         UNCHANGED <<nsStore, bindingStore, classVars, uid, edits, queue>>,
         faults' \in Nat, crashes' \in Nat
  PROVE  Shape'
BY DEF Shape, TypeOK, ClusterTypeOK, nsStore, bindingStore, classVars

\* Lookup keeps the types and the shape of the pass.
LEMMA LookupShape == ASSUME Shape, Lookup PROVE Shape'
<1> DEFINE found == bindingCache[cur]
           held == [pass EXCEPT !.binding = found]
<1>1. /\ pass \in PassRecord /\ cur \in Namespaces /\ pass.ns # Absent
      /\ pass.applied = {}
      /\ found \in BindingObject \cup {Absent}
  BY DEF Shape, TypeOK, ClusterTypeOK, PassShape, Lookup, At
<1>2. CASE found = Absent
  <2> DEFINE next == IF Deleting \/ Unlabelled THEN "removeFinalizer" ELSE "create"
  <2>1. pass' = [pass EXCEPT !.step = next] /\ UNCHANGED <<timers, nsHeld, bindingHeld>>
    BY <1>2 DEF Lookup, Proceed, Goto
  <2>2. pass' \in PassRecord
    BY <1>1, <2>1 DEF PassRecord, Steps
  <2>3. /\ pass'.step = next /\ pass'.cur = pass.cur /\ pass'.ns = pass.ns
        /\ pass'.applied = {}
    BY <1>1, <2>1 DEF PassRecord
  <2>4. PassShape'
    BY <1>1, <2>3 DEF PassShape, At, cur, Deleting, Unlabelled, BindingSteps
  <2>. QED BY <2>1, <2>2, <2>4, StepShape
       DEF Lookup, Shape, TypeOK, ClusterTypeOK, objectVars, budgetVars
<1>3. CASE found # Absent
  <2>1. /\ held \in PassRecord /\ found \in BindingObject
        /\ held.cur = pass.cur /\ held.ns = pass.ns /\ held.resources = pass.resources
        /\ held.binding = found /\ held.applied = {}
    BY <1>1, <1>3 DEF PassRecord
  <2>2. /\ found.inventory \in SUBSET Refs
        /\ ClusterScoped(found.inventory) \in SUBSET Refs
    BY <2>1 DEF BindingObject, ClusterScoped
  <2>3. /\ bindingHeld' \subseteq Namespaces
        /\ UNCHANGED <<timers, nsHeld>>
        /\ pass' = IF Deleting THEN SweepOf(held, ClusterScoped(found.inventory))
                   ELSE IF Unlabelled THEN SweepOf(held, found.inventory)
                   ELSE IF found.class # pass.ns.label THEN [held EXCEPT !.step = "update"]
                   ELSE WithBinding(held)
    BY <1>1, <1>3 DEF Lookup, TakeCachedBinding
  <2> HIDE DEF found, held
  <2>4. pass' \in PassRecord /\ PassShape'
    <3>1. CASE Deleting
      BY <1>1, <1>3, <2>1, <2>2, <2>3, <3>1, SweepShape DEF cur
    <3>2. CASE Unlabelled
      BY <1>1, <1>3, <2>1, <2>2, <2>3, <3>2, SweepShape DEF cur, Unlabelled
    <3>3. CASE ~Deleting /\ ~Unlabelled /\ found.class # pass.ns.label
      <4>1. pass' = [held EXCEPT !.step = "update"]
        BY <2>3, <3>3
      <4>2. pass' \in PassRecord
        BY <2>1, <4>1 DEF PassRecord, Steps
      <4>3. /\ pass'.step = "update" /\ pass'.cur = pass.cur /\ pass'.ns = pass.ns
            /\ pass'.binding = found /\ pass'.applied = {}
        BY <2>1, <4>1 DEF PassRecord
      <4>. QED BY <1>1, <1>3, <3>3, <4>2, <4>3
           DEF PassShape, At, cur, Deleting, Unlabelled, BindingSteps
    <3>4. CASE ~Deleting /\ ~Unlabelled /\ found.class = pass.ns.label
      <4>1. pass' = WithBinding(held) /\ pass.ns.label # NoLabel
        BY <2>3, <3>4 DEF Unlabelled
      <4>. QED BY <1>1, <1>3, <2>1, <3>4, <4>1, WithBindingShape DEF cur
    <3>. QED BY <3>1, <3>2, <3>3, <3>4
  <2>. QED BY <2>3, <2>4, StepShape
       DEF Lookup, Shape, TypeOK, ClusterTypeOK, objectVars, budgetVars
<1>. QED BY <1>2, <1>3

\* CreateBinding keeps the types and the shape of the pass.
LEMMA CreateBindingShape == ASSUME Shape, CreateBinding PROVE Shape'
<1>1. /\ pass \in PassRecord /\ cur \in Namespaces /\ pass.ns # Absent
      /\ pass.applied = {} /\ ~Deleting /\ pass.ns.label # NoLabel
  BY DEF Shape, TypeOK, PassShape, CreateBinding, At
<1>2. CASE WriteBinding(cur, NewBinding) /\ Proceed(Goto("reread"))
  <2>1. NewBinding \in BindingObject
    BY <1>1 DEF NewBinding, PassRecord, NamespaceObject, BindingObject, Reasons
  <2>2. pass' = [pass EXCEPT !.step = "reread"] /\ UNCHANGED <<timers, nsHeld, bindingHeld>>
    BY <1>2 DEF Proceed, Goto
  <2>3. pass' \in PassRecord
    BY <1>1, <2>2 DEF PassRecord, Steps
  <2>4. pass'.step = "reread" /\ pass'.cur = pass.cur /\ pass'.ns = pass.ns /\ pass'.applied = {}
    BY <1>1, <2>2 DEF PassRecord
  <2>5. PassShape'
    BY <1>1, <2>4 DEF PassShape, At, cur, Deleting, BindingSteps
  <2>. QED BY <1>1, <1>2, <2>1, <2>2, <2>3, <2>5, WriteBindingTypes
       DEF CreateBinding, Shape, TypeOK, ClusterTypeOK, nsStore, classVars, objectVars, budgetVars
<1>3. CASE UNCHANGED bindingStore /\ Return("retry")
  BY <1>1, <1>3, ReturnShape, StepShape
     DEF CreateBinding, Shape, TypeOK, ClusterTypeOK, objectVars, budgetVars
<1>. QED BY <1>2, <1>3 DEF CreateBinding

\* UpdateBinding keeps the types and the shape of the pass.
LEMMA UpdateBindingShape == ASSUME Shape, UpdateBinding PROVE Shape'
<1>1. /\ pass \in PassRecord /\ cur \in Namespaces /\ pass.ns # Absent
      /\ pass.applied = {} /\ ~Deleting /\ pass.ns.label # NoLabel /\ pass.binding # Absent
  BY DEF Shape, TypeOK, PassShape, UpdateBinding, At, BindingSteps
<1> DEFINE switched == [pass.binding EXCEPT !.class = pass.ns.label]
<1>2. CASE /\ WriteBinding(cur, switched)
           /\ Proceed([pass EXCEPT !.binding = switched, !.step = "reread"])
  <2>1. switched \in BindingObject
    BY <1>1 DEF PassRecord, NamespaceObject, BindingObject
  <2>2. /\ pass' = [pass EXCEPT !.binding = switched, !.step = "reread"]
        /\ UNCHANGED <<timers, nsHeld, bindingHeld>>
    BY <1>2 DEF Proceed
  <2>3. WriteBinding(cur, switched)
    BY <1>2
  <2> HIDE DEF switched
  <2>4. pass' \in PassRecord
    BY <1>1, <2>1, <2>2 DEF PassRecord, Steps
  <2>5. pass'.step = "reread" /\ pass'.cur = pass.cur /\ pass'.ns = pass.ns /\ pass'.applied = {}
    BY <1>1, <2>2 DEF PassRecord
  <2>6. PassShape'
    BY <1>1, <2>5 DEF PassShape, At, cur, Deleting, BindingSteps
  <2>. QED BY <1>1, <2>1, <2>2, <2>3, <2>4, <2>6, WriteBindingTypes
       DEF UpdateBinding, Shape, TypeOK, ClusterTypeOK, nsStore, classVars, objectVars, budgetVars
<1>3. CASE UNCHANGED bindingStore /\ Return("retry")
  BY <1>1, <1>3, ReturnShape, StepShape
     DEF UpdateBinding, Shape, TypeOK, ClusterTypeOK, objectVars, budgetVars
<1>. QED BY <1>2, <1>3 DEF UpdateBinding

\* RereadBinding keeps the types and the shape of the pass.
LEMMA RereadBindingShape == ASSUME Shape, RereadBinding PROVE Shape'
<1> DEFINE found == bindingCache[cur]
           held == [pass EXCEPT !.binding = found]
<1>1. /\ pass \in PassRecord /\ cur \in Namespaces /\ pass.ns # Absent
      /\ pass.applied = {} /\ ~Deleting /\ pass.ns.label # NoLabel
      /\ found \in BindingObject \cup {Absent}
  BY DEF Shape, TypeOK, ClusterTypeOK, PassShape, RereadBinding, At
<1>2. CASE found = Absent
  <2>1. Return("retry")
    BY <1>2 DEF RereadBinding
  <2>. QED BY <1>1, <2>1, ReturnShape, StepShape
       DEF RereadBinding, Shape, TypeOK, ClusterTypeOK, objectVars, budgetVars
<1>3. CASE found # Absent
  <2>1. /\ held \in PassRecord
        /\ held.cur = pass.cur /\ held.ns = pass.ns /\ held.resources = pass.resources
        /\ held.binding = found /\ held.applied = {}
    BY <1>1 DEF PassRecord
  <2>2. /\ bindingHeld' \subseteq Namespaces
        /\ UNCHANGED <<timers, nsHeld>>
        /\ pass' = WithBinding(held)
    BY <1>1, <1>3 DEF RereadBinding, TakeCachedBinding
  <2> HIDE DEF found, held
  <2>3. pass' \in PassRecord /\ PassShape'
    BY <1>1, <1>3, <2>1, <2>2, WithBindingShape DEF cur
  <2>. QED BY <2>2, <2>3, StepShape
       DEF RereadBinding, Shape, TypeOK, ClusterTypeOK, objectVars, budgetVars
<1>. QED BY <1>2, <1>3

\* Everything a step of the apply or of the sweep finds in the pass.
LEMMA WorkingPass ==
  ASSUME Shape, pass.step \in {"prepare", "apply", "sweep", "delete", "recordReady", "recordFailure"}
  PROVE  /\ pass \in PassRecord /\ cur \in Namespaces /\ pass.ns \in NamespaceObject
         /\ pass.ns.uid \in UIDs
         /\ pass.binding \in BindingObject /\ pass.binding.inventory \in SUBSET Refs
         /\ pass.stale \in SUBSET Refs /\ pass.applied \in SUBSET Refs
         /\ pass.todo \in Seq(Templates)
         /\ pass.applied # {} => Reconciling
         /\ pass.step \in {"prepare", "apply"} => Reconciling
         /\ pass.step = "prepare" => /\ Len(pass.todo) < Len(pass.resources)
                                    /\ pass.applied = {}
         /\ Reconciling => pass.resources \in Seq(Templates)
         /\ timers \subseteq Namespaces /\ nsHeld \subseteq Namespaces
         /\ bindingHeld \subseteq Namespaces
<1>1. /\ pass \in PassRecord /\ cur \in Namespaces /\ pass.ns \in NamespaceObject
      /\ pass.binding \in BindingObject
      /\ pass.stale \in SUBSET Refs /\ pass.applied \in SUBSET Refs
      /\ pass.todo \in Seq(Templates)
  BY DEF Shape, TypeOK, PassRecord, PassShape, At, BindingSteps
<1>2. pass.ns.uid \in UIDs /\ pass.binding.inventory \in SUBSET Refs
  BY <1>1 DEF NamespaceObject, BindingObject
<1>3. Reconciling => pass.resources \in Seq(Templates)
  BY <1>1, DataAssumption DEF PassRecord, Reconciling
<1>. QED BY <1>1, <1>2, <1>3 DEF Shape, TypeOK, ClusterTypeOK, PassShape, At

\* The next resource to prepare is one of the class.
LEMMA NextToPrepare ==
  ASSUME Shape, pass.step = "prepare"
  PROVE  /\ pass.resources[Len(pass.todo) + 1] \in Templates
         /\ \A t \in Templates : /\ Append(pass.todo, t) \in Seq(Templates)
                                 /\ Len(Append(pass.todo, t)) \leq Len(pass.resources)
<1>1. /\ pass.todo \in Seq(Templates) /\ pass.resources \in Seq(Templates)
      /\ Len(pass.todo) < Len(pass.resources)
  BY WorkingPass
<1>2. Len(pass.todo) \in Nat /\ Len(pass.resources) \in Nat
  BY <1>1, LenProperties
<1>3. Len(pass.todo) + 1 \in 1..Len(pass.resources)
  BY <1>1, <1>2
<1>4. ASSUME NEW t \in Templates
      PROVE  Append(pass.todo, t) \in Seq(Templates) /\ Len(Append(pass.todo, t)) = Len(pass.todo) + 1
  BY <1>1, AppendProperties
<1>. QED BY <1>1, <1>2, <1>3, <1>4, ElementOfSeq

\* Prepare keeps the types and the shape of the pass.
LEMMA PrepareShape == ASSUME Shape, Prepare PROVE Shape'
<1>0. pass.step = "prepare" /\ pass.binding # Absent /\ pass.ns # Absent
  BY DEF Prepare, Shape, PassShape, At, BindingSteps
<1> DEFINE t == pass.resources[Len(pass.todo) + 1]
<1>1. pass' \in PassRecord /\ PassShape'
  <2>1. CASE pass' = PrepareOf(pass, Append(pass.todo, t))
    <3>1. t \in Templates
      BY <1>0, NextToPrepare
    <3> HIDE DEF t
    <3>2. /\ Append(pass.todo, t) \in Seq(Templates)
          /\ Len(Append(pass.todo, t)) \leq Len(pass.resources)
      BY <1>0, <3>1, NextToPrepare
    <3>. QED BY <1>0, <2>1, <3>2, WorkingPass, PrepareOfShape DEF cur
  <2>2. CASE pass' = FailWith(Refusal(t)) /\ Refusal(t) # "none"
    <3>1. Refusal(t) \in Reasons
      BY <2>2 DEF Refusal, Reasons
    <3> HIDE DEF t
    <3>. QED BY <1>0, <2>2, <3>1, FailShape
  <2>. QED BY <2>1, <2>2 DEF Prepare, Proceed
<1>2. timers' = timers /\ nsHeld' = nsHeld /\ bindingHeld' = bindingHeld
  BY DEF Prepare, Proceed
<1>. QED BY <1>1, <1>2, StepShape
     DEF Prepare, Shape, TypeOK, ClusterTypeOK, objectVars, budgetVars

\* An apply that takes effect.
LEMMA ApplyTypes ==
  ASSUME Shape, At("apply"), NEW t \in Templates, Apply(t)
  PROVE  /\ RefOf(t, cur) \in Refs
         /\ owner' = [owner EXCEPT ![ObjectOf(RefOf(t, cur))] = pass.ns.uid]
         /\ owner' \in [Objects -> UIDs \cup {Absent, Unowned}]
         /\ content' \in [Objects -> Bodies \cup {Blank, Drifted}]
<1>1. cur \in Namespaces /\ pass.ns.uid \in UIDs
  BY WorkingPass DEF At
<1>2. RefOf(t, cur) \in Refs /\ ObjectOf(RefOf(t, cur)) \in Objects
  BY <1>1, RefsAndObjects
<1>3. t.body \in Bodies
  BY DEF Bodies
<1>. QED BY <1>1, <1>2, <1>3 DEF Apply, SetObject, Shape, TypeOK, ClusterTypeOK

\* The next resource to apply and what is left after it.
LEMMA NextToApply ==
  ASSUME Shape, At("apply")
  PROVE  Head(pass.todo) \in Templates /\ Tail(pass.todo) \in Seq(Templates)
<1>1. pass.todo \in Seq(Templates) /\ pass.todo # << >>
  BY WorkingPass DEF Shape, PassShape, At
<1>. QED BY <1>1, LatestOfTail

\* ApplyResource keeps the types and the shape of the pass.
LEMMA ApplyResourceShape == ASSUME Shape, ApplyResource PROVE Shape'
<1> DEFINE t == Head(pass.todo)
           p == [pass EXCEPT !.applied = @ \cup {RefOf(t, cur)}]
<1>1. At("apply") /\ t \in Templates /\ Tail(pass.todo) \in Seq(Templates)
  BY NextToApply DEF ApplyResource
<1>2. CASE Apply(t) /\ Proceed(ApplyOf(p, Tail(pass.todo)))
  <2>1. /\ p \in PassRecord
        /\ p.cur = pass.cur /\ p.ns = pass.ns /\ p.resources = pass.resources
        /\ p.binding = pass.binding
    BY <1>1, <1>2, ApplyTypes, WorkingPass DEF At, PassRecord
  <2>2. pass' = ApplyOf(p, Tail(pass.todo))
    BY <1>2 DEF Proceed
  <2> HIDE DEF p
  <2>3. pass' \in PassRecord /\ PassShape'
    <3>1. pass.step = "apply" /\ pass.binding # Absent /\ pass.ns # Absent
      BY <1>1 DEF Shape, PassShape, At, BindingSteps
    <3>2. cur \in Namespaces /\ Reconciling
      BY <3>1, WorkingPass
    <3>. QED BY <1>1, <2>1, <2>2, <3>1, <3>2, ApplyShape DEF cur
  <2>. QED BY <1>1, <1>2, <2>3, ApplyTypes, StepShape
       DEF ApplyResource, Proceed, Shape, TypeOK, ClusterTypeOK, budgetVars
<1>3. ASSUME NEW reason \in ApplyRefusals(t), UNCHANGED objectVars, Proceed(FailWith(reason))
      PROVE  Shape'
  <2>1. reason \in Reasons
    BY <1>3 DEF ApplyRefusals, Reasons
  <2>2. pass' \in PassRecord /\ PassShape'
    BY <1>1, <1>3, <2>1, FailShape DEF Proceed, At
  <2>. QED BY <1>3, <2>2, StepShape
       DEF ApplyResource, Proceed, Shape, TypeOK, ClusterTypeOK, objectVars, budgetVars
<1>. QED BY <1>2, <1>3 DEF ApplyResource

\* CheckStale keeps the types and the shape of the pass.
LEMMA CheckStaleShape == ASSUME Shape, CheckStale PROVE Shape'
<1> SUFFICES ASSUME NEW r \in pass.stale,
                    Proceed(IF owner[ObjectOf(r)] = Absent THEN SweepOf(pass, pass.stale \ {r})
                            ELSE IF IsManagedBy(ObjectOf(r), pass.ns.uid)
                                 THEN [pass EXCEPT !.target = r, !.step = "delete"]
                            ELSE FailWith(SweepFailed))
             PROVE  Shape'
  BY DEF CheckStale
<1>1. pass.step = "sweep" /\ pass.binding # Absent /\ pass.ns # Absent
  BY DEF CheckStale, Shape, PassShape, At, BindingSteps
<1>2. pass' \in PassRecord /\ PassShape'
  <2>1. CASE owner[ObjectOf(r)] = Absent
    BY <1>1, <2>1, WorkingPass, SweepShape DEF Proceed, cur
  <2>2. CASE pass' = [pass EXCEPT !.target = r, !.step = "delete"]
    <3>1. pass' \in PassRecord
      BY <1>1, <2>2, WorkingPass DEF PassRecord, Steps
    <3>2. /\ pass'.step = "delete" /\ pass'.target = r /\ pass'.stale = pass.stale
          /\ pass'.cur = pass.cur /\ pass'.ns = pass.ns /\ pass'.resources = pass.resources
          /\ pass'.binding = pass.binding /\ pass'.applied = pass.applied
      BY <1>1, <2>2, WorkingPass DEF PassRecord
    <3>. QED BY <1>1, <3>1, <3>2, WorkingPass
         DEF PassShape, At, cur, Deleting, Unlabelled, Reconciling, BindingSteps
  <2>3. CASE pass' = FailWith(SweepFailed)
    <3>1. SweepFailed \in Reasons
      BY DEF SweepFailed, Reasons
    <3>. QED BY <1>1, <2>3, <3>1, FailShape
  <2>. QED BY <2>1, <2>2, <2>3 DEF Proceed
<1>. QED BY <1>2, StepShape
     DEF CheckStale, Proceed, Shape, TypeOK, ClusterTypeOK, objectVars, budgetVars

\* DeleteStale keeps the types and the shape of the pass.
LEMMA DeleteStaleShape == ASSUME Shape, DeleteStale PROVE Shape'
<1>1. /\ pass.step = "delete" /\ pass.binding # Absent /\ pass.ns # Absent
      /\ pass.target \in Refs
  BY WorkingPass DEF DeleteStale, Shape, PassShape, At, BindingSteps
<1>2. pass' \in PassRecord /\ PassShape'
  BY <1>1, WorkingPass, SweepShape DEF DeleteStale, Proceed, cur
<1>3. ObjectOf(pass.target) \in Objects
  BY <1>1, RefsAndObjects
<1>4. /\ owner' \in [Objects -> UIDs \cup {Absent, Unowned}]
      /\ content' \in [Objects -> Bodies \cup {Blank, Drifted}]
  BY <1>3 DEF DeleteStale, SetObject, Shape, TypeOK, ClusterTypeOK
<1>. QED BY <1>2, <1>4, StepShape
     DEF DeleteStale, Proceed, Shape, TypeOK, ClusterTypeOK, budgetVars

\* A status write that is accepted, and the return after it.
LEMMA StatusReturnShape ==
  ASSUME Shape, pass.step \in {"recordReady", "recordFailure"},
         NEW inventory \in SUBSET Refs, NEW reason \in Reasons \cup {"none"}, NEW result,
         StatusUpdate(inventory, reason), Return(result),
         UNCHANGED <<nsStore, classVars, objectVars, uid, edits, queue, budgetVars>>
  PROVE  Shape'
<1> DEFINE new == [pass.binding EXCEPT !.inventory = inventory, !.reason = reason]
<1>1. new \in BindingObject
  BY WorkingPass DEF BindingObject
<1>2. WriteBinding(cur, new)
  BY DEF StatusUpdate
<1> HIDE DEF new
<1>. QED BY <1>1, <1>2, WorkingPass, WriteBindingTypes, ReturnShape
     DEF Shape, TypeOK, ClusterTypeOK, nsStore, classVars, objectVars, budgetVars

\* RecordReady keeps the types and the shape of the pass.
LEMMA RecordReadyShape == ASSUME Shape, RecordReady PROVE Shape'
<1>1. CASE StatusUpdate(pass.applied, "BindingRecorded") /\ Return("periodic")
  BY <1>1, WorkingPass, StatusReturnShape DEF RecordReady, At, Reasons
<1>2. CASE UNCHANGED bindingStore /\ Return("retry")
  BY <1>2, WorkingPass, ReturnShape, StepShape
     DEF RecordReady, At, Shape, TypeOK, ClusterTypeOK, objectVars, budgetVars
<1>. QED BY <1>1, <1>2 DEF RecordReady

\* RecordFailure keeps the types and the shape of the pass.
LEMMA RecordFailureShape == ASSUME Shape, RecordFailure PROVE Shape'
<1> DEFINE inventory == MergeResourceRefs(pass.binding.inventory, pass.applied)
           result == IF Deleting \/ ClassMissing THEN "retry" ELSE "periodic"
<1>1. CASE StatusUpdate(inventory, pass.reason) /\ Return(result)
  <2>1. inventory \in SUBSET Refs
    BY WorkingPass DEF RecordFailure, At, MergeResourceRefs
  <2>2. pass.reason \in Reasons \cup {"none"}
    BY DEF Shape, TypeOK, PassRecord
  <2> HIDE DEF inventory, result
  <2>. QED BY <1>1, <2>1, <2>2, StatusReturnShape DEF RecordFailure, At
<1>2. CASE UNCHANGED bindingStore /\ Return("retry")
  BY <1>2, WorkingPass, ReturnShape, StepShape
     DEF RecordFailure, At, Shape, TypeOK, ClusterTypeOK, objectVars, budgetVars
<1>. QED BY <1>1, <1>2 DEF RecordFailure

\* DeleteBinding keeps the types and the shape of the pass.
LEMMA DeleteBindingShape == ASSUME Shape, DeleteBinding PROVE Shape'
<1>1. /\ cur \in Namespaces /\ pass.ns # Absent /\ pass.applied = {}
      /\ pass \in PassRecord /\ pass.step = "deleteBinding"
  BY DEF DeleteBinding, Shape, TypeOK, PassShape, At
<1>2. /\ pass' = [pass EXCEPT !.step = "removeFinalizer"]
      /\ WriteBinding(cur, Absent)
      /\ UNCHANGED <<timers, nsHeld, bindingHeld>>
  BY DEF DeleteBinding, Proceed, Goto
<1>3. pass' \in PassRecord
  BY <1>1, <1>2 DEF PassRecord, Steps
<1>4. /\ pass'.step = "removeFinalizer" /\ pass'.cur = pass.cur /\ pass'.ns = pass.ns
      /\ pass'.applied = {}
  BY <1>1, <1>2 DEF PassRecord
<1>5. PassShape'
  BY <1>1, <1>4 DEF PassShape, At, cur, BindingSteps
<1>. QED BY <1>1, <1>2, <1>3, <1>5, WriteBindingTypes
     DEF DeleteBinding, Shape, TypeOK, ClusterTypeOK, nsStore, classVars, objectVars, budgetVars

\* RemoveFinalizer keeps the types and the shape of the pass.
LEMMA RemoveFinalizerShape == ASSUME Shape, RemoveFinalizer PROVE Shape'
<1>1. cur \in Namespaces /\ pass.ns \in NamespaceObject
  BY DEF RemoveFinalizer, Shape, TypeOK, PassRecord, PassShape, At
<1> DEFINE ns == [pass.ns EXCEPT !.finalizer = FALSE]
<1>2. ns \in NamespaceObject
  BY <1>1 DEF NamespaceObject
<1> HIDE DEF ns
<1>3. ASSUME NEW result, WriteNamespace(cur, ns), Return(result) PROVE Shape'
  BY <1>1, <1>2, <1>3, WriteNamespaceTypes, ReturnShape
     DEF RemoveFinalizer, Shape, TypeOK, ClusterTypeOK, bindingStore, classVars, objectVars, budgetVars
<1>4. ASSUME NEW result, UNCHANGED nsStore, Return(result) PROVE Shape'
  BY <1>1, <1>4, ReturnShape, StepShape
     DEF RemoveFinalizer, Shape, TypeOK, ClusterTypeOK, objectVars, budgetVars
<1>. QED BY <1>3, <1>4 DEF RemoveFinalizer, ns

\* CallFails keeps the types and the shape of the pass.
LEMMA CallFailsShape == ASSUME Shape, CallFails PROVE Shape'
<1>0. faults' \in Nat /\ crashes' \in Nat
  BY DEF CallFails, Fault, Shape, TypeOK
<1>1. ASSUME ~At("idle"), Return("retry") PROVE Shape'
  <2>1. cur \in Namespaces
    BY <1>1 DEF Shape, PassShape
  <2>. QED BY <1>0, <1>1, <2>1, ReturnShape, StepShape
       DEF CallFails, Fault, Shape, TypeOK, ClusterTypeOK, objectVars
<1>2. ASSUME pass.step \in {"prepare", "apply", "sweep", "delete"}, NEW reason \in Reasons,
             Proceed(FailWith(reason))
      PROVE  Shape'
  <2>1. pass' \in PassRecord /\ PassShape'
    BY <1>2, FailShape DEF Proceed
  <2>. QED BY <1>0, <1>2, <2>1, StepShape
       DEF CallFails, Fault, Proceed, Shape, TypeOK, ClusterTypeOK, objectVars
<1>3. "ApplyFailed" \in Reasons /\ SweepFailed \in Reasons
  BY DEF SweepFailed, Reasons
<1>. QED BY <1>1, <1>2, <1>3 DEF CallFails, At

\* NamespaceReplyLost stores a namespace.
LEMMA LostNamespaceWrite ==
  ASSUME Shape, NamespaceReplyLost
  PROVE  cur \in Namespaces /\ \E v \in NamespaceObject : WriteNamespace(cur, v)
<1>1. cur \in Namespaces /\ pass.ns \in NamespaceObject
  BY DEF NamespaceReplyLost, Shape, TypeOK, PassRecord, PassShape, At
<1>2. /\ [pass.ns EXCEPT !.finalizer = TRUE] \in NamespaceObject
      /\ [pass.ns EXCEPT !.finalizer = FALSE] \in NamespaceObject
  BY <1>1 DEF NamespaceObject
<1>. QED BY <1>1, <1>2 DEF NamespaceReplyLost

\* NamespaceReplyLost keeps the types and the shape of the pass.
LEMMA NamespaceReplyLostShape == ASSUME Shape, NamespaceReplyLost PROVE Shape'
<1>1. faults' \in Nat /\ crashes' \in Nat
  BY DEF NamespaceReplyLost, Fault, Shape, TypeOK
<1>2. PICK v \in NamespaceObject : WriteNamespace(cur, v)
  BY LostNamespaceWrite
<1>. QED BY <1>1, <1>2, LostNamespaceWrite, WriteNamespaceTypes, ReturnShape
     DEF NamespaceReplyLost, Fault, Shape, TypeOK, ClusterTypeOK, bindingStore, classVars, objectVars

\* BindingReplyLost stores a binding or none.
LEMMA LostBindingWrite ==
  ASSUME Shape, BindingReplyLost
  PROVE  cur \in Namespaces /\ \E v \in BindingObject \cup {Absent} : WriteBinding(cur, v)
<1>0. pass \in PassRecord /\ cur \in Namespaces
  BY DEF BindingReplyLost, Shape, TypeOK, PassShape, At
<1>1. CASE At("create") /\ WriteBinding(cur, NewBinding)
  <2>1. pass.ns \in NamespaceObject /\ ~Deleting /\ pass.ns.label # NoLabel
    BY <1>0, <1>1 DEF Shape, PassShape, At, PassRecord
  <2>2. NewBinding \in BindingObject
    BY <2>1 DEF NewBinding, NamespaceObject, BindingObject, Reasons
  <2>. QED BY <1>0, <1>1, <2>2
<1>2. CASE At("update") /\ WriteBinding(cur, [pass.binding EXCEPT !.class = pass.ns.label])
  <2>1. pass.ns \in NamespaceObject /\ pass.ns.label # NoLabel /\ pass.binding \in BindingObject
    BY <1>0, <1>2 DEF Shape, PassShape, At, PassRecord, BindingSteps
  <2>2. [pass.binding EXCEPT !.class = pass.ns.label] \in BindingObject
    BY <2>1 DEF NamespaceObject, BindingObject
  <2>. QED BY <1>0, <1>2, <2>2
<1>3. ASSUME pass.step \in {"recordReady", "recordFailure"},
             NEW inventory \in SUBSET Refs, NEW reason \in Reasons \cup {"none"},
             StatusUpdate(inventory, reason)
      PROVE  \E v \in BindingObject \cup {Absent} : WriteBinding(cur, v)
  <2>1. [pass.binding EXCEPT !.inventory = inventory, !.reason = reason] \in BindingObject
    BY <1>3, WorkingPass DEF BindingObject
  <2>. QED BY <1>3, <2>1 DEF StatusUpdate
<1>4. CASE At("recordReady") /\ StatusUpdate(pass.applied, "BindingRecorded")
  BY <1>0, <1>3, <1>4, WorkingPass DEF At, Reasons
<1>5. CASE /\ At("recordFailure")
           /\ StatusUpdate(MergeResourceRefs(pass.binding.inventory, pass.applied), pass.reason)
  <2>1. /\ MergeResourceRefs(pass.binding.inventory, pass.applied) \in SUBSET Refs
        /\ pass.reason \in Reasons \cup {"none"}
    BY <1>0, <1>5, WorkingPass DEF At, MergeResourceRefs, PassRecord
  <2>. QED BY <1>0, <1>3, <1>5, <2>1 DEF At
<1>. QED BY <1>0, <1>1, <1>2, <1>4, <1>5 DEF BindingReplyLost

\* BindingReplyLost keeps the types and the shape of the pass.
LEMMA BindingReplyLostShape == ASSUME Shape, BindingReplyLost PROVE Shape'
<1>1. faults' \in Nat /\ crashes' \in Nat
  BY DEF BindingReplyLost, Fault, Shape, TypeOK
<1>2. PICK v \in BindingObject \cup {Absent} : WriteBinding(cur, v)
  BY LostBindingWrite
<1>. QED BY <1>1, <1>2, LostBindingWrite, WriteBindingTypes, ReturnShape
     DEF BindingReplyLost, Fault, Shape, TypeOK, ClusterTypeOK, nsStore, classVars, objectVars

\* ApplyReplyLost keeps the types and the shape of the pass.
LEMMA ApplyReplyLostShape == ASSUME Shape, ApplyReplyLost PROVE Shape'
<1>1. At("apply") /\ Head(pass.todo) \in Templates
  BY NextToApply DEF ApplyReplyLost
<1>2. pass' \in PassRecord /\ PassShape'
  <2>1. "ApplyFailed" \in Reasons
    BY DEF Reasons
  <2>. QED BY <1>1, <2>1, FailShape DEF ApplyReplyLost, Proceed, At
<1>3. faults' \in Nat /\ crashes' \in Nat
  BY DEF ApplyReplyLost, Fault, Shape, TypeOK
<1>. QED BY <1>1, <1>2, <1>3, ApplyTypes, StepShape
     DEF ApplyReplyLost, Fault, Proceed, Shape, TypeOK, ClusterTypeOK

\* DeleteReplyLost keeps the types and the shape of the pass.
LEMMA DeleteReplyLostShape == ASSUME Shape, DeleteReplyLost PROVE Shape'
<1>1. pass.step = "delete" /\ ObjectOf(pass.target) \in Objects
  BY WorkingPass, RefsAndObjects DEF DeleteReplyLost, Shape, PassShape, At
<1>2. pass' \in PassRecord /\ PassShape'
  <2>1. SweepFailed \in Reasons
    BY DEF SweepFailed, Reasons
  <2>. QED BY <1>1, <2>1, FailShape DEF DeleteReplyLost, Proceed
<1>3. faults' \in Nat /\ crashes' \in Nat
  BY DEF DeleteReplyLost, Fault, Shape, TypeOK
<1>4. /\ owner' \in [Objects -> UIDs \cup {Absent, Unowned}]
      /\ content' \in [Objects -> Bodies \cup {Blank, Drifted}]
  BY <1>1 DEF DeleteReplyLost, SetObject, Shape, TypeOK, ClusterTypeOK
<1>. QED BY <1>2, <1>3, <1>4, StepShape
     DEF DeleteReplyLost, Fault, Proceed, Shape, TypeOK, ClusterTypeOK

\* Part 1 put together.
LEMMA ShapeInvariant == Spec => []Shape
<1>1. Shape /\ [Next]_vars => Shape'
  <2> SUFFICES ASSUME Shape, [Next]_vars PROVE Shape'
    OBVIOUS
  <2>1. CASE PassStep
    BY <2>1, ReadClassShape, AddFinalizerShape, LookupShape, CreateBindingShape,
       UpdateBindingShape, RereadBindingShape, PrepareShape, ApplyResourceShape,
       CheckStaleShape, DeleteStaleShape, RecordReadyShape, RecordFailureShape,
       DeleteBindingShape, RemoveFinalizerShape DEF PassStep
  <2>2. CASE UNCHANGED vars
    BY <2>2 DEF vars, workVars, budgetVars, clusterVars, nsVars, nsStore, bindingVars, bindingStore,
       classVars, objectVars, Shape, TypeOK, ClusterTypeOK, PassShape, At, cur, Deleting,
       Unlabelled, Reconciling
  <2>. QED BY <2>1, <2>2, EnvironmentShape, DeliveryShape, StartShape, CallFailsShape,
           NamespaceReplyLostShape, BindingReplyLostShape, ApplyReplyLostShape,
           DeleteReplyLostShape, RestartShape DEF Next
<1>. QED BY <1>1, InitShape, PTL DEF Spec

\* Every variable keeps its type in every behaviour of the reconciler, whatever
\* users, watches, failing calls and restarts do between the calls of a pass.
THEOREM TypeCorrect == Spec => []TypeOK
BY ShapeInvariant, PTL DEF Shape

-----------------------------------------------------------------------------
\* A write to a binding reaches its watch.
LEMMA WriteBindingTrails ==
  ASSUME Shape, CacheTrails, NEW n \in Namespaces, NEW v \in BindingObject \cup {Absent},
         WriteBinding(n, v)
  PROVE  CacheTrails'
<1>0. /\ binding \in [Namespaces -> BindingObject \cup {Absent}]
      /\ bindingEvents \in [Namespaces -> Seq(BindingObject \cup {Absent})]
  BY DEF Shape, TypeOK, ClusterTypeOK
<1>1. CASE v = binding[n]
  BY <1>1 DEF WriteBinding, CacheTrails
<1>2. CASE v # binding[n]
  <2>1. /\ binding' = [binding EXCEPT ![n] = v]
        /\ bindingEvents' = [bindingEvents EXCEPT ![n] = Append(bindingEvents[n], v)]
        /\ bindingCache' = bindingCache
    BY <1>2 DEF WriteBinding
  <2>2. \A c : Latest(c, Append(bindingEvents[n], v)) = v
    <3>1. bindingEvents[n] \in Seq(BindingObject \cup {Absent})
      BY <1>0
    <3>. QED BY <3>1, LatestOfAppend
  <2>3. ASSUME NEW m \in Namespaces
        PROVE  binding'[m] = Latest(bindingCache'[m], bindingEvents'[m])
    <3>1. CASE m = n
      <4>1. bindingEvents'[m] = Append(bindingEvents[n], v) /\ binding'[m] = v
        BY <1>0, <2>1, <3>1
      <4>. QED BY <2>2, <4>1
    <3>2. CASE m # n
      BY <1>0, <2>1, <3>2 DEF CacheTrails
    <3>. QED BY <3>1, <3>2
  <2>. QED BY <2>3 DEF CacheTrails
<1>. QED BY <1>1, <1>2

\* The environment disowns objects but hands none over.
LEMMA EnvironmentDisowns ==
  ASSUME Shape, Environment
  PROVE  \A o \in Objects : owner'[o] \in {owner[o], Absent, Unowned}
<1>1. owner \in [Objects -> UIDs \cup {Absent, Unowned}]
  BY DEF Shape, TypeOK, ClusterTypeOK
<1>2. CASE UNCHANGED objectVars
  BY <1>2 DEF objectVars
<1>3. ASSUME NEW o \in Objects, NEW who \in {owner[o], Absent, Unowned}, NEW what,
             SetObject(o, who, what)
      PROVE  \A p \in Objects : owner'[p] \in {owner[p], Absent, Unowned}
  BY <1>1, <1>3 DEF SetObject
<1>4. ASSUME NEW n \in Namespaces,
             \/ \E l \in Classes \cup {NoLabel} : CreateNamespace(n, l) \/ Relabel(n, l)
             \/ DeleteNamespace(n) \/ DeleteBindingByHand(n) \/ FinishDeletion(n)
      PROVE  UNCHANGED objectVars
  BY <1>4 DEF CreateNamespace, Relabel, DeleteNamespace, EditNamespace, DeleteBindingByHand,
              FinishDeletion
<1>5. ASSUME NEW c \in Classes, NEW s \in ResourceLists \cup {Absent}, SetClass(c, s)
      PROVE  UNCHANGED objectVars
  BY <1>5 DEF SetClass
<1>6. ASSUME NEW o \in Objects, NEW what, CreateObject(o, what)
      PROVE  \A p \in Objects : owner'[p] \in {owner[p], Absent, Unowned}
  BY <1>3, <1>6 DEF CreateObject, EditObject
<1>7. ASSUME NEW o \in Objects,
             DeleteObject(o) \/ StripMarkers(o) \/ DriftObject(o) \/ CollectObject(o)
      PROVE  \A p \in Objects : owner'[p] \in {owner[p], Absent, Unowned}
  BY <1>3, <1>7 DEF DeleteObject, StripMarkers, DriftObject, CollectObject, EditObject
<1>. QED BY <1>2, <1>4, <1>5, <1>6, <1>7 DEF Environment

\* What holds of the pass and the objects survives what others do to the objects.
LEMMA PassUndisturbed ==
  ASSUME IInv, pass' = pass,
         \A o \in Objects : owner'[o] \in {owner[o], Absent, Unowned}
  PROVE  SweptIsGone' /\ ClaimsHold'
<1>1. SweptIsGone'
  <2> SUFFICES ASSUME pass.step \in {"sweep", "delete", "recordReady", "deleteBinding"},
                      NEW r \in Due \ (pass.stale \cup pass.applied)
               PROVE  owner'[ObjectOf(r)] \in {Absent, Unowned}
    BY DEF SweptIsGone, Due, Deleting
  <2>1. owner[ObjectOf(r)] \in {Absent, Unowned}
    BY DEF IInv, SweptIsGone
  <2>2. ObjectOf(r) \in Objects
    <3>1. pass.binding \in BindingObject
      BY DEF IInv, TypeOK, PassShape, PassRecord, BindingSteps
    <3>2. r \in Refs
      BY <3>1 DEF Due, ClusterScoped, BindingObject
    <3>. QED BY <3>2, RefsAndObjects
  <2>. QED BY <2>1, <2>2
<1>2. ClaimsHold'
  <2>1. ASSUME pass.step \in {"prepare", "apply"}, NEW i \in DOMAIN pass.todo
        PROVE  Claimable(RefOf(pass.todo[i], cur))'
    <3>1. Claimable(RefOf(pass.todo[i], cur))
      BY <2>1 DEF IInv, ClaimsHold
    <3>2. pass.todo \in Seq(Templates) /\ cur \in Namespaces
      BY <2>1, WorkingPass DEF IInv, Shape, At
    <3>3. ObjectOf(RefOf(pass.todo[i], cur)) \in Objects
      BY <3>2, RefsAndObjects, ElementOfSeq
    <3>. QED BY <3>1, <3>3 DEF Claimable, cur, RefOf, RefName
  <2>2. ASSUME At("delete") PROVE Claimable(pass.target)'
    <3>1. Claimable(pass.target) /\ pass.target \in Refs
      BY <2>2, WorkingPass DEF IInv, ClaimsHold, Shape, PassShape, At
    <3>. QED BY <3>1, RefsAndObjects DEF Claimable
  <2>. QED BY <2>1, <2>2 DEF ClaimsHold, At
<1>. QED BY <1>1, <1>2

\* The part of the invariant that is not about the shape of the pass.
Trail == CacheTrails /\ HeldIsCurrent
Claims == SweptIsGone /\ ClaimsHold

\* Environment keeps what is known of the bindings and of the sweep.
LEMMA EnvironmentInv ==
  ASSUME IInv, Environment, UNCHANGED <<workVars, budgetVars>>
  PROVE  Trail' /\ Claims'
<1>1. Claims'
  BY EnvironmentDisowns, PassUndisturbed DEF IInv, Shape, Claims, workVars
<1>2. CASE UNCHANGED bindingVars
  BY <1>1, <1>2 DEF IInv, Trail, CacheTrails, HeldIsCurrent, bindingVars, bindingStore, workVars, cur
<1>3. ASSUME NEW n \in Namespaces, DeleteBindingByHand(n) PROVE Trail'
  <2>1. /\ CacheTrails'
        /\ binding' = [binding EXCEPT ![n] = Absent]
    BY <1>3, WriteBindingTrails, WriteBindingTypes DEF DeleteBindingByHand, IInv, Shape
  <2>2. binding \in [Namespaces -> BindingObject \cup {Absent}]
    BY DEF IInv, TypeOK, ClusterTypeOK
  <2>3. HeldIsCurrent'
    BY <1>3, <2>1, <2>2 DEF DeleteBindingByHand, IInv, HeldIsCurrent, workVars, cur
  <2>. QED BY <2>1, <2>3 DEF Trail
<1>4. ASSUME ~ \E n \in Namespaces : DeleteBindingByHand(n) PROVE UNCHANGED bindingVars
  <2>1. ASSUME NEW n \in Namespaces, NEW l \in Classes \cup {NoLabel},
               CreateNamespace(n, l) \/ Relabel(n, l)
        PROVE  UNCHANGED bindingVars
    BY <2>1 DEF CreateNamespace, Relabel, EditNamespace
  <2>2. ASSUME NEW n \in Namespaces, DeleteNamespace(n) \/ FinishDeletion(n)
        PROVE  UNCHANGED bindingVars
    BY <2>2 DEF DeleteNamespace, EditNamespace, FinishDeletion
  <2>3. ASSUME NEW c \in Classes, NEW s \in ResourceLists \cup {Absent}, SetClass(c, s)
        PROVE  UNCHANGED bindingVars
    BY <2>3 DEF SetClass
  <2>4. ASSUME NEW o \in Objects, NEW what \in {Blank, Drifted}, CreateObject(o, what)
        PROVE  UNCHANGED bindingVars
    BY <2>4 DEF CreateObject, EditObject
  <2>5. ASSUME NEW o \in Objects,
               DeleteObject(o) \/ StripMarkers(o) \/ DriftObject(o) \/ CollectObject(o)
        PROVE  UNCHANGED bindingVars
    BY <2>5 DEF DeleteObject, StripMarkers, DriftObject, CollectObject, EditObject
  <2>. QED BY <1>4, <2>1, <2>2, <2>3, <2>4, <2>5 DEF Environment
<1>. QED BY <1>1, <1>2, <1>3, <1>4

\* Delivery keeps what is known of the bindings and of the sweep.
LEMMA DeliveryInv == ASSUME IInv, Delivery PROVE Trail' /\ Claims'
<1>1. pass' = pass /\ owner' = owner /\ binding' = binding /\ bindingHeld' = bindingHeld
  BY DEF Delivery, DeliverNamespace, DeliverBinding, DeliverClass, Requeue, bindingVars,
         bindingStore, clusterVars, objectVars
<1>2. Claims' /\ HeldIsCurrent'
  BY <1>1, PassUndisturbed DEF Claims, IInv, HeldIsCurrent, cur
<1>3. ASSUME UNCHANGED bindingStore PROVE CacheTrails'
  BY <1>3 DEF IInv, CacheTrails, bindingStore
<1>4. ASSUME NEW n \in Namespaces, DeliverBinding(n) PROVE CacheTrails'
  <2>1. /\ bindingCache' = [bindingCache EXCEPT ![n] = Head(bindingEvents[n])]
        /\ bindingEvents' = [bindingEvents EXCEPT ![n] = Tail(bindingEvents[n])]
        /\ bindingEvents[n] # << >>
    BY <1>4 DEF DeliverBinding
  <2>2. /\ bindingCache \in [Namespaces -> BindingObject \cup {Absent}]
        /\ bindingEvents \in [Namespaces -> Seq(BindingObject \cup {Absent})]
    BY DEF IInv, TypeOK, ClusterTypeOK
  <2>3. Latest(Head(bindingEvents[n]), Tail(bindingEvents[n])) = Latest(bindingCache[n], bindingEvents[n])
    <3>1. bindingEvents[n] \in Seq(BindingObject \cup {Absent})
      BY <2>2
    <3>. QED BY <2>1, <3>1, LatestOfTail
  <2>4. ASSUME NEW m \in Namespaces
        PROVE  binding'[m] = Latest(bindingCache'[m], bindingEvents'[m])
    <3>1. CASE m = n
      <4>1. /\ bindingCache'[m] = Head(bindingEvents[n])
            /\ bindingEvents'[m] = Tail(bindingEvents[n])
        BY <2>1, <2>2, <3>1
      <4>2. binding'[m] = Latest(bindingCache[n], bindingEvents[n])
        BY <1>1, <3>1 DEF IInv, CacheTrails
      <4>. QED BY <2>3, <4>1, <4>2
    <3>2. CASE m # n
      BY <1>1, <2>1, <2>2, <3>2 DEF IInv, CacheTrails
    <3>. QED BY <3>1, <3>2
  <2>. QED BY <2>4 DEF CacheTrails
<1>5. ASSUME ~ \E n \in Namespaces : DeliverBinding(n) PROVE UNCHANGED bindingStore
  BY <1>5 DEF Delivery, DeliverNamespace, DeliverClass, Requeue, bindingVars, clusterVars
<1>. QED BY <1>2, <1>3, <1>4, <1>5 DEF Trail

\* A pass that has returned relies on nothing.
LEMMA IdleInv ==
  ASSUME pass' = Idle, bindingHeld' = {}
  PROVE  HeldIsCurrent' /\ Claims'
BY DEF Idle, HeldIsCurrent, Claims, SweptIsGone, ClaimsHold, At, BindingSteps

\* Neither does one that has not read the binding yet, apart from its copy of it.
LEMMA QuietInv ==
  ASSUME pass'.step \in Steps \ {"prepare", "apply", "sweep", "delete", "recordReady", "deleteBinding"}
  PROVE  Claims'
BY DEF Claims, SweptIsGone, ClaimsHold, At

\* Restart keeps what is known of the bindings and of the sweep.
LEMMA RestartInv == ASSUME IInv, Restart PROVE Trail' /\ Claims'
<1>1. CacheTrails'
  BY DEF Restart, CacheTrails, Latest
<1>. QED BY <1>1, IdleInv DEF Restart, Trail

\* Start keeps what is known of the bindings and of the sweep.
LEMMA StartInv == ASSUME IInv, NEW n \in Namespaces, Start(n) PROVE Trail' /\ Claims'
<1>1. bindingHeld = {}
  BY SentinelAssumption DEF IInv, TypeOK, ClusterTypeOK, HeldIsCurrent, Start, PassShape, At, cur, Idle
<1>2. cur' \in Namespaces \/ pass' = pass
  BY DEF Start, Idle, cur
<1>3. binding' = binding /\ bindingHeld' = bindingHeld /\ owner' = owner
  BY DEF Start, bindingVars, bindingStore, objectVars
<1>4. CacheTrails'
  BY DEF Start, IInv, CacheTrails, bindingVars, bindingStore
<1>5. HeldIsCurrent'
  BY <1>1, <1>3 DEF HeldIsCurrent
<1>6. pass'.step \in Steps \ {"prepare", "apply", "sweep", "delete", "recordReady", "deleteBinding"}
  BY DEF Start, Idle, Steps, At
<1>. QED BY <1>4, <1>5, <1>6, QuietInv DEF Trail

\* A step that leaves the bindings and the pass's copy of its binding alone.
LEMMA CopyKept ==
  ASSUME IInv, UNCHANGED bindingStore, bindingHeld' = bindingHeld, pass'.cur = pass.cur,
         \/ pass'.binding = pass.binding /\ pass.step \in BindingSteps
         \/ pass'.step \notin BindingSteps
  PROVE  Trail'
BY DEF IInv, Trail, CacheTrails, HeldIsCurrent, bindingStore, cur

\* A pass that returns early without writing.
LEMMA ReturnInv ==
  ASSUME IInv, NEW result, Return(result), UNCHANGED bindingStore
  PROVE  Trail' /\ Claims'
<1>1. CacheTrails'
  BY DEF IInv, CacheTrails, bindingStore
<1>. QED BY <1>1, IdleInv DEF Return, Trail

\* A pass that goes on to record a failure.
LEMMA FailInv ==
  ASSUME IInv, pass.step \in {"prepare", "apply", "sweep", "delete"}, NEW reason,
         pass' = FailWith(reason), bindingHeld' = bindingHeld, UNCHANGED bindingStore
  PROVE  Trail' /\ Claims'
<1>1. /\ pass'.step = "recordFailure" /\ pass'.cur = pass.cur /\ pass'.binding = pass.binding
  BY DEF IInv, TypeOK, FailWith, PassRecord
<1>. QED BY <1>1, CopyKept, QuietInv DEF BindingSteps, Steps

\* A pass that starts or continues a sweep owes the deletion of what it does not keep.
LEMMA SweepClaims ==
  ASSUME NEW p \in PassRecord, NEW s \in SUBSET Refs, pass' = SweepOf(p, s),
         NEW due, due = IF p.ns.deleting THEN ClusterScoped(p.binding.inventory)
                                         ELSE p.binding.inventory,
         \A r \in due \ (s \cup p.applied) : owner'[ObjectOf(r)] \in {Absent, Unowned}
  PROVE  Claims'
<1>1. Due' = due
  BY SweepOfShape DEF Due, Deleting, ClusterScoped
<1>2. SweptIsGone'
  BY <1>1, SweepOfShape DEF SweptIsGone
<1>3. pass'.step \in {"sweep", "recordReady", "deleteBinding"}
  BY SweepOfShape DEF AfterSweep
<1>. QED BY <1>2, <1>3 DEF Claims, ClaimsHold, At

\* ReadClass keeps what is known of the bindings and of the sweep.
LEMMA ReadClassInv == ASSUME IInv, ReadClass PROVE Trail' /\ Claims'
<1>1. AfterReadClass(class[pass.ns.label]) \in {"lookup", "addFinalizer"}
  BY DEF AfterReadClass
<1>2. /\ pass'.step \in {"lookup", "addFinalizer"} /\ pass'.cur = pass.cur
      /\ bindingHeld' = bindingHeld /\ UNCHANGED bindingStore
  BY <1>1 DEF ReadClass, Proceed, IInv, TypeOK, PassRecord
<1>. QED BY <1>2, CopyKept, QuietInv DEF BindingSteps, Steps

\* AddFinalizer keeps what is known of the bindings and of the sweep.
LEMMA AddFinalizerInv == ASSUME IInv, AddFinalizer PROVE Trail' /\ Claims'
<1>1. UNCHANGED bindingStore
  BY DEF AddFinalizer
<1>2. CASE Return("retry")
  BY <1>1, <1>2, ReturnInv
<1>3. CASE Proceed([pass EXCEPT !.ns = [pass.ns EXCEPT !.finalizer = TRUE], !.step = "lookup"])
  <2>1. pass'.step = "lookup" /\ pass'.cur = pass.cur /\ bindingHeld' = bindingHeld
    BY <1>3 DEF Proceed, IInv, TypeOK, PassRecord
  <2>. QED BY <1>1, <2>1, CopyKept, QuietInv DEF BindingSteps, Steps
<1>. QED BY <1>2, <1>3 DEF AddFinalizer

\* Taking the cached binding: when no event is pending it is the live one.
LEMMA TakenIsCurrent ==
  ASSUME IInv, cur \in Namespaces, UNCHANGED bindingStore,
         bindingHeld' = IF bindingEvents[cur] = << >> THEN {cur} ELSE {},
         pass'.cur = pass.cur, pass'.binding = bindingCache[cur]
  PROVE  Trail'
<1>1. CacheTrails'
  BY DEF IInv, CacheTrails, bindingStore
<1>2. bindingEvents[cur] = << >> => binding[cur] = bindingCache[cur]
  BY DEF IInv, CacheTrails, Latest
<1>. QED BY <1>1, <1>2 DEF Trail, HeldIsCurrent, bindingStore, cur

\* A pass that goes on to apply todo, every part of which it may claim.
LEMMA ApplyClaims ==
  ASSUME NEW p \in PassRecord, NEW todo \in Seq(Templates), pass' = ApplyOf(p, todo),
         p.cur = cur, p.binding \in BindingObject, ~p.ns.deleting,
         \A i \in DOMAIN todo : owner'[ObjectOf(RefOf(todo[i], cur))] \in {p.ns.uid, Absent, Unowned}
  PROVE  Claims' /\ pass'.cur = p.cur /\ pass'.binding = p.binding
<1> DEFINE q == [p EXCEPT !.todo = todo]
<1>1. CASE todo = << >>
  <2>1. pass' = SweepOf(q, p.binding.inventory \ p.applied)
    BY <1>1 DEF ApplyOf
  <2>2. /\ q \in PassRecord /\ q.cur = p.cur /\ q.ns = p.ns
        /\ q.binding = p.binding /\ q.applied = p.applied
    BY DEF PassRecord
  <2> HIDE DEF q
  <2>3. p.binding.inventory \ p.applied \in SUBSET Refs
    BY DEF BindingObject
  <2>. QED BY <2>1, <2>2, <2>3, SweepClaims, SweepOfShape
<1>2. CASE todo # << >>
  <2>1. /\ pass'.step = "apply" /\ pass'.todo = todo /\ pass'.cur = p.cur /\ pass'.ns = p.ns
        /\ pass'.binding = p.binding
    BY <1>2 DEF ApplyOf, PassRecord
  <2>. QED BY <2>1 DEF Claims, SweptIsGone, ClaimsHold, Claimable, At, cur, RefOf, RefName
<1>. QED BY <1>1, <1>2

\* The same of one that goes on to prepare.
LEMMA PrepareClaims ==
  ASSUME NEW p \in PassRecord, NEW prepared \in Seq(Templates), pass' = PrepareOf(p, prepared),
         p.cur = cur, p.binding \in BindingObject, ~p.ns.deleting,
         \A i \in DOMAIN prepared :
           owner'[ObjectOf(RefOf(prepared[i], cur))] \in {p.ns.uid, Absent, Unowned}
  PROVE  Claims' /\ pass'.cur = p.cur /\ pass'.binding = p.binding
<1>1. CASE Len(prepared) = Len(p.resources)
  BY <1>1, ApplyClaims DEF PrepareOf
<1>2. CASE Len(prepared) # Len(p.resources)
  <2>1. /\ pass'.step = "prepare" /\ pass'.todo = prepared /\ pass'.cur = p.cur
        /\ pass'.ns = p.ns /\ pass'.binding = p.binding
    BY <1>2 DEF PrepareOf, PassRecord
  <2>. QED BY <2>1 DEF Claims, SweptIsGone, ClaimsHold, Claimable, At, cur, RefOf, RefName
<1>. QED BY <1>1, <1>2

\* Lookup keeps what is known of the bindings and of the sweep.
LEMMA LookupInv == ASSUME IInv, Lookup PROVE Trail' /\ Claims'
<1> DEFINE found == bindingCache[cur]
           held == [pass EXCEPT !.binding = found]
<1>1. /\ pass \in PassRecord /\ cur \in Namespaces /\ pass.applied = {}
      /\ found \in BindingObject \cup {Absent}
  BY DEF IInv, TypeOK, ClusterTypeOK, PassShape, Lookup, At
<1>2. UNCHANGED bindingStore
  BY DEF Lookup
<1>3. CASE found = Absent
  <2>1. /\ pass'.step \in {"removeFinalizer", "create"}
        /\ pass'.cur = pass.cur /\ bindingHeld' = bindingHeld
    BY <1>1, <1>3 DEF Lookup, Proceed, Goto, PassRecord
  <2>. QED BY <1>2, <2>1, CopyKept, QuietInv DEF BindingSteps, Steps
<1>4. CASE found # Absent
  <2>1. /\ held \in PassRecord /\ found \in BindingObject
        /\ held.cur = pass.cur /\ held.ns = pass.ns /\ held.resources = pass.resources
        /\ held.binding = found /\ held.applied = {}
    BY <1>1, <1>4 DEF PassRecord
  <2>2. /\ found.inventory \in SUBSET Refs
        /\ ClusterScoped(found.inventory) \in SUBSET Refs
    BY <2>1 DEF BindingObject, ClusterScoped
  <2>3. /\ bindingHeld' = IF bindingEvents[cur] = << >> THEN {cur} ELSE {}
        /\ pass' = IF Deleting THEN SweepOf(held, ClusterScoped(found.inventory))
                   ELSE IF Unlabelled THEN SweepOf(held, found.inventory)
                   ELSE IF found.class # pass.ns.label THEN [held EXCEPT !.step = "update"]
                   ELSE WithBinding(held)
    BY <1>1, <1>4 DEF Lookup, TakeCachedBinding
  <2> HIDE DEF held
  <2>4. CASE Deleting
    <3>1. pass' = SweepOf(held, ClusterScoped(found.inventory))
      BY <2>3, <2>4
    <3>2. pass'.cur = pass.cur /\ pass'.binding = found
      BY <2>1, <2>2, <3>1, SweepOfShape
    <3>3. Claims'
      BY <2>1, <2>2, <2>4, <3>1, SweepClaims DEF Deleting
    <3>. QED BY <1>1, <1>2, <2>3, <3>2, <3>3, TakenIsCurrent
  <2>5. CASE Unlabelled \/ (~Deleting /\ found.class = pass.ns.label /\ ClassMissing)
    <3>1. pass' = SweepOf(held, found.inventory)
      BY <2>1, <2>3, <2>5 DEF WithBinding, Unlabelled, ClassMissing
    <3>2. pass'.cur = pass.cur /\ pass'.binding = found
      BY <2>1, <2>2, <3>1, SweepOfShape
    <3>3. ~pass.ns.deleting
      BY <2>5 DEF Unlabelled, Deleting
    <3>4. Claims'
      BY <2>1, <2>2, <3>1, <3>3, SweepClaims
    <3>. QED BY <1>1, <1>2, <2>3, <3>2, <3>4, TakenIsCurrent
  <2>6. CASE ~Deleting /\ ~Unlabelled /\ found.class # pass.ns.label
    <3>1. pass' = [held EXCEPT !.step = "update"]
      BY <2>3, <2>6
    <3>2. pass'.cur = pass.cur /\ pass'.binding = found /\ pass'.step = "update"
      BY <2>1, <3>1 DEF PassRecord
    <3>. QED BY <1>1, <1>2, <2>3, <3>2, TakenIsCurrent, QuietInv DEF Steps
  <2>7. CASE ~Deleting /\ ~Unlabelled /\ found.class = pass.ns.label /\ ~ClassMissing
    <3>1. pass' = PrepareOf(held, << >>)
      BY <2>3, <2>7 DEF WithBinding
    <3>2. << >> \in Seq(Templates) /\ DOMAIN << >> = {}
      BY EmptySeq
    <3>3. Claims' /\ pass'.cur = pass.cur /\ pass'.binding = found
      BY <2>1, <2>7, <3>1, <3>2, PrepareClaims DEF cur, Deleting
    <3>. QED BY <1>1, <1>2, <2>3, <3>3, TakenIsCurrent
  <2>. QED BY <2>4, <2>5, <2>6, <2>7
<1>. QED BY <1>3, <1>4

\* CreateBinding keeps what is known of the bindings and of the sweep.
LEMMA CreateBindingInv == ASSUME IInv, CreateBinding PROVE Trail' /\ Claims'
<1>1. CASE UNCHANGED bindingStore /\ Return("retry")
  BY <1>1, ReturnInv
<1>2. CASE WriteBinding(cur, NewBinding) /\ Proceed(Goto("reread"))
  <2>1. /\ pass \in PassRecord /\ cur \in Namespaces /\ ~Deleting /\ pass.ns.label # NoLabel
        /\ pass.ns \in NamespaceObject
    BY DEF IInv, TypeOK, PassRecord, PassShape, CreateBinding, At
  <2>2. NewBinding \in BindingObject
    BY <2>1 DEF NewBinding, NamespaceObject, BindingObject, Reasons
  <2>3. CacheTrails'
    BY <1>2, <2>1, <2>2, WriteBindingTrails DEF IInv, Shape
  <2>4. pass'.step = "reread" /\ pass'.cur = pass.cur /\ bindingHeld' = bindingHeld
    BY <1>2, <2>1 DEF Proceed, Goto, PassRecord
  <2>5. HeldIsCurrent'
    BY <2>4 DEF IInv, HeldIsCurrent, cur, BindingSteps
  <2>. QED BY <2>3, <2>4, <2>5, QuietInv DEF Trail, Steps
<1>. QED BY <1>1, <1>2 DEF CreateBinding

\* UpdateBinding keeps what is known of the bindings and of the sweep.
LEMMA UpdateBindingInv == ASSUME IInv, UpdateBinding PROVE Trail' /\ Claims'
<1> DEFINE switched == [pass.binding EXCEPT !.class = pass.ns.label]
<1>1. CASE UNCHANGED bindingStore /\ Return("retry")
  BY <1>1, ReturnInv
<1>2. CASE /\ WriteBinding(cur, switched)
           /\ Proceed([pass EXCEPT !.binding = switched, !.step = "reread"])
  <2>1. /\ pass \in PassRecord /\ cur \in Namespaces /\ pass.ns.label # NoLabel
        /\ pass.ns \in NamespaceObject /\ pass.binding \in BindingObject
    BY DEF IInv, TypeOK, PassRecord, PassShape, UpdateBinding, At, BindingSteps
  <2>2. switched \in BindingObject
    BY <2>1 DEF NamespaceObject, BindingObject
  <2>3. /\ WriteBinding(cur, switched) /\ bindingHeld' = bindingHeld
        /\ pass' = [pass EXCEPT !.binding = switched, !.step = "reread"]
    BY <1>2 DEF Proceed
  <2> HIDE DEF switched
  <2>4. CacheTrails'
    BY <2>1, <2>2, <2>3, WriteBindingTrails DEF IInv, Shape
  <2>5. pass'.step = "reread" /\ pass'.cur = pass.cur
    BY <2>1, <2>3 DEF PassRecord
  <2>6. HeldIsCurrent'
    BY <2>3, <2>5 DEF IInv, HeldIsCurrent, cur, BindingSteps
  <2>. QED BY <2>4, <2>5, <2>6, QuietInv DEF Trail, Steps
<1>. QED BY <1>1, <1>2 DEF UpdateBinding

\* RereadBinding keeps what is known of the bindings and of the sweep.
LEMMA RereadBindingInv == ASSUME IInv, RereadBinding PROVE Trail' /\ Claims'
<1> DEFINE found == bindingCache[cur]
           held == [pass EXCEPT !.binding = found]
<1>1. /\ pass \in PassRecord /\ cur \in Namespaces /\ pass.applied = {} /\ ~Deleting
      /\ found \in BindingObject \cup {Absent}
  BY DEF IInv, TypeOK, ClusterTypeOK, PassShape, RereadBinding, At
<1>2. UNCHANGED bindingStore
  BY DEF RereadBinding
<1>3. CASE found = Absent
  BY <1>2, <1>3, ReturnInv DEF RereadBinding
<1>4. CASE found # Absent
  <2>1. /\ held \in PassRecord /\ found \in BindingObject
        /\ held.cur = pass.cur /\ held.ns = pass.ns
        /\ held.binding = found /\ held.applied = {}
    BY <1>1, <1>4 DEF PassRecord
  <2>2. found.inventory \in SUBSET Refs
    BY <2>1 DEF BindingObject
  <2>3. /\ bindingHeld' = IF bindingEvents[cur] = << >> THEN {cur} ELSE {}
        /\ pass' = WithBinding(held)
    BY <1>1, <1>4 DEF RereadBinding, TakeCachedBinding
  <2> HIDE DEF held
  <2>4. CASE ClassMissing
    <3>1. pass' = SweepOf(held, found.inventory)
      BY <2>1, <2>3, <2>4 DEF WithBinding
    <3>2. pass'.cur = pass.cur /\ pass'.binding = found
      BY <2>1, <2>2, <3>1, SweepOfShape
    <3>3. Claims'
      BY <1>1, <2>1, <2>2, <3>1, SweepClaims DEF Deleting
    <3>. QED BY <1>1, <1>2, <2>3, <3>2, <3>3, TakenIsCurrent
  <2>5. CASE ~ClassMissing
    <3>1. pass' = PrepareOf(held, << >>)
      BY <2>3, <2>5 DEF WithBinding
    <3>2. << >> \in Seq(Templates) /\ DOMAIN << >> = {}
      BY EmptySeq
    <3>3. Claims' /\ pass'.cur = pass.cur /\ pass'.binding = found
      BY <1>1, <2>1, <3>1, <3>2, PrepareClaims DEF cur, Deleting
    <3>. QED BY <1>1, <1>2, <2>3, <3>3, TakenIsCurrent
  <2>. QED BY <2>4, <2>5
<1>. QED BY <1>3, <1>4

\* Prepare keeps what is known of the bindings and of the sweep.
LEMMA PrepareInv == ASSUME IInv, Prepare PROVE Trail' /\ Claims'
<1> DEFINE t == pass.resources[Len(pass.todo) + 1]
           prepared == Append(pass.todo, t)
<1>1. UNCHANGED bindingStore /\ owner' = owner /\ pass.step = "prepare" /\ bindingHeld' = bindingHeld
  BY DEF Prepare, objectVars, At, Proceed
<1>2. CASE Refusal(t) = "none" /\ pass' = PrepareOf(pass, prepared)
  <2>1. /\ pass.todo \in Seq(Templates) /\ pass \in PassRecord /\ ~pass.ns.deleting
        /\ pass.binding \in BindingObject
    BY <1>1, WorkingPass DEF IInv, Shape, Reconciling, Deleting
  <2>2. owner[ObjectOf(RefOf(t, cur))] \in {pass.ns.uid, Absent, Unowned}
    BY <1>2 DEF Refusal, CanManage, IsManagedBy
  <2>3. t \in Templates
    BY <1>1, NextToPrepare DEF IInv, Shape
  <2> HIDE DEF t
  <2>4. /\ prepared \in Seq(Templates)
        /\ \A i \in DOMAIN prepared : prepared[i] = t \/ (i \in DOMAIN pass.todo /\ prepared[i] = pass.todo[i])
    BY <2>1, <2>3, AppendProperties
  <2> HIDE DEF prepared
  <2>5. ASSUME NEW i \in DOMAIN prepared
        PROVE  owner'[ObjectOf(RefOf(prepared[i], cur))] \in {pass.ns.uid, Absent, Unowned}
    BY <1>1, <2>2, <2>4 DEF IInv, ClaimsHold, Claimable
  <2>6. Claims' /\ pass'.cur = pass.cur /\ pass'.binding = pass.binding
    BY <1>2, <2>1, <2>4, <2>5, PrepareClaims DEF cur
  <2>. QED BY <1>1, <2>6, CopyKept DEF BindingSteps
<1>3. ASSUME NEW reason, pass' = FailWith(reason) PROVE Trail' /\ Claims'
  BY <1>1, <1>3, FailInv
<1>. QED BY <1>2, <1>3 DEF Prepare, Proceed

\* ApplyResource keeps what is known of the bindings and of the sweep.
LEMMA ApplyResourceInv == ASSUME IInv, ApplyResource PROVE Trail' /\ Claims'
<1> DEFINE t == Head(pass.todo)
           rest == Tail(pass.todo)
           p == [pass EXCEPT !.applied = @ \cup {RefOf(t, cur)}]
<1>0. UNCHANGED bindingStore
  BY DEF ApplyResource
<1>1. /\ At("apply") /\ pass.step = "apply" /\ t \in Templates /\ rest \in Seq(Templates)
      /\ cur \in Namespaces
  BY NextToApply, WorkingPass DEF ApplyResource, IInv, Shape, At
<1>2. CASE Apply(t) /\ Proceed(ApplyOf(p, rest))
  <2>1. /\ p \in PassRecord
        /\ p.cur = pass.cur /\ p.ns = pass.ns /\ p.binding = pass.binding
    BY <1>1, <1>2, ApplyTypes, WorkingPass DEF IInv, Shape, PassRecord
  <2>2. ~p.ns.deleting
    BY <1>1, <2>1, WorkingPass DEF IInv, Shape, Reconciling, Deleting
  <2>3. ASSUME NEW i \in DOMAIN rest
        PROVE  owner'[ObjectOf(RefOf(rest[i], cur))] \in {pass.ns.uid, Absent, Unowned}
    <3>1. pass.todo \in Seq(Templates) /\ pass.todo # << >>
      BY <1>1, WorkingPass DEF IInv, Shape, PassShape
    <3>2. i + 1 \in DOMAIN pass.todo /\ rest[i] = pass.todo[i + 1]
      BY <3>1, HeadTailProperties, EmptySeq
    <3>3. Claimable(RefOf(pass.todo[i + 1], cur))
      BY <1>1, <3>2 DEF IInv, ClaimsHold
    <3>4. owner' = [owner EXCEPT ![ObjectOf(RefOf(t, cur))] = pass.ns.uid]
      BY <1>1, <1>2, ApplyTypes DEF IInv, Shape
    <3>5. rest[i] \in Templates
      BY <1>1, ElementOfSeq
    <3>6. ObjectOf(RefOf(rest[i], cur)) \in Objects
      BY <1>1, <3>5, RefsAndObjects
    <3>7. owner \in [Objects -> UIDs \cup {Absent, Unowned}]
      BY DEF IInv, TypeOK, ClusterTypeOK
    <3> HIDE DEF rest, t
    <3>. QED BY <3>2, <3>3, <3>4, <3>6, <3>7 DEF Claimable
  <2>4. pass' = ApplyOf(p, rest) /\ bindingHeld' = bindingHeld
    BY <1>2 DEF Proceed
  <2>5. p.binding \in BindingObject
    BY <1>1, <2>1, WorkingPass DEF IInv, Shape
  <2> HIDE DEF p, rest
  <2>6. Claims' /\ pass'.cur = pass.cur /\ pass'.binding = pass.binding
    BY <1>1, <2>1, <2>2, <2>3, <2>4, <2>5, ApplyClaims DEF cur
  <2>. QED BY <1>0, <1>1, <2>4, <2>6, CopyKept DEF BindingSteps
<1>3. ASSUME NEW reason, Proceed(FailWith(reason)) PROVE Trail' /\ Claims'
  BY <1>0, <1>1, <1>3, FailInv DEF Proceed
<1>. QED BY <1>2, <1>3 DEF ApplyResource

\* What the sweep of this pass has dealt with so far stays dealt with.
LEMMA SweepInv ==
  ASSUME IInv, pass.step \in {"sweep", "delete"}, NEW r \in pass.stale,
         pass' = SweepOf(pass, pass.stale \ {r}), bindingHeld' = bindingHeld,
         UNCHANGED bindingStore,
         \A o \in Objects : owner'[o] \in {owner[o], Absent, Unowned},
         owner'[ObjectOf(r)] = Absent
  PROVE  Trail' /\ Claims'
<1>1. /\ pass \in PassRecord /\ pass.stale \ {r} \in SUBSET Refs
      /\ pass.binding.inventory \in SUBSET Refs
  BY WorkingPass DEF IInv, Shape
<1>2. Due \in SUBSET Refs
  BY <1>1 DEF Due, ClusterScoped
<1>3. ASSUME NEW q \in Due \ ((pass.stale \ {r}) \cup pass.applied)
      PROVE  owner'[ObjectOf(q)] \in {Absent, Unowned}
  <2>1. CASE q = r
    BY <2>1
  <2>2. CASE q # r
    <3>1. owner[ObjectOf(q)] \in {Absent, Unowned}
      BY <1>3, <2>2 DEF IInv, SweptIsGone
    <3>2. ObjectOf(q) \in Objects
      BY <1>2, <1>3, RefsAndObjects
    <3>. QED BY <3>1, <3>2
  <2>. QED BY <2>1, <2>2
<1>4. Claims'
  BY <1>1, <1>3, SweepClaims DEF Due, Deleting
<1>5. pass'.cur = pass.cur /\ pass'.binding = pass.binding
  BY <1>1, SweepOfShape
<1>. QED BY <1>4, <1>5, CopyKept DEF BindingSteps

\* CheckStale keeps what is known of the bindings and of the sweep.
LEMMA CheckStaleInv == ASSUME IInv, CheckStale PROVE Trail' /\ Claims'
<1> SUFFICES ASSUME NEW r \in pass.stale,
                    Proceed(IF owner[ObjectOf(r)] = Absent THEN SweepOf(pass, pass.stale \ {r})
                            ELSE IF IsManagedBy(ObjectOf(r), pass.ns.uid)
                                 THEN [pass EXCEPT !.target = r, !.step = "delete"]
                            ELSE FailWith(SweepFailed))
             PROVE  Trail' /\ Claims'
  BY DEF CheckStale
<1>1. /\ pass.step = "sweep" /\ UNCHANGED bindingStore /\ owner' = owner
      /\ bindingHeld' = bindingHeld
  BY DEF CheckStale, At, objectVars, Proceed
<1>2. CASE owner[ObjectOf(r)] = Absent
  BY <1>1, <1>2, SweepInv DEF Proceed
<1>3. CASE owner[ObjectOf(r)] # Absent /\ IsManagedBy(ObjectOf(r), pass.ns.uid)
  <2>1. /\ pass'.step = "delete" /\ pass'.target = r /\ pass'.stale = pass.stale
        /\ pass'.applied = pass.applied /\ pass'.cur = pass.cur /\ pass'.ns = pass.ns
        /\ pass'.binding = pass.binding
    BY <1>1, <1>3, WorkingPass DEF Proceed, IInv, Shape, PassRecord
  <2>2. Due' = Due
    BY <2>1 DEF Due, Deleting, ClusterScoped
  <2>3. Claims'
    BY <1>1, <1>3, <2>1, <2>2
       DEF IInv, Claims, SweptIsGone, ClaimsHold, Claimable, IsManagedBy, At
  <2>. QED BY <1>1, <2>1, <2>3, CopyKept DEF BindingSteps
<1>4. CASE pass' = FailWith(SweepFailed)
  BY <1>1, <1>4, FailInv
<1>. QED BY <1>2, <1>3, <1>4 DEF Proceed

\* DeleteStale keeps what is known of the bindings and of the sweep.
LEMMA DeleteStaleInv == ASSUME IInv, DeleteStale PROVE Trail' /\ Claims'
<1>1. /\ pass.step = "delete" /\ UNCHANGED bindingStore /\ bindingHeld' = bindingHeld
      /\ owner' = [owner EXCEPT ![ObjectOf(pass.target)] = Absent]
      /\ pass' = SweepOf(pass, pass.stale \ {pass.target})
      /\ pass.target \in pass.stale
  BY DEF DeleteStale, At, Proceed, SetObject, IInv, PassShape
<1>2. ObjectOf(pass.target) \in Objects
  BY <1>1, WorkingPass, RefsAndObjects DEF IInv, Shape
<1>3. /\ \A o \in Objects : owner'[o] \in {owner[o], Absent, Unowned}
      /\ owner'[ObjectOf(pass.target)] = Absent
  BY <1>1, <1>2 DEF IInv, TypeOK, ClusterTypeOK
<1>. QED BY <1>1, <1>3, SweepInv

\* A status write, after which the pass returns.
LEMMA StatusReturnInv ==
  ASSUME IInv, pass.step \in {"recordReady", "recordFailure"},
         NEW inventory \in SUBSET Refs, NEW reason \in Reasons \cup {"none"}, NEW result,
         StatusUpdate(inventory, reason), Return(result)
  PROVE  Trail' /\ Claims'
<1> DEFINE new == [pass.binding EXCEPT !.inventory = inventory, !.reason = reason]
<1>1. new \in BindingObject /\ cur \in Namespaces
  BY WorkingPass DEF IInv, Shape, BindingObject
<1>2. WriteBinding(cur, new)
  BY DEF StatusUpdate
<1> HIDE DEF new
<1>3. CacheTrails'
  BY <1>1, <1>2, WriteBindingTrails DEF IInv, Shape
<1>. QED BY <1>3, IdleInv DEF Return, Trail

\* RecordReady keeps what is known of the bindings and of the sweep.
LEMMA RecordReadyInv == ASSUME IInv, RecordReady PROVE Trail' /\ Claims'
<1>1. CASE StatusUpdate(pass.applied, "BindingRecorded") /\ Return("periodic")
  BY <1>1, WorkingPass, StatusReturnInv DEF RecordReady, At, Reasons, IInv, Shape
<1>. QED BY <1>1, ReturnInv DEF RecordReady

\* RecordFailure keeps what is known of the bindings and of the sweep.
LEMMA RecordFailureInv == ASSUME IInv, RecordFailure PROVE Trail' /\ Claims'
<1> DEFINE inventory == MergeResourceRefs(pass.binding.inventory, pass.applied)
           result == IF Deleting \/ ClassMissing THEN "retry" ELSE "periodic"
<1>1. CASE StatusUpdate(inventory, pass.reason) /\ Return(result)
  <2>1. inventory \in SUBSET Refs
    BY WorkingPass DEF RecordFailure, At, MergeResourceRefs, IInv, Shape
  <2>2. pass.reason \in Reasons \cup {"none"}
    BY DEF IInv, TypeOK, PassRecord
  <2> HIDE DEF inventory, result
  <2>. QED BY <1>1, <2>1, <2>2, StatusReturnInv DEF RecordFailure, At
<1>. QED BY <1>1, ReturnInv DEF RecordFailure

\* DeleteBinding keeps what is known of the bindings and of the sweep.
LEMMA DeleteBindingInv == ASSUME IInv, DeleteBinding PROVE Trail' /\ Claims'
<1>1. /\ cur \in Namespaces /\ WriteBinding(cur, Absent) /\ bindingHeld' = bindingHeld
      /\ pass' = [pass EXCEPT !.step = "removeFinalizer"]
  BY DEF DeleteBinding, Proceed, Goto, IInv, PassShape, At
<1>2. CacheTrails'
  BY <1>1, WriteBindingTrails DEF IInv, Shape
<1>3. pass'.step = "removeFinalizer" /\ pass'.cur = pass.cur
  BY <1>1 DEF IInv, TypeOK, PassRecord
<1>4. HeldIsCurrent'
  BY <1>1, <1>3 DEF IInv, HeldIsCurrent, cur, BindingSteps
<1>. QED BY <1>2, <1>3, <1>4, QuietInv DEF Trail, Steps

\* RemoveFinalizer keeps what is known of the bindings and of the sweep.
LEMMA RemoveFinalizerInv == ASSUME IInv, RemoveFinalizer PROVE Trail' /\ Claims'
BY ReturnInv DEF RemoveFinalizer

\* CallFails keeps what is known of the bindings and of the sweep.
LEMMA CallFailsInv == ASSUME IInv, CallFails PROVE Trail' /\ Claims'
<1>1. UNCHANGED bindingStore
  BY DEF CallFails, Fault
<1>2. CASE Return("retry")
  BY <1>1, <1>2, ReturnInv
<1>3. ASSUME pass.step \in {"prepare", "apply", "sweep", "delete"}, NEW reason,
             Proceed(FailWith(reason))
      PROVE  Trail' /\ Claims'
  BY <1>1, <1>3, FailInv DEF Proceed
<1>. QED BY <1>2, <1>3 DEF CallFails

\* A lost reply keeps what is known of the bindings and of the sweep.
LEMMA ReplyLostInv ==
  ASSUME IInv,
         NamespaceReplyLost \/ BindingReplyLost \/ ApplyReplyLost \/ DeleteReplyLost
  PROVE  Trail' /\ Claims'
<1>1. CASE NamespaceReplyLost
  BY <1>1, ReturnInv DEF NamespaceReplyLost
<1>2. CASE BindingReplyLost
  <2>1. PICK v \in BindingObject \cup {Absent} : WriteBinding(cur, v)
    BY <1>2, LostBindingWrite DEF IInv, Shape
  <2>2. CacheTrails'
    BY <1>2, <2>1, LostBindingWrite, WriteBindingTrails DEF IInv, Shape
  <2>. QED BY <1>2, <2>2, IdleInv DEF BindingReplyLost, Return, Trail
<1>3. CASE ApplyReplyLost \/ DeleteReplyLost
  BY <1>3, FailInv DEF ApplyReplyLost, DeleteReplyLost, Proceed, At
<1>. QED BY <1>1, <1>2, <1>3

\* What a pass of Reconcile relies on between its calls survives every
\* interleaving with users, watches, failing calls and restarts: optimistic
\* locking accepts only the live binding, what the sweep has passed over is gone,
\* and what is about to be applied to or deleted is nobody else's.
THEOREM InductiveInvariant == Spec => []IInv
<1>1. Init => Trail /\ Claims
  <2> SUFFICES ASSUME Init PROVE Trail /\ Claims
    OBVIOUS
  <2>1. CacheTrails
    BY DEF Init, ClusterInit, CacheTrails, Latest
  <2>. QED BY <2>1 DEF Init, ClusterInit, Trail, Claims, HeldIsCurrent, SweptIsGone, ClaimsHold,
           At, Idle, BindingSteps
<1>2. IInv /\ Shape' /\ [Next]_vars => IInv'
  <2> SUFFICES ASSUME IInv, Shape', [Next]_vars PROVE Trail' /\ Claims'
    BY DEF IInv, Shape, Trail, Claims
  <2>1. CASE PassStep
    BY <2>1, ReadClassInv, AddFinalizerInv, LookupInv, CreateBindingInv, UpdateBindingInv,
       RereadBindingInv, PrepareInv, ApplyResourceInv, CheckStaleInv, DeleteStaleInv,
       RecordReadyInv, RecordFailureInv, DeleteBindingInv, RemoveFinalizerInv DEF PassStep
  <2>2. CASE UNCHANGED vars
    <3>1. UNCHANGED <<bindingVars, workVars, objectVars>>
      BY <2>2 DEF vars, clusterVars
    <3>2. Trail'
      BY <3>1 DEF IInv, Trail, CacheTrails, HeldIsCurrent, bindingVars, bindingStore, workVars, cur
    <3>3. pass' = pass /\ owner' = owner
      BY <3>1 DEF workVars, objectVars
    <3>. QED BY <3>2, <3>3, PassUndisturbed DEF Claims
  <2>. QED BY <2>1, <2>2, EnvironmentInv, DeliveryInv, StartInv, CallFailsInv,
           ReplyLostInv, RestartInv DEF Next
<1>3. Shape /\ Trail /\ Claims <=> IInv
  BY DEF Shape, Trail, Claims, IInv
<1>. QED BY <1>1, <1>2, <1>3, ShapeInvariant, PTL DEF Spec

-----------------------------------------------------------------------------
\* A write to the pass's own binding drops from no other.
LEMMA OthersKept ==
  ASSUME IInv, cur \in Namespaces, NEW v \in BindingObject \cup {Absent}, WriteBinding(cur, v),
         \A r \in Recorded(binding[cur]) \ Recorded(v) :
           v # Absent \/ cur \in bindingHeld =>
             \/ owner[ObjectOf(r)] \in {Absent, Unowned}
             \/ pass.ns.deleting /\ r.namespace # Cluster
  PROVE  KeepsRecords
<1>1. binding' = [binding EXCEPT ![cur] = v] /\ binding \in [Namespaces -> BindingObject \cup {Absent}]
  BY WriteBindingTypes DEF IInv, Shape, TypeOK, ClusterTypeOK
<1>2. ASSUME NEW n \in Namespaces, n # cur PROVE Dropped(n) = {}
  BY <1>1, <1>2 DEF Dropped
<1>3. binding'[cur] = v
  BY <1>1
<1>. QED BY <1>2, <1>3 DEF KeepsRecords, Dropped

\* The sweep has left nothing owned of what it was responsible for.
LEMMA StatusKeeps ==
  ASSUME IInv, NEW inventory \in SUBSET Refs, NEW reason \in Reasons \cup {"none"},
         pass.step \in {"recordReady", "recordFailure"},
         StatusUpdate(inventory, reason),
         \A r \in pass.binding.inventory \ inventory : owner[ObjectOf(r)] \in {Absent, Unowned}
  PROVE  KeepsRecords
<1> DEFINE new == [pass.binding EXCEPT !.inventory = inventory, !.reason = reason]
<1>1. new \in BindingObject /\ new.inventory = inventory /\ cur \in Namespaces
  BY WorkingPass DEF IInv, Shape, BindingObject
<1>2. WriteBinding(cur, new) /\ binding[cur] = pass.binding
  BY DEF StatusUpdate, HoldsBinding, IInv, HeldIsCurrent, BindingSteps
<1>3. Recorded(binding[cur]) \ Recorded(new) \subseteq pass.binding.inventory \ inventory
  BY <1>1, <1>2, SentinelAssumption DEF Recorded
<1> HIDE DEF new
<1>. QED BY <1>1, <1>2, <1>3, OthersKept

\* A reference leaves an inventory only once its object is gone or disowned: the
\* status writes of reconcileBinding and updateBindingFailureStatus, and the
\* deletion of a binding that the pass holds in its current version.
THEOREM InventoryKept == Spec => RecordedUntilDeleted
<1>1. IInv /\ [Next]_vars => [KeepsRecords]_vars
  <2> SUFFICES ASSUME IInv, Next PROVE KeepsRecords
    OBVIOUS
  <2>1. CASE ~PassActs
    BY <2>1 DEF KeepsRecords
  <2>2. CASE binding' = binding
    BY <2>2 DEF KeepsRecords, Dropped
  <2>3. CASE At("create") /\ WriteBinding(cur, NewBinding) /\ binding[cur] = Absent
    <3>1. cur \in Namespaces /\ pass.ns \in NamespaceObject /\ pass.ns.label # NoLabel
      BY <2>3 DEF At, IInv, TypeOK, PassRecord, PassShape, Deleting
    <3>2. NewBinding \in BindingObject
      BY <3>1 DEF NewBinding, NamespaceObject, BindingObject, Reasons
    <3>. QED BY <2>3, <3>1, <3>2, OthersKept DEF Recorded
  <2>4. CASE /\ At("update") /\ HoldsBinding
             /\ WriteBinding(cur, [pass.binding EXCEPT !.class = pass.ns.label])
    <3> DEFINE switched == [pass.binding EXCEPT !.class = pass.ns.label]
    <3>1. /\ cur \in Namespaces /\ pass.ns \in NamespaceObject /\ pass.ns.label # NoLabel
          /\ pass.binding \in BindingObject /\ binding[cur] = pass.binding
      BY <2>4 DEF At, IInv, TypeOK, PassRecord, PassShape, Deleting,
         HoldsBinding, HeldIsCurrent, BindingSteps
    <3>2. switched \in BindingObject /\ switched.inventory = pass.binding.inventory
      BY <3>1 DEF NamespaceObject, BindingObject
    <3>3. WriteBinding(cur, switched)
      BY <2>4
    <3> HIDE DEF switched
    <3>4. Recorded(binding[cur]) \ Recorded(switched) = {}
      BY <3>1, <3>2, SentinelAssumption DEF Recorded
    <3>. QED BY <3>1, <3>2, <3>3, <3>4, OthersKept
  <2>5. CASE At("recordReady") /\ StatusUpdate(pass.applied, "BindingRecorded")
    <3>1. pass.step = "recordReady" /\ pass.applied \in SUBSET Refs /\ pass.stale = {} /\ ~Deleting
      BY <2>5, WorkingPass DEF At, IInv, Shape, PassShape, Reconciling
    <3>2. \A r \in pass.binding.inventory \ pass.applied : owner[ObjectOf(r)] \in {Absent, Unowned}
      BY <3>1 DEF IInv, SweptIsGone, Due
    <3>. QED BY <2>5, <3>1, <3>2, StatusKeeps DEF Reasons
  <2>6. CASE /\ At("recordFailure")
             /\ StatusUpdate(MergeResourceRefs(pass.binding.inventory, pass.applied), pass.reason)
    <3> DEFINE inventory == MergeResourceRefs(pass.binding.inventory, pass.applied)
    <3>1. pass.step = "recordFailure" /\ pass.reason \in Reasons \cup {"none"}
      BY <2>6 DEF At, IInv, TypeOK, PassRecord
    <3>2. inventory \in SUBSET Refs /\ pass.binding.inventory \ inventory = {}
      BY <3>1, WorkingPass DEF MergeResourceRefs, IInv, Shape
    <3>3. StatusUpdate(inventory, pass.reason)
      BY <2>6
    <3> HIDE DEF inventory
    <3>. QED BY <3>1, <3>2, <3>3, StatusKeeps
  <2>7. CASE At("deleteBinding") /\ WriteBinding(cur, Absent)
    <3>1. /\ cur \in Namespaces /\ WriteBinding(cur, Absent) /\ pass.step = "deleteBinding"
          /\ pass.stale = {} /\ pass.applied = {}
      BY <2>7 DEF At, IInv, PassShape
    <3>2. ASSUME cur \in bindingHeld, NEW r \in Recorded(binding[cur])
          PROVE  \/ owner[ObjectOf(r)] \in {Absent, Unowned}
                 \/ pass.ns.deleting /\ r.namespace # Cluster
      <4>1. r \in pass.binding.inventory
        BY <3>1, <3>2, SentinelAssumption DEF IInv, HeldIsCurrent, PassShape, BindingSteps, Recorded
      <4>2. CASE r \in Due
        BY <3>1, <4>2 DEF IInv, SweptIsGone
      <4>3. CASE r \notin Due
        BY <4>1, <4>3 DEF Due, Deleting, ClusterScoped
      <4>. QED BY <4>2, <4>3
    <3>. QED BY <3>1, <3>2, OthersKept DEF Recorded
  <2>8. CASE ReadClass \/ AddFinalizer \/ Lookup \/ RereadBinding \/ Prepare
    BY <2>2, <2>8 DEF ReadClass, AddFinalizer, Lookup, RereadBinding, Prepare, bindingStore
  <2>9. CASE ApplyResource \/ CheckStale \/ DeleteStale \/ RemoveFinalizer
    BY <2>2, <2>9 DEF ApplyResource, CheckStale, DeleteStale, RemoveFinalizer, bindingStore
  <2>10. CASE \/ CallFails \/ NamespaceReplyLost \/ ApplyReplyLost \/ DeleteReplyLost
              \/ Restart \/ \E n \in Namespaces : Start(n)
    BY <2>2, <2>10 DEF CallFails, NamespaceReplyLost, ApplyReplyLost, DeleteReplyLost, Restart,
       Start, bindingVars, bindingStore
  <2>11. CASE Delivery \/ (Environment /\ UNCHANGED <<workVars, budgetVars>>)
    BY <2>1, <2>11 DEF Delivery, DeliverNamespace, DeliverBinding, DeliverClass, Requeue, workVars,
       PassActs
  <2>12. CASE UNCHANGED bindingStore
    BY <2>2, <2>12 DEF bindingStore
  <2>13. CASE \/ CreateBinding \/ UpdateBinding \/ RecordReady \/ RecordFailure \/ DeleteBinding
              \/ BindingReplyLost
    BY <2>3, <2>4, <2>5, <2>6, <2>7, <2>12, <2>13 DEF CreateBinding, UpdateBinding, RecordReady,
       RecordFailure, DeleteBinding, BindingReplyLost
  <2>. QED BY <2>8, <2>9, <2>10, <2>11, <2>13 DEF Next, PassStep
<1>. QED BY <1>1, InductiveInvariant, PTL DEF Spec, RecordedUntilDeleted

\* A call of a pass, made or failed or its reply lost.
Call == \/ PassStep \/ CallFails
        \/ NamespaceReplyLost \/ BindingReplyLost \/ ApplyReplyLost \/ DeleteReplyLost

\* A call of a pass changes somebody's object only if it is the pass's own namespace's.
LEMMA OwnObjectsOnly ==
  ASSUME IInv, Call
  PROVE  \A o \in Objects : Changes(o) /\ owner[o] \in UIDs => owner[o] = pass.ns.uid
<1> DEFINE OwnOnly == \A o \in Objects : Changes(o) /\ owner[o] \in UIDs => owner[o] = pass.ns.uid
<1> SUFFICES OwnOnly
  OBVIOUS
<1>1. CASE UNCHANGED objectVars
  BY <1>1 DEF Changes, objectVars
<1>2. ASSUME NEW r \in Refs, Claimable(r), NEW who, NEW what, SetObject(ObjectOf(r), who, what)
      PROVE  OwnOnly
  <2>1. /\ owner' = [owner EXCEPT ![ObjectOf(r)] = who]
        /\ content' = [content EXCEPT ![ObjectOf(r)] = what]
        /\ owner \in [Objects -> UIDs \cup {Absent, Unowned}]
        /\ content \in [Objects -> Bodies \cup {Blank, Drifted}]
    BY <1>2 DEF SetObject, IInv, TypeOK, ClusterTypeOK
  <2>2. ASSUME NEW o \in Objects, Changes(o) PROVE o = ObjectOf(r)
    BY <2>1, <2>2 DEF Changes
  <2>. QED BY <1>2, <2>2, SentinelAssumption DEF Claimable
<1>3. CASE At("apply") /\ Apply(Head(pass.todo))
  <2>1. /\ pass.todo \in Seq(Templates) /\ pass.todo # << >> /\ cur \in Namespaces
    BY <1>3, WorkingPass DEF IInv, Shape, PassShape, At
  <2>2. Head(pass.todo) \in Templates /\ RefOf(Head(pass.todo), cur) \in Refs
    BY <1>3, <2>1, NextToApply, RefsAndObjects DEF IInv, Shape
  <2>3. Claimable(RefOf(Head(pass.todo), cur))
    <3>1. 1 \in DOMAIN pass.todo /\ Head(pass.todo) = pass.todo[1]
      BY <2>1, EmptySeq
    <3>. QED BY <1>3, <3>1 DEF IInv, ClaimsHold, At
  <2>4. \E who, what : SetObject(ObjectOf(RefOf(Head(pass.todo), cur)), who, what)
    BY <1>3 DEF Apply
  <2>. QED BY <1>2, <2>2, <2>3, <2>4
<1>4. CASE ApplyResource
  BY <1>1, <1>3, <1>4 DEF ApplyResource
<1>5. CASE ApplyReplyLost
  BY <1>3, <1>5 DEF ApplyReplyLost
<1>6. CASE DeleteStale \/ DeleteReplyLost
  <2>1. pass.target \in Refs /\ Claimable(pass.target)
    BY <1>6, WorkingPass DEF DeleteStale, DeleteReplyLost, At, IInv, Shape, PassShape, ClaimsHold
  <2>. QED BY <1>2, <1>6, <2>1 DEF DeleteStale, DeleteReplyLost
<1>7. CASE \/ ReadClass \/ AddFinalizer \/ Lookup \/ CreateBinding \/ UpdateBinding
           \/ RereadBinding \/ Prepare \/ CheckStale
  BY <1>1, <1>7 DEF ReadClass, AddFinalizer, Lookup, CreateBinding, UpdateBinding,
     RereadBinding, Prepare, CheckStale
<1>8. CASE \/ RecordReady \/ RecordFailure \/ DeleteBinding \/ RemoveFinalizer \/ CallFails
           \/ NamespaceReplyLost \/ BindingReplyLost
  BY <1>1, <1>8 DEF RecordReady, RecordFailure, DeleteBinding, RemoveFinalizer, CallFails,
     NamespaceReplyLost, BindingReplyLost
<1>. QED BY <1>4, <1>5, <1>6, <1>7, <1>8 DEF Call, PassStep

\* What a step does to an object of somebody's is done by a pass of that namespace.
LEMMA OwnersSpared == ASSUME IInv, Next PROVE SparesForeignOwners
<1>1. CASE ~PassActs
  BY <1>1 DEF SparesForeignOwners
<1>2. CASE UNCHANGED objectVars
  BY <1>2 DEF SparesForeignOwners, Changes, objectVars
<1>3. CASE Call
  BY <1>3, OwnObjectsOnly DEF SparesForeignOwners
<1>4. CASE Restart \/ \E n \in Namespaces : Start(n)
  BY <1>2, <1>4 DEF Restart, Start
<1>5. CASE Delivery \/ (Environment /\ UNCHANGED <<workVars, budgetVars>>)
  BY <1>1, <1>5 DEF Delivery, DeliverNamespace, DeliverBinding, DeliverClass, Requeue, workVars,
     PassActs
<1>. QED BY <1>1, <1>2, <1>3, <1>4, <1>5 DEF Next, Call

\* No pass applies to or deletes what carries another namespace's UID, although
\* ensureCanManage and the sweep's Get look at it some steps earlier.
THEOREM ForeignOwnersSpared == Spec => ForeignOwnersUntouched
BY OwnersSpared, InductiveInvariant, PTL DEF Spec, ForeignOwnersUntouched

\* Between the first apply and the last deletion a pass never just returns.
LEMMA WorkGoesOn ==
  ASSUME Shape, pass.step \in {"apply", "sweep", "delete"}, pass'.step = "idle"
  PROVE  ~(ApplyResource \/ CheckStale \/ DeleteStale \/ CallFails \/ ApplyReplyLost \/ DeleteReplyLost)
<1>1. ASSUME NEW reason, pass' = FailWith(reason) PROVE FALSE
  BY <1>1 DEF FailWith, Shape, TypeOK, PassRecord
<1>2. ASSUME NEW p \in PassRecord, NEW s \in SUBSET Refs, pass' = SweepOf(p, s) PROVE FALSE
  BY <1>2, SweepOfShape DEF AfterSweep
<1>3. ASSUME ApplyResource PROVE FALSE
  <2> DEFINE t == Head(pass.todo)
             rest == Tail(pass.todo)
             p == [pass EXCEPT !.applied = @ \cup {RefOf(t, cur)}]
  <2>1. At("apply") /\ t \in Templates /\ rest \in Seq(Templates)
    BY <1>3, NextToApply DEF ApplyResource
  <2>2. CASE Apply(t) /\ pass' = ApplyOf(p, rest)
    <3> DEFINE q == [p EXCEPT !.todo = rest]
    <3>1. p \in PassRecord /\ p.binding = pass.binding
      BY <2>1, <2>2, ApplyTypes, WorkingPass DEF At, PassRecord
    <3>2. p.binding.inventory \ p.applied \in SUBSET Refs
      BY <2>1, <3>1, WorkingPass DEF At
    <3> HIDE DEF p, rest
    <3>3. q \in PassRecord
      BY <2>1, <3>1 DEF PassRecord
    <3>4. CASE rest = << >>
      <4>1. pass' = SweepOf(q, p.binding.inventory \ p.applied)
        BY <2>2, <3>4 DEF ApplyOf
      <4> HIDE DEF q
      <4>. QED BY <1>2, <3>2, <3>3, <4>1
    <3>5. CASE rest # << >>
      BY <2>2, <3>1, <3>5 DEF ApplyOf, PassRecord
    <3>. QED BY <3>4, <3>5
  <2>. QED BY <1>1, <1>3, <2>2 DEF ApplyResource, Proceed
<1>4. ASSUME CheckStale PROVE FALSE
  <2> PICK r \in pass.stale :
        Proceed(IF owner[ObjectOf(r)] = Absent THEN SweepOf(pass, pass.stale \ {r})
                ELSE IF IsManagedBy(ObjectOf(r), pass.ns.uid)
                     THEN [pass EXCEPT !.target = r, !.step = "delete"]
                ELSE FailWith(SweepFailed))
    BY <1>4 DEF CheckStale
  <2>1. pass \in PassRecord /\ pass.stale \ {r} \in SUBSET Refs
    BY WorkingPass
  <2>2. pass' # [pass EXCEPT !.target = r, !.step = "delete"]
    BY <2>1 DEF PassRecord
  <2>. QED BY <1>1, <1>2, <2>1, <2>2 DEF Proceed
<1>5. ASSUME DeleteStale PROVE FALSE
  BY <1>2, <1>5, WorkingPass DEF DeleteStale, Proceed
<1>6. ASSUME CallFails \/ ApplyReplyLost \/ DeleteReplyLost PROVE FALSE
  BY <1>1, <1>6 DEF CallFails, ApplyReplyLost, DeleteReplyLost, Proceed
<1>. QED BY <1>3, <1>4, <1>5, <1>6

\* A pass that returns has what it applied in the live inventory; if its status
\* write was refused or failed its namespace is in the workqueue's delayed adds.
THEOREM AppliedAccountedFor == Spec => AppliedRecordedOrRetried
<1>1. Shape /\ [Next]_vars => [RecordsOrRetries]_vars
  <2> SUFFICES ASSUME Shape, Next, pass.step # "idle", pass'.step = "idle", crashes' = crashes
               PROVE  \/ pass.applied \subseteq Recorded(binding'[cur])
                      \/ cur \in timers' /\ (cur \notin bindingHeld \/ faults' # faults)
    BY DEF RecordsOrRetries
  <2>1. CASE Return("retry") /\ (~HoldsBinding \/ faults' # faults)
    BY <2>1 DEF Return, HoldsBinding
  <2>2. ASSUME pass.step \in {"recordReady", "recordFailure"},
               NEW inventory \in SUBSET Refs, NEW reason \in Reasons \cup {"none"},
               StatusUpdate(inventory, reason), pass.applied \subseteq inventory
        PROVE  pass.applied \subseteq Recorded(binding'[cur])
    <3> DEFINE new == [pass.binding EXCEPT !.inventory = inventory, !.reason = reason]
    <3>1. new \in BindingObject /\ new.inventory = inventory /\ cur \in Namespaces
      BY <2>2, WorkingPass DEF BindingObject
    <3>2. WriteBinding(cur, new)
      BY <2>2 DEF StatusUpdate
    <3> HIDE DEF new
    <3>3. binding'[cur] = new
      BY <3>1, <3>2, WriteBindingTypes DEF Shape, TypeOK, ClusterTypeOK
    <3>. QED BY <2>2, <3>1, <3>3, SentinelAssumption DEF Recorded
  <2>3. CASE RecordReady /\ StatusUpdate(pass.applied, "BindingRecorded")
    BY <2>2, <2>3, WorkingPass DEF RecordReady, At, Reasons
  <2>4. CASE RecordFailure /\ StatusUpdate(MergeResourceRefs(pass.binding.inventory, pass.applied),
                                           pass.reason)
    <3>1. pass.step = "recordFailure" /\ pass.reason \in Reasons \cup {"none"}
      BY <2>4 DEF RecordFailure, At, Shape, TypeOK, PassRecord
    <3>2. /\ MergeResourceRefs(pass.binding.inventory, pass.applied) \in SUBSET Refs
          /\ pass.applied \subseteq MergeResourceRefs(pass.binding.inventory, pass.applied)
      BY <3>1, WorkingPass DEF MergeResourceRefs
    <3>. QED BY <2>2, <2>4, <3>1, <3>2
  <2>5. CASE RecordReady \/ RecordFailure
    BY <2>1, <2>3, <2>4, <2>5 DEF RecordReady, RecordFailure
  <2>6. CASE pass.applied = {}
    BY <2>6
  <2>7. CASE pass.step \notin {"apply", "sweep", "delete", "recordReady", "recordFailure"}
    BY <2>6, <2>7 DEF Shape, PassShape
  <2>8. CASE pass.step \in {"apply", "sweep", "delete"}
    <3>1. ~(Delivery \/ (Environment /\ UNCHANGED <<workVars, budgetVars>>))
      <4>1. pass' # pass
        OBVIOUS
      <4>. QED BY <4>1 DEF Delivery, DeliverNamespace, DeliverBinding, DeliverClass, Requeue, workVars
    <3>2. ~Restart
      BY DEF Restart, Shape, TypeOK
    <3>3. ~(\E n \in Namespaces : Start(n)) /\ ~RecordReady /\ ~RecordFailure
      BY <2>8 DEF Start, RecordReady, RecordFailure, At
    <3>4. ~(ReadClass \/ AddFinalizer \/ Lookup \/ CreateBinding \/ UpdateBinding \/ RereadBinding)
      BY <2>8 DEF ReadClass, AddFinalizer, Lookup, CreateBinding, UpdateBinding, RereadBinding, At
    <3>5. ~(Prepare \/ DeleteBinding \/ RemoveFinalizer)
      BY <2>8 DEF Prepare, DeleteBinding, RemoveFinalizer, At
    <3>6. ~NamespaceReplyLost /\ ~BindingReplyLost
      BY <2>8 DEF NamespaceReplyLost, BindingReplyLost, At
    <3>. QED BY <2>8, <3>1, <3>2, <3>3, <3>4, <3>5, <3>6, WorkGoesOn DEF Next, PassStep
  <2>9. CASE pass.step \in {"recordReady", "recordFailure"}
    <3>1. ~(Delivery \/ (Environment /\ UNCHANGED <<workVars, budgetVars>>))
      <4>1. pass' # pass
        OBVIOUS
      <4>. QED BY <4>1 DEF Delivery, DeliverNamespace, DeliverBinding, DeliverClass, Requeue, workVars
    <3>2. ~Restart
      BY DEF Restart, Shape, TypeOK
    <3>3. CASE CallFails \/ NamespaceReplyLost \/ BindingReplyLost
      <4>1. faults' # faults
        BY <3>3 DEF CallFails, NamespaceReplyLost, BindingReplyLost, Fault, Shape, TypeOK
      <4>2. Return("retry")
        BY <2>9, <3>3 DEF CallFails, NamespaceReplyLost, BindingReplyLost
      <4>. QED BY <2>1, <4>1, <4>2
    <3>4. ~(\/ ApplyResource \/ CheckStale \/ DeleteStale \/ ApplyReplyLost \/ DeleteReplyLost
           \/ \E n \in Namespaces : Start(n))
      BY <2>9 DEF Start, ApplyResource, CheckStale, DeleteStale, ApplyReplyLost, DeleteReplyLost, At
    <3>5. ~(ReadClass \/ AddFinalizer \/ Lookup \/ CreateBinding \/ UpdateBinding \/ RereadBinding)
      BY <2>9 DEF ReadClass, AddFinalizer, Lookup, CreateBinding, UpdateBinding, RereadBinding, At
    <3>6. ~(Prepare \/ DeleteBinding \/ RemoveFinalizer)
      BY <2>9 DEF Prepare, DeleteBinding, RemoveFinalizer, At
    <3>. QED BY <2>5, <2>9, <3>1, <3>2, <3>3, <3>4, <3>5, <3>6 DEF Next, PassStep
  <2>. QED BY <2>7, <2>8, <2>9
<1>. QED BY <1>1, ShapeInvariant, PTL DEF Spec, AppliedRecordedOrRetried
====
