---------------------------- MODULE WakeupProofs ----------------------------
(***************************************************************************)
(* No wakeup is lost, for all values of the constants: whatever happens to *)
(* a namespace, its binding or its class while nobody looks brings it back *)
(* into the queue, and a pass that nothing calls back leaves nothing to be *)
(* done.                                                                   *)
(*                                                                         *)
(* Attention, once called, stays until a pass starts (part 1).  A pass     *)
(* that nothing disturbs knows what there is to know and ends with         *)
(* everything in order (parts 2 and 3).                                    *)
(***************************************************************************)
EXTENDS RestProofs

-----------------------------------------------------------------------------
(* Part 1: attention.                                                      *)

\* The live binding is among its sightings.
LEMMA LiveIsSighted ==
  ASSUME Shape, CacheTrails, NEW n \in Namespaces
  PROVE  binding[n] \in Sightings(n) /\ bindingCache[n] \in Sightings(n)
<1>1. bindingEvents[n] \in Seq(BindingObject \cup {Absent})
  BY DEF Shape, TypeOK, ClusterTypeOK
<1>2. CASE bindingEvents[n] = << >>
  BY <1>2 DEF CacheTrails, Latest, Sightings
<1>3. CASE bindingEvents[n] # << >>
  <2>1. Len(bindingEvents[n]) \in DOMAIN bindingEvents[n]
    BY <1>1, <1>3, EmptySeq
  <2>. QED BY <1>3, <2>1 DEF CacheTrails, Latest, Sightings
<1>. QED BY <1>2, <1>3

\* A write adds what it writes to the sightings.
LEMMA BindingWritten ==
  ASSUME Shape, CacheTrails, NEW n \in Namespaces, NEW v \in BindingObject \cup {Absent},
         WriteBinding(n, v)
  PROVE  /\ binding' = [binding EXCEPT ![n] = v]
         /\ \A m \in Namespaces \ {n} : Sightings(m)' = Sightings(m) /\ binding'[m] = binding[m]
         /\ Sightings(n) \subseteq Sightings(n)'
         /\ binding'[n] = v
<1>1. /\ binding \in [Namespaces -> BindingObject \cup {Absent}]
      /\ bindingEvents \in [Namespaces -> Seq(BindingObject \cup {Absent})]
      /\ bindingCache' = bindingCache
      /\ binding' = [binding EXCEPT ![n] = v]
  BY WriteBindingTypes DEF Shape, TypeOK, ClusterTypeOK, WriteBinding
<1>2. CASE bindingEvents' = bindingEvents
  BY <1>1, <1>2 DEF Sightings
<1>3. CASE bindingEvents' = [bindingEvents EXCEPT ![n] = Append(bindingEvents[n], v)]
  <2>1. bindingEvents[n] \in Seq(BindingObject \cup {Absent})
    BY <1>1
  <2>2. bindingEvents'[n] = Append(bindingEvents[n], v)
    BY <1>1, <1>3
  <2>3. \A i \in DOMAIN bindingEvents[n] :
          i \in DOMAIN bindingEvents'[n] /\ bindingEvents'[n][i] = bindingEvents[n][i]
    BY <2>1, <2>2, AppendProperties
  <2>4. \A m \in Namespaces \ {n} : bindingEvents'[m] = bindingEvents[m]
    BY <1>1, <1>3
  <2>. QED BY <1>1, <2>3, <2>4 DEF Sightings
<1>. QED BY <1>2, <1>3 DEF WriteBinding

\* Somebody has yet to hear of a version of the binding that matters.
Unheard(n) == \E v \in Sightings(n) : ~Alike(v, binding[n])

\* Called by a class.
Called(n) == \E c \in Classes : classEvents[c] > 0 /\ n \in RequestsForNamespaceClass(c)

\* A write to the binding leaves something to be heard if there was something, and if it
\* changes what matters.
LEMMA WriteHeard ==
  ASSUME Shape, CacheTrails, NEW n \in Namespaces, NEW v \in BindingObject \cup {Absent},
         WriteBinding(n, v), NEW m \in Namespaces,
         Unheard(m) \/ (m = n /\ ~Alike(v, binding[n]))
                    \/ (m = n /\ ~Alike(v, bindingCache[n]))
  PROVE  Unheard(m)'
<1>1. CASE m # n
  BY <1>1, BindingWritten DEF Unheard, Alike, BindingReconcilePredicate
<1>2. CASE m = n
  <2>1. /\ Sightings(n) \subseteq Sightings(n)' /\ binding'[n] = v
        /\ binding[n] \in Sightings(n) /\ bindingCache[n] \in Sightings(n)
    BY BindingWritten, LiveIsSighted
  <2>2. CASE ~Alike(v, binding[n])
    <3>1. ~Alike(binding[n], v)
      BY <2>2 DEF Alike, BindingReconcilePredicate
    <3>. QED BY <1>2, <2>1, <3>1 DEF Unheard, Alike, BindingReconcilePredicate
  <2>3. CASE ~Alike(v, bindingCache[n])
    <3>1. ~Alike(bindingCache[n], v)
      BY <2>3 DEF Alike, BindingReconcilePredicate
    <3>. QED BY <1>2, <2>1, <3>1 DEF Unheard, Alike, BindingReconcilePredicate
  <2>4. CASE Alike(v, binding[n]) /\ Unheard(n)
    <3>1. PICK u \in Sightings(n) : ~Alike(u, binding[n])
      BY <2>4 DEF Unheard
    <3>2. ~Alike(u, v)
      BY <2>4, <3>1 DEF Alike, BindingReconcilePredicate
    <3>. QED BY <1>2, <2>1, <3>1, <3>2 DEF Unheard, Alike, BindingReconcilePredicate
  <2>. QED BY <1>2, <2>2, <2>3, <2>4
<1>. QED BY <1>1, <1>2

\* Every element of a sequence but the first is one of its tail.
LEMMA EveryButHead ==
  ASSUME NEW S, NEW s \in Seq(S), s # << >>, NEW i \in DOMAIN s
  PROVE  i = 1 \/ \E j \in DOMAIN Tail(s) : Tail(s)[j] = s[i]
<1>1. /\ Len(Tail(s)) = Len(s) - 1 /\ DOMAIN Tail(s) = 1..Len(Tail(s))
      /\ \A j \in 1..Len(Tail(s)) : Tail(s)[j] = s[j + 1]
      /\ DOMAIN s = 1..Len(s) /\ Len(s) \in Nat
  BY HeadTailProperties, LenProperties
<1>2. CASE i # 1
  <2>1. i - 1 \in 1..Len(Tail(s)) /\ (i - 1) + 1 = i
    BY <1>1, <1>2
  <2>. QED BY <1>1, <2>1
<1>. QED BY <1>2

\* What a delivery leaves behind.
LEMMA BindingDelivered ==
  ASSUME Shape, NEW n \in Namespaces, DeliverBinding(n)
  PROVE  /\ binding' = binding
         /\ \A m \in Namespaces \ {n} : bindingCache'[m] = bindingCache[m]
                                        /\ Sightings(m)' = Sightings(m)
         /\ Sightings(n) \subseteq Sightings(n)' \cup {bindingCache[n]}
         /\ bindingCache'[n] \in Sightings(n)'
         /\ Sightings(n)' \subseteq Sightings(n)
         /\ ~Alike(bindingCache[n], bindingCache'[n]) => n \in queue'
<1>1. /\ bindingCache \in [Namespaces -> BindingObject \cup {Absent}]
      /\ bindingEvents \in [Namespaces -> Seq(BindingObject \cup {Absent})]
      /\ binding' = binding
      /\ bindingEvents' = [bindingEvents EXCEPT ![n] = Tail(bindingEvents[n])]
      /\ bindingCache' = [bindingCache EXCEPT ![n] = Head(bindingEvents[n])]
      /\ queue' = IF BindingReconcilePredicate(bindingCache[n], Head(bindingEvents[n]))
                  THEN queue \cup {n} ELSE queue
      /\ bindingEvents[n] # << >>
  BY DEF Shape, TypeOK, ClusterTypeOK, DeliverBinding
<1>2. bindingEvents[n] \in Seq(BindingObject \cup {Absent})
  BY <1>1
<1>3. /\ bindingEvents'[n] = Tail(bindingEvents[n])
      /\ bindingCache'[n] = Head(bindingEvents[n])
      /\ \A m \in Namespaces \ {n} : bindingCache'[m] = bindingCache[m]
                                     /\ bindingEvents'[m] = bindingEvents[m]
  BY <1>1
<1>4. /\ Head(bindingEvents[n]) = bindingEvents[n][1] /\ 1 \in DOMAIN bindingEvents[n]
      /\ \A i \in DOMAIN Tail(bindingEvents[n]) :
           i + 1 \in DOMAIN bindingEvents[n] /\ Tail(bindingEvents[n])[i] = bindingEvents[n][i + 1]
  BY <1>1, <1>2, HeadTailProperties, EmptySeq
<1>5. \A i \in DOMAIN bindingEvents[n] :
        i = 1 \/ \E j \in DOMAIN Tail(bindingEvents[n]) : Tail(bindingEvents[n])[j] = bindingEvents[n][i]
  BY <1>1, <1>2, EveryButHead
<1>6. Sightings(n) \subseteq Sightings(n)' \cup {bindingCache[n]}
  BY <1>3, <1>4, <1>5 DEF Sightings
<1>7. Sightings(n)' \subseteq Sightings(n) /\ bindingCache'[n] \in Sightings(n)'
  BY <1>3, <1>4 DEF Sightings
<1>8. \A m \in Namespaces \ {n} : Sightings(m)' = Sightings(m)
  BY <1>3 DEF Sightings
<1>9. ~Alike(bindingCache[n], bindingCache'[n]) => n \in queue'
  BY <1>1, <1>3 DEF Alike
<1>. QED BY <1>1, <1>3, <1>6, <1>7, <1>8, <1>9

\* Attention is kept by whatever keeps each of its reasons.
LEMMA StillAttended ==
  ASSUME NEW n \in Namespaces, Attended(n),
         n \in queue \cup timers => n \in queue' \cup timers',
         nsEvents[n] # << >> => nsEvents'[n] # << >>,
         Unheard(n) => Unheard(n)',
         Called(n) => Called(n)'
  PROVE  Attended(n)'
BY DEF Attended, Unheard, Called

\* What matters of namespace n is not touched.
LeftUnseen(n) ==
  /\ namespace'[n] = namespace[n]
  /\ binding'[n] = binding[n]
  /\ Alike(bindingCache[n], bindingCache'[n])
  /\ \A c \in Classes : class'[c] = class[c] \/ n \notin RequestsForNamespaceClass(c)

\* Users and Kubernetes call attention to whatever they touch.
LEMMA EnvironmentNoticed ==
  ASSUME Shape, CacheTrails, Environment, UNCHANGED <<workVars, budgetVars>>, NEW n \in Namespaces
  PROVE  Attended(n)' \/ (~Attended(n) /\ LeftUnseen(n))
<1>1. UNCHANGED <<queue, timers, pass>>
  BY DEF workVars
<1> DEFINE Noticed == Attended(n)' \/ (~Attended(n) /\ LeftUnseen(n))
<1>2. ASSUME NEW m \in Namespaces, NEW v \in NamespaceObject \cup {Absent}, WriteNamespace(m, v),
             UNCHANGED <<bindingStore, classVars>>
      PROVE  Noticed
  <2>1. /\ namespace \in [Namespaces -> NamespaceObject \cup {Absent}]
        /\ nsEvents \in [Namespaces -> Seq(NamespaceObject \cup {Absent})]
        /\ namespace' = [namespace EXCEPT ![m] = v]
        /\ nsEvents' = [nsEvents EXCEPT ![m] = Append(nsEvents[m], v)]
    BY <1>2 DEF Shape, TypeOK, ClusterTypeOK, WriteNamespace
  <2>2. CASE n = m
    <3>1. nsEvents[n] \in Seq(NamespaceObject \cup {Absent}) /\ nsEvents'[n] = Append(nsEvents[n], v)
      BY <2>1, <2>2
    <3>2. Append(nsEvents[n], v) # << >>
      BY <3>1, <1>2, AppendProperties
    <3>. QED BY <3>1, <3>2 DEF Attended
  <2>3. CASE n # m
    <3>1. namespace'[n] = namespace[n] /\ nsEvents'[n] = nsEvents[n]
      BY <2>1, <2>3
    <3>. QED BY <1>1, <1>2, <3>1 DEF Attended, LeftUnseen, Alike, bindingStore, classVars, Sightings,
         RequestsForNamespaceClass, BindingReconcilePredicate
  <2>. QED BY <2>2, <2>3
<1>3. ASSUME UNCHANGED <<nsStore, bindingStore, classVars>> PROVE Noticed
  BY <1>1, <1>3 DEF Attended, LeftUnseen, Alike, nsStore, bindingStore, classVars, Sightings,
     RequestsForNamespaceClass, BindingReconcilePredicate
<1>4. ASSUME NEW m \in Namespaces, NEW l \in Classes \cup {NoLabel}, CreateNamespace(m, l)
      PROVE  Noticed
  <2> DEFINE v == [uid |-> uid + 1, label |-> l, deleting |-> FALSE, finalizer |-> FALSE]
  <2>1. v \in NamespaceObject /\ WriteNamespace(m, v)
    BY <1>4, DataAssumption DEF CreateNamespace, NamespaceObject, UIDs, Shape, TypeOK, ClusterTypeOK
  <2> HIDE DEF v
  <2>. QED BY <1>2, <1>4, <2>1 DEF CreateNamespace, bindingVars
<1>5. ASSUME NEW m \in Namespaces, NEW l \in Classes \cup {NoLabel}, Relabel(m, l) PROVE Noticed
  <2> DEFINE v == [namespace[m] EXCEPT !.label = l]
  <2>1. v \in NamespaceObject /\ EditNamespace(m, v)
    BY <1>5 DEF Relabel, NamespaceObject, Shape, TypeOK, ClusterTypeOK
  <2> HIDE DEF v
  <2>. QED BY <1>2, <2>1 DEF EditNamespace, bindingVars
<1>6. ASSUME NEW m \in Namespaces, DeleteNamespace(m) PROVE Noticed
  <2> DEFINE v == [namespace[m] EXCEPT !.deleting = TRUE]
  <2>1. v \in NamespaceObject /\ EditNamespace(m, v)
    BY <1>6 DEF DeleteNamespace, NamespaceObject, Shape, TypeOK, ClusterTypeOK
  <2> HIDE DEF v
  <2>. QED BY <1>2, <2>1 DEF EditNamespace, bindingVars
<1>7. ASSUME NEW m \in Namespaces, FinishDeletion(m) PROVE Noticed
  BY <1>2, <1>7 DEF FinishDeletion, bindingVars
<1>8. ASSUME NEW m \in Namespaces, DeleteBindingByHand(m) PROVE Noticed
  <2>1. /\ binding[m] # Absent /\ WriteBinding(m, Absent)
        /\ UNCHANGED <<nsStore, classVars>>
    BY <1>8 DEF DeleteBindingByHand, nsVars
  <2>2. ~Alike(Absent, binding[m])
    BY <2>1 DEF Alike, BindingReconcilePredicate
  <2>3. bindingCache' = bindingCache
    BY <2>1 DEF WriteBinding
  <2>4. n # m => binding'[n] = binding[n] /\ Sightings(n)' = Sightings(n)
    BY <2>1, BindingWritten
  <2>5. Unheard(n) \/ n = m => Unheard(n)'
    BY <2>1, <2>2, WriteHeard
  <2>6. CASE n = m
    BY <2>5, <2>6 DEF Attended, Unheard
  <2>7. CASE n # m
    BY <1>1, <2>1, <2>3, <2>4, <2>7 DEF Attended, LeftUnseen, Alike, nsStore, classVars,
       RequestsForNamespaceClass, BindingReconcilePredicate
  <2>. QED BY <2>6, <2>7
<1>9. ASSUME NEW c \in Classes, NEW s \in ResourceLists \cup {Absent}, SetClass(c, s) PROVE Noticed
  <2>1. /\ classEvents \in [Classes -> Nat] /\ classEvents' = [classEvents EXCEPT ![c] = classEvents[c] + 1]
        /\ class \in [Classes -> ResourceLists \cup {Absent}] /\ class' = [class EXCEPT ![c] = s]
        /\ UNCHANGED <<nsStore, bindingStore>>
    BY <1>9 DEF SetClass, nsVars, bindingVars, Shape, TypeOK, ClusterTypeOK
  <2>2. classEvents'[c] > 0 /\ \A d \in Classes : classEvents[d] > 0 => classEvents'[d] > 0
    BY <2>1
  <2>3. \A d \in Classes \ {c} : class'[d] = class[d]
    BY <2>1
  <2>4. \A d : RequestsForNamespaceClass(d)' = RequestsForNamespaceClass(d)
    BY <2>1 DEF RequestsForNamespaceClass, bindingStore
  <2>5. CASE n \in RequestsForNamespaceClass(c)
    BY <2>2, <2>4, <2>5 DEF Attended
  <2>6. CASE n \notin RequestsForNamespaceClass(c) /\ ~Attended(n)
    BY <2>1, <2>3, <2>6 DEF LeftUnseen, Alike, nsStore, bindingStore, BindingReconcilePredicate
  <2>7. CASE Attended(n)
    BY <1>1, <2>1, <2>2, <2>4, <2>7 DEF Attended, nsStore, bindingStore, Sightings, Alike,
       BindingReconcilePredicate
  <2>. QED BY <2>5, <2>6, <2>7
<1>10. ASSUME NEW o \in Objects,
              \/ \E what : CreateObject(o, what)
              \/ DeleteObject(o) \/ StripMarkers(o) \/ DriftObject(o) \/ CollectObject(o)
       PROVE  Noticed
  BY <1>3, <1>10 DEF CreateObject, DeleteObject, StripMarkers, DriftObject, CollectObject,
     EditObject, nsVars, bindingVars
<1>. QED BY <1>4, <1>5, <1>6, <1>7, <1>8, <1>9, <1>10 DEF Environment

\* Deliveries hand attention on until it has reached the queue.
LEMMA DeliveryNoticed ==
  ASSUME Shape, CacheTrails, Delivery, NEW n \in Namespaces
  PROVE  Attended(n)' \/ (~Attended(n) /\ LeftUnseen(n))
<1>1. /\ namespace' = namespace /\ binding' = binding /\ class' = class
      /\ queue \subseteq queue' /\ (n \in queue \cup timers => n \in queue' \cup timers')
  BY DEF Delivery, DeliverNamespace, DeliverBinding, DeliverClass, Requeue, nsVars, nsStore,
     bindingVars, bindingStore, classVars, clusterVars
<1>2. CASE n \in queue'
  BY <1>2 DEF Attended
<1>3. ASSUME NEW m \in Namespaces, DeliverNamespace(m), n # m
      PROVE  Attended(n)' \/ (~Attended(n) /\ LeftUnseen(n))
  <2>1. nsEvents'[n] = nsEvents[n] /\ UNCHANGED <<bindingStore, classVars>>
    BY <1>3 DEF DeliverNamespace, bindingVars, Shape, TypeOK, ClusterTypeOK
  <2>. QED BY <1>1, <2>1 DEF Attended, LeftUnseen, Alike, bindingStore, classVars, Sightings,
       RequestsForNamespaceClass, BindingReconcilePredicate
<1>4. ASSUME NEW m \in Namespaces, DeliverBinding(m), n \notin queue'
      PROVE  Attended(n)' \/ (~Attended(n) /\ LeftUnseen(n))
  <2>1. UNCHANGED <<nsStore, classVars>>
    BY <1>4 DEF DeliverBinding, nsVars
  <2>2. Alike(bindingCache[n], bindingCache'[n])
    BY <1>4, BindingDelivered DEF Alike, BindingReconcilePredicate
  <2>3. Unheard(n) => Unheard(n)'
    <3>1. \/ /\ Sightings(n) \subseteq Sightings(n)' \cup {bindingCache[n]}
             /\ bindingCache'[n] \in Sightings(n)'
          \/ Sightings(n)' = Sightings(n)
      BY <1>4, BindingDelivered
    <3>2. \A u : ~Alike(u, binding[n]) /\ Alike(u, bindingCache'[n]) => ~Alike(bindingCache'[n], binding[n])
      BY DEF Alike, BindingReconcilePredicate
    <3>3. \A u, v : Alike(u, v)' = Alike(u, v)
      BY DEF Alike, BindingReconcilePredicate
    <3> HIDE DEF Alike
    <3>. QED BY <1>1, <2>2, <3>1, <3>2, <3>3 DEF Unheard
  <2>4. \A c \in Classes : (n \in RequestsForNamespaceClass(c))' <=> n \in RequestsForNamespaceClass(c)
    BY <2>2 DEF RequestsForNamespaceClass, Alike, BindingReconcilePredicate
  <2>5. Attended(n) => Attended(n)'
    BY <1>1, <2>1, <2>3, <2>4, StillAttended DEF Called, nsStore, classVars
  <2>. QED BY <1>1, <2>2, <2>5 DEF LeftUnseen
<1>5. ASSUME NEW c \in Classes, DeliverClass(c), n \notin queue'
      PROVE  Attended(n)' \/ (~Attended(n) /\ LeftUnseen(n))
  <2>1. /\ UNCHANGED <<nsStore, bindingStore>> /\ n \notin RequestsForNamespaceClass(c)
        /\ \A d \in Classes \ {c} : classEvents'[d] = classEvents[d]
    BY <1>5 DEF DeliverClass, nsVars, bindingVars, Shape, TypeOK, ClusterTypeOK
  <2>2. Called(n) => Called(n)'
    BY <2>1 DEF Called, RequestsForNamespaceClass, bindingStore
  <2>3. Unheard(n) => Unheard(n)'
    BY <2>1 DEF Unheard, Sightings, Alike, BindingReconcilePredicate, bindingStore
  <2>4. Attended(n) => Attended(n)'
    BY <1>1, <2>1, <2>2, <2>3, StillAttended DEF nsStore
  <2>. QED BY <1>1, <2>1, <2>4 DEF LeftUnseen, Alike, BindingReconcilePredicate, bindingStore
<1>6. ASSUME NEW m \in Namespaces, Requeue(m) PROVE Attended(n)' \/ (~Attended(n) /\ LeftUnseen(n))
  BY <1>1, <1>6 DEF Requeue, clusterVars, nsVars, nsStore, bindingVars, bindingStore, classVars,
     Attended, LeftUnseen, Alike, Sightings, RequestsForNamespaceClass, BindingReconcilePredicate
<1>7. ASSUME DeliverNamespace(n) PROVE n \in queue'
  BY <1>7 DEF DeliverNamespace
<1>. QED BY <1>2, <1>3, <1>4, <1>5, <1>6, <1>7 DEF Delivery

\* What no attention is called to stays as good as it was.
LEMMA UnseenKept ==
  ASSUME Shape, CacheTrails, NEW n \in Namespaces, ~Attended(n), LeftUnseen(n), pass' = pass
  PROVE  /\ OnTrack(n) => OnTrack(n)'
         /\ Accounted(n) => Accounted(n)'
<1>1. /\ bindingCache[n] \in BindingObject \cup {Absent} /\ binding[n] \in BindingObject \cup {Absent}
      /\ Alike(bindingCache[n], binding[n])
  BY LiveIsSighted DEF Attended, Shape, TypeOK, ClusterTypeOK
<1>2. /\ BoundAsAsked(n)' <=> BoundAsAsked(n)
      /\ BoundAsAsked(n) => class'[namespace[n].label] = class[namespace[n].label]
      /\ (bindingCache'[n] = Absent) <=> (bindingCache[n] = Absent)
      /\ bindingCache[n] # Absent => bindingCache'[n].class = bindingCache[n].class
  <2>1. bindingCache[n] # Absent => bindingCache[n].class \in Classes
    BY <1>1 DEF BindingObject
  <2>2. /\ (bindingCache'[n] = Absent) <=> (bindingCache[n] = Absent)
        /\ bindingCache[n] # Absent => bindingCache'[n].class = bindingCache[n].class
    BY DEF LeftUnseen, Alike, BindingReconcilePredicate
  <2>3. namespace'[n] = namespace[n]
    BY DEF LeftUnseen
  <2>4. BoundAsAsked(n) => class'[namespace[n].label] = class[namespace[n].label]
    BY <2>1 DEF LeftUnseen, BoundAsAsked, RequestsForNamespaceClass
  <2>. QED BY <2>2, <2>3, <2>4 DEF BoundAsAsked
<1>3. OnTrack(n) => OnTrack(n)'
  <2>1. namespace'[n] = namespace[n]
    BY DEF LeftUnseen
  <2> HIDE DEF LeftUnseen
  <2>. QED BY <1>2, <2>1 DEF OnTrack, At, Deleting, Unlabelled
<1>4. Fulfilled(n) => Fulfilled(n)'
  <2> SUFFICES ASSUME Fulfilled(n) PROVE Fulfilled(n)'
    OBVIOUS
  <2>1. namespace'[n] = namespace[n] /\ binding'[n] = binding[n]
    BY DEF LeftUnseen
  <2>2. BoundAsAsked(n)
    BY <1>1 DEF BoundAsAsked, Fulfilled, Alike, BindingReconcilePredicate
  <2>. QED BY <1>2, <2>1, <2>2 DEF Fulfilled
<1>5. Accounted(n) => Accounted(n)'
  BY <1>4 DEF Accounted, Reported, LeftUnseen
<1>. QED BY <1>3, <1>5

-----------------------------------------------------------------------------
(* Part 2: what a pass has prepared and applied.                           *)

\* What a pass has applied comes from its class, and could be.
AppliedSound(p) ==
  \A r \in p.applied : \E i \in DOMAIN p.resources :
    RefOf(p.resources[i], p.cur) = r /\ p.resources[i].fault = "none"

\* Steps at which nothing has been prepared yet, or no longer matters.
LEMMA NothingPrepared ==
  ASSUME Shape',
         pass'.step \notin {"prepare", "apply", "sweep", "delete", "recordReady", "recordFailure"}
  PROVE  PreparedInv'
BY DEF Shape, PassShape, PreparedInv, At

\* What a pass at p that turns to sweeping s must have done.
LEMMA SweepPrepared ==
  ASSUME NEW p \in PassRecord, NEW s \in SUBSET Refs, pass' = SweepOf(p, s),
         p.cur = cur, p.ns = pass.ns, p.resources = pass.resources, AppliedSound(p),
         Reconciling => Preparable(pass.resources, cur)
  PROVE  PreparedInv'
<1>1. /\ pass'.cur = pass.cur /\ pass'.ns = pass.ns /\ pass'.resources = pass.resources
      /\ pass'.applied = p.applied
      /\ pass'.step \in {"sweep", "recordReady", "deleteBinding"}
  BY SweepOfShape DEF AfterSweep, cur
<1>2. Reconciling' = Reconciling /\ cur' = cur
  BY <1>1 DEF Reconciling, Deleting, Unlabelled, cur
<1>. QED BY <1>1, <1>2 DEF PreparedInv, AppliedSound, At, cur

\* All of the class is prepared, and what is left of it is applied.
LEMMA ApplyPrepared ==
  ASSUME NEW p \in PassRecord, NEW todo \in Seq(Templates), pass' = ApplyOf(p, todo),
         p.cur = cur, p.ns = pass.ns, p.resources = pass.resources, p.binding # Absent,
         AppliedSound(p), Preparable(pass.resources, cur),
         \A i \in DOMAIN todo : \E j \in DOMAIN pass.resources : todo[i] = pass.resources[j]
  PROVE  PreparedInv'
<1> DEFINE q == [p EXCEPT !.todo = todo]
<1>1. /\ q \in PassRecord /\ q.cur = p.cur /\ q.ns = p.ns /\ q.resources = p.resources
      /\ q.applied = p.applied
  BY DEF PassRecord
<1>2. CASE todo = << >>
  <2>1. pass' = SweepOf(q, p.binding.inventory \ p.applied)
    BY <1>2 DEF ApplyOf
  <2>2. p.binding.inventory \ p.applied \in SUBSET Refs
    BY DEF PassRecord, BindingObject
  <2> HIDE DEF q
  <2>3. AppliedSound(q)
    BY <1>1 DEF AppliedSound
  <2>. QED BY <1>1, <2>1, <2>2, <2>3, SweepPrepared
<1>3. CASE todo # << >>
  <2>1. pass' = [p EXCEPT !.todo = todo, !.step = "apply"]
    BY <1>3 DEF ApplyOf
  <2>2. /\ pass'.step = "apply" /\ pass'.todo = todo /\ pass'.applied = p.applied
        /\ pass'.resources = pass.resources /\ cur' = cur
    BY <2>1 DEF PassRecord, cur
  <2>. QED BY <2>2 DEF PreparedInv, AppliedSound, At
<1>. QED BY <1>2, <1>3

\* The head of the class's list is prepared.
LEMMA PreparePrepared ==
  ASSUME NEW p \in PassRecord, NEW prepared \in Seq(Templates), pass' = PrepareOf(p, prepared),
         p.cur = cur, p.ns = pass.ns, p.resources = pass.resources, p.binding # Absent,
         pass.resources \in Seq(Templates), p.applied = {}, Preparable(prepared, cur),
         \A i \in DOMAIN prepared : prepared[i] = pass.resources[i]
  PROVE  PreparedInv'
<1>0. AppliedSound(p)
  BY DEF AppliedSound
<1>1. CASE Len(prepared) = Len(p.resources)
  <2>1. pass' = ApplyOf(p, prepared) /\ DOMAIN prepared = DOMAIN pass.resources
    BY <1>1, LenProperties DEF PrepareOf
  <2>2. Preparable(pass.resources, cur)
    BY <2>1 DEF Preparable, Distinct
  <2>. QED BY <1>0, <2>1, <2>2, ApplyPrepared
<1>2. CASE Len(prepared) # Len(p.resources)
  <2>1. pass' = [p EXCEPT !.todo = prepared, !.step = "prepare"]
    BY <1>2 DEF PrepareOf
  <2>2. /\ pass'.step = "prepare" /\ pass'.todo = prepared /\ pass'.resources = pass.resources
        /\ pass'.applied = {} /\ cur' = cur
    BY <2>1 DEF PassRecord, cur
  <2>. QED BY <2>2 DEF PreparedInv, At
<1>. QED BY <1>1, <1>2

\* Nothing is prepared or applied at the start.
LEMMA WithBindingPrepared ==
  ASSUME NEW p \in PassRecord, pass' = WithBinding(p),
         p.cur = cur, p.ns = pass.ns, p.resources = pass.resources, p.binding # Absent,
         p.applied = {}, ~Deleting, ~Unlabelled
  PROVE  PreparedInv'
<1>1. CASE ClassMissing
  <2>1. pass' = SweepOf(p, p.binding.inventory) /\ p.binding.inventory \in SUBSET Refs /\ ~Reconciling
    BY <1>1 DEF WithBinding, PassRecord, BindingObject, ClassMissing, Reconciling
  <2>. QED BY <2>1, SweepPrepared DEF AppliedSound
<1>2. CASE ~ClassMissing
  <2>1. pass' = PrepareOf(p, << >>) /\ pass.resources \in Seq(Templates)
    BY <1>2, DataAssumption DEF WithBinding, ClassMissing, PassRecord
  <2>2. << >> \in Seq(Templates) /\ DOMAIN << >> = {}
    OBVIOUS
  <2>3. Preparable(<< >>, cur)
    BY <2>2 DEF Preparable, Distinct
  <2>. QED BY <2>1, <2>2, <2>3, PreparePrepared
<1>. QED BY <1>1, <1>2

\* The steps that read the binding.
LEMMA BindingReadPrepared == ASSUME Shape, Shape', Lookup \/ RereadBinding PROVE PreparedInv'
<1> DEFINE found == bindingCache[cur]
           held == [pass EXCEPT !.binding = found]
<1>1. /\ pass \in PassRecord /\ cur \in Namespaces /\ pass.step \in {"lookup", "reread"}
      /\ pass.applied = {}
  BY DEF Shape, TypeOK, PassShape, Lookup, RereadBinding, At
<1>2. found \in BindingObject \cup {Absent}
  BY <1>1 DEF Shape, TypeOK, ClusterTypeOK
<1>3. /\ held \in PassRecord /\ held.cur = cur /\ held.ns = pass.ns
      /\ held.resources = pass.resources /\ held.binding = found /\ held.applied = {}
  BY <1>1, <1>2 DEF PassRecord, cur
<1> HIDE DEF held, found
<1>4. ASSUME found # Absent, ~Deleting, ~Unlabelled, pass' = WithBinding(held) PROVE PreparedInv'
  BY <1>3, <1>4, WithBindingPrepared
<1>5. ASSUME NEW s \in SUBSET Refs, Deleting \/ Unlabelled, pass' = SweepOf(held, s)
      PROVE  PreparedInv'
  BY <1>3, <1>5, SweepPrepared DEF Reconciling, AppliedSound
<1>6. found # Absent => found.inventory \in SUBSET Refs /\ ClusterScoped(found.inventory) \in SUBSET Refs
  BY <1>2 DEF BindingObject, ClusterScoped
<1>7. ASSUME NEW step \in {"removeFinalizer", "create"}, pass' = Goto(step) PROVE PreparedInv'
  <2>1. pass'.step = step
    BY <1>1, <1>7 DEF Goto, PassRecord
  <2>. QED BY <2>1, NothingPrepared
<1>8. ASSUME pass' = [held EXCEPT !.step = "update"] PROVE PreparedInv'
  <2>1. pass'.step = "update"
    BY <1>3, <1>8 DEF PassRecord
  <2>. QED BY <2>1, NothingPrepared
<1>9. CASE Lookup
  <2>1. CASE found = Absent
    BY <1>7, <1>9, <2>1 DEF Lookup, Proceed, found
  <2>2. CASE found # Absent
    BY <1>4, <1>5, <1>6, <1>8, <1>9, <2>2 DEF Lookup, TakeCachedBinding, found, held
  <2>. QED BY <2>1, <2>2
<1>10. CASE RereadBinding
  <2>1. ~Deleting /\ ~Unlabelled
    BY <1>10 DEF RereadBinding, Shape, PassShape, At, Unlabelled
  <2>2. CASE found = Absent
    <3>1. pass'.step = "idle"
      BY <1>10, <2>2 DEF RereadBinding, Return, Idle, found
    <3>. QED BY <3>1, NothingPrepared
  <2>3. CASE found # Absent
    BY <1>4, <1>10, <2>1, <2>3 DEF RereadBinding, TakeCachedBinding, found, held
  <2>. QED BY <2>2, <2>3
<1>. QED BY <1>9, <1>10

\* A failure about to be recorded.
LEMMA FailurePrepared ==
  ASSUME pass \in PassRecord, PreparedInv, NEW reason, pass' = FailWith(reason) PROVE PreparedInv'
<1>1. /\ pass'.step = "recordFailure" /\ pass'.applied = pass.applied
      /\ pass'.resources = pass.resources /\ cur' = cur
  BY DEF FailWith, PassRecord, cur
<1>. QED BY <1>1 DEF PreparedInv, At

\* One more is prepared: it is neither denied nor malformed, nor a duplicate.
LEMMA NextPrepared == ASSUME Shape, OrderInv, PreparedInv, Prepare PROVE PreparedInv'
<1> DEFINE t == pass.resources[Len(pass.todo) + 1]
           prepared == Append(pass.todo, t)
<1>1. pass.step = "prepare"
  BY DEF Prepare, At
<1>2. /\ pass \in PassRecord /\ pass.binding # Absent /\ pass.applied = {}
      /\ pass.resources \in Seq(Templates) /\ pass.todo \in Seq(Templates)
  BY <1>1, WorkingPass DEF Shape, PassShape, At, BindingSteps
<1>3. CASE Refusal(t) = "none" /\ pass' = PrepareOf(pass, prepared)
  <2>1. t \in Templates /\ prepared \in Seq(Templates) /\ t.fault \in Faults
    BY <1>1, NextToPrepare, DataAssumption
  <2>2. /\ \A i \in DOMAIN pass.todo : pass.todo[i] = pass.resources[i]
        /\ Preparable(pass.todo, cur)
    BY <1>1 DEF OrderInv, PreparedInOrder, PreparedInv, At
  <2>3. /\ Len(prepared) = Len(pass.todo) + 1 /\ prepared[Len(pass.todo) + 1] = t
        /\ \A i \in 1..Len(pass.todo) : prepared[i] = pass.todo[i]
    BY <1>2, <2>1, AppendProperties
  <2>4. DOMAIN prepared = 1..(Len(pass.todo) + 1) /\ DOMAIN pass.todo = 1..Len(pass.todo)
        /\ Len(pass.todo) \in Nat
    BY <1>2, <2>1, <2>3, LenProperties
  <2>5. \A i \in DOMAIN prepared : i \in DOMAIN pass.todo \/ i = Len(pass.todo) + 1
    BY <2>4
  <2>6. /\ t.fault \in {"none", "rejected"}
        /\ \A i \in DOMAIN pass.todo : RefOf(pass.todo[i], cur) # RefOf(t, cur)
    BY <1>3, <2>1 DEF Refusal, Faults
  <2> HIDE DEF prepared
  <2>7. \A i \in DOMAIN prepared : prepared[i] = pass.resources[i]
    BY <2>2, <2>3, <2>4, <2>5 DEF t
  <2>8. \A i \in DOMAIN prepared :
          \/ prepared[i] = t /\ i = Len(pass.todo) + 1
          \/ i \in DOMAIN pass.todo /\ prepared[i] = pass.todo[i]
    BY <2>3, <2>4, <2>5
  <2> HIDE DEF t
  <2>9. Preparable(prepared, cur)
    BY <2>2, <2>6, <2>8 DEF Preparable, Distinct
  <2>. QED BY <1>2, <1>3, <2>1, <2>7, <2>9, PreparePrepared DEF cur
<1>4. CASE \E reason : pass' = FailWith(reason)
  BY <1>2, <1>4, FailurePrepared
<1>. QED BY <1>3, <1>4 DEF Prepare, Proceed

\* One more is applied, and was not rejected.
LEMMA NextApplied == ASSUME Shape, PreparedInv, ApplyResource PROVE PreparedInv'
<1> DEFINE t == Head(pass.todo)
           p == [pass EXCEPT !.applied = @ \cup {RefOf(t, cur)}]
<1>1. At("apply") /\ t \in Templates /\ Tail(pass.todo) \in Seq(Templates) /\ Reconciling
  BY NextToApply, WorkingPass DEF ApplyResource, At
<1>2. /\ pass \in PassRecord /\ pass.binding # Absent /\ cur \in Namespaces
      /\ pass.todo \in Seq(Templates) /\ pass.todo # << >>
  BY <1>1, WorkingPass DEF Shape, PassShape, At, BindingSteps
<1>3. CASE Apply(t) /\ pass' = ApplyOf(p, Tail(pass.todo))
  <2>1. /\ p \in PassRecord /\ p.cur = cur /\ p.ns = pass.ns /\ p.resources = pass.resources
        /\ p.binding = pass.binding /\ p.applied = pass.applied \cup {RefOf(t, cur)}
    BY <1>1, <1>2, RefsAndObjects DEF PassRecord, cur
  <2>2. /\ Preparable(pass.resources, cur) /\ AppliedSound(pass)
        /\ \A i \in DOMAIN pass.todo : \E j \in DOMAIN pass.resources : pass.todo[i] = pass.resources[j]
    BY <1>1 DEF PreparedInv, AppliedSound, At, cur
  <2>3. /\ t = pass.todo[1] /\ 1 \in DOMAIN pass.todo
        /\ \A i \in DOMAIN Tail(pass.todo) :
             i + 1 \in DOMAIN pass.todo /\ Tail(pass.todo)[i] = pass.todo[i + 1]
    BY <1>2, HeadTailProperties, EmptySeq
  <2>4. t.fault # "rejected"
    BY <1>3 DEF Apply
  <2>5. PICK j \in DOMAIN pass.resources : t = pass.resources[j]
    BY <2>2, <2>3
  <2>6. \A i \in DOMAIN Tail(pass.todo) :
          \E k \in DOMAIN pass.resources : Tail(pass.todo)[i] = pass.resources[k]
    BY <2>2, <2>3
  <2> HIDE DEF p, t
  <2>7. t.fault = "none"
    BY <2>2, <2>4, <2>5 DEF Preparable
  <2>8. AppliedSound(p)
    BY <2>1, <2>2, <2>5, <2>7 DEF AppliedSound, cur
  <2>. QED BY <1>1, <1>2, <1>3, <2>1, <2>2, <2>6, <2>8, ApplyPrepared DEF p, t
<1>4. CASE \E reason : pass' = FailWith(reason)
  BY <1>2, <1>4, FailurePrepared
<1>. QED BY <1>3, <1>4 DEF ApplyResource, Proceed

\* One less is left to sweep.
LEMMA NextSwept == ASSUME Shape, PreparedInv, CheckStale \/ DeleteStale PROVE PreparedInv'
<1>1. /\ pass \in PassRecord /\ pass.stale \in SUBSET Refs /\ pass.step \in {"sweep", "delete"}
  BY WorkingPass DEF CheckStale, DeleteStale, At
<1>2. AppliedSound(pass) /\ (Reconciling => Preparable(pass.resources, cur))
  BY <1>1 DEF PreparedInv, AppliedSound, cur
<1>3. ASSUME NEW r, pass' = SweepOf(pass, pass.stale \ {r}) PROVE PreparedInv'
  BY <1>1, <1>2, <1>3, SweepPrepared DEF cur
<1>4. ASSUME NEW r, pass' = [pass EXCEPT !.target = r, !.step = "delete"] PROVE PreparedInv'
  <2>1. /\ pass'.step = "delete" /\ pass'.applied = pass.applied
        /\ pass'.ns = pass.ns /\ pass'.resources = pass.resources /\ pass'.cur = pass.cur
    BY <1>1, <1>4 DEF PassRecord
  <2>2. Reconciling' = Reconciling
    BY <2>1 DEF Reconciling, Deleting, Unlabelled, cur
  <2>. QED BY <1>2, <2>1, <2>2 DEF PreparedInv, AppliedSound, At, cur
<1>5. CASE CheckStale
  BY <1>1, <1>3, <1>4, <1>5, FailurePrepared DEF CheckStale, Proceed
<1>6. CASE DeleteStale
  BY <1>3, <1>6 DEF DeleteStale, Proceed
<1>. QED BY <1>5, <1>6

\* Steps that neither prepare nor apply nor sweep.
LEMMA OthersPrepared ==
  ASSUME Shape, Shape', PreparedInv,
         \/ ReadClass \/ AddFinalizer \/ CreateBinding \/ UpdateBinding \/ RecordReady
         \/ RecordFailure \/ DeleteBinding \/ RemoveFinalizer \/ CallFails
         \/ NamespaceReplyLost \/ BindingReplyLost \/ ApplyReplyLost \/ DeleteReplyLost
         \/ Restart \/ \E n \in Namespaces : Start(n)
  PROVE  PreparedInv'
<1>1. pass \in PassRecord
  BY DEF Shape, TypeOK
<1>2. ASSUME NEW result, pass' = Idle \/ Return(result) PROVE PreparedInv'
  BY <1>2, NothingPrepared DEF Return, Idle
<1>3. ASSUME NEW step \in {"reread", "removeFinalizer"}, pass' = Goto(step) PROVE PreparedInv'
  BY <1>1, <1>3, NothingPrepared DEF Goto, PassRecord
<1>4. CASE ReadClass
  <2>1. pass' = [pass EXCEPT !.resources = class[pass.ns.label],
                             !.step = AfterReadClass(class[pass.ns.label])]
    BY <1>4 DEF ReadClass, Proceed
  <2>2. pass'.step \in {"lookup", "addFinalizer"}
    BY <1>1, <2>1 DEF AfterReadClass, PassRecord
  <2>. QED BY <2>2, NothingPrepared
<1>5. CASE AddFinalizer
  <2>1. ASSUME NEW ns, pass' = [pass EXCEPT !.ns = ns, !.step = "lookup"] PROVE PreparedInv'
    BY <1>1, <2>1, NothingPrepared DEF PassRecord
  <2>. QED BY <1>2, <1>5, <2>1 DEF AddFinalizer, Proceed
<1>6. CASE UpdateBinding
  <2>1. ASSUME NEW b, pass' = [pass EXCEPT !.binding = b, !.step = "reread"] PROVE PreparedInv'
    BY <1>1, <2>1, NothingPrepared DEF PassRecord
  <2>. QED BY <1>2, <1>6, <2>1 DEF UpdateBinding, Proceed
<1>7. CASE CreateBinding \/ DeleteBinding
  BY <1>2, <1>3, <1>7 DEF CreateBinding, DeleteBinding, Proceed
<1>8. CASE RecordReady \/ RecordFailure \/ RemoveFinalizer
  BY <1>2, <1>8 DEF RecordReady, RecordFailure, RemoveFinalizer
<1>9. CASE \/ CallFails
           \/ NamespaceReplyLost \/ BindingReplyLost \/ ApplyReplyLost \/ DeleteReplyLost
  BY <1>1, <1>2, <1>9, FailurePrepared DEF CallFails, NamespaceReplyLost, BindingReplyLost,
     ApplyReplyLost, DeleteReplyLost, Proceed
<1>10. CASE Restart
  BY <1>2, <1>10 DEF Restart
<1>11. ASSUME NEW n \in Namespaces, Start(n) PROVE PreparedInv'
  <2>1. CASE pass' = pass
    BY <2>1 DEF PreparedInv, At, Reconciling, Deleting, Unlabelled, cur
  <2>2. CASE pass' # pass
    <3>1. pass'.step \in {"lookup", "readClass"}
      BY <1>11, <2>2 DEF Start, Idle
    <3>. QED BY <3>1, NothingPrepared
  <2>. QED BY <2>1, <2>2
<1>. QED BY <1>4, <1>5, <1>6, <1>7, <1>8, <1>9, <1>10, <1>11

\* What is applied has been prepared first, and comes from the class.
LEMMA PreparedInvariant == Spec => []PreparedInv
<1>1. Init => PreparedInv
  BY DEF Init, Idle, PreparedInv, At
<1>2. Shape /\ Shape' /\ OrderInv /\ PreparedInv /\ [Next]_vars => PreparedInv'
  <2> SUFFICES ASSUME Shape, Shape', OrderInv, PreparedInv, [Next]_vars PROVE PreparedInv'
    OBVIOUS
  <2>1. CASE pass' = pass
    BY <2>1 DEF PreparedInv, At, Reconciling, Deleting, Unlabelled, cur
  <2>2. CASE UNCHANGED vars \/ Delivery \/ (Environment /\ UNCHANGED <<workVars, budgetVars>>)
    BY <2>1, <2>2 DEF vars, workVars, Delivery, DeliverNamespace, DeliverBinding, DeliverClass, Requeue
  <2>. QED BY <2>2, BindingReadPrepared, NextPrepared, NextApplied, NextSwept, OthersPrepared
       DEF Next, PassStep
<1>. QED BY <1>1, <1>2, OrderInvariant, ShapeInvariant, PTL DEF Spec

-----------------------------------------------------------------------------
(* Part 3: the steps of a pass.                                            *)

\* What a call does to what attention depends on.
LEMMA CallWrites ==
  ASSUME Shape, Call
  PROVE  /\ queue' = queue /\ timers \subseteq timers'
         /\ UNCHANGED <<class, classEvents, bindingCache, nsCache>>
         /\ UNCHANGED nsStore \/ \E v \in NamespaceObject : WriteNamespace(cur, v)
         /\ UNCHANGED bindingStore \/ \E v \in BindingObject \cup {Absent} : WriteBinding(cur, v)
<1>1. pass \in PassRecord
  BY DEF Shape, TypeOK
<1>2. ASSUME NEW result, Return(result) PROVE timers \subseteq timers'
  BY <1>2 DEF Return
<1>3. CASE AddFinalizer \/ RemoveFinalizer
  <2>1. pass.ns \in NamespaceObject
    BY <1>1, <1>3 DEF AddFinalizer, RemoveFinalizer, Shape, PassShape, At, PassRecord
  <2>2. /\ [pass.ns EXCEPT !.finalizer = TRUE] \in NamespaceObject
        /\ [pass.ns EXCEPT !.finalizer = FALSE] \in NamespaceObject
    BY <2>1 DEF NamespaceObject
  <2>3. UNCHANGED nsStore \/ \E v \in NamespaceObject : WriteNamespace(cur, v)
    BY <1>3, <2>2 DEF AddFinalizer, RemoveFinalizer
  <2>4. nsCache' = nsCache
    BY <2>3 DEF nsStore, WriteNamespace
  <2>. QED BY <1>2, <1>3, <2>3, <2>4 DEF AddFinalizer, RemoveFinalizer, Proceed, bindingStore,
       classVars
<1>4. CASE \/ CreateBinding \/ UpdateBinding \/ RecordReady \/ RecordFailure \/ DeleteBinding
  <2>1. /\ CreateBinding => NewBinding \in BindingObject
        /\ UpdateBinding => [pass.binding EXCEPT !.class = pass.ns.label] \in BindingObject
    BY <1>1 DEF CreateBinding, UpdateBinding, NewBinding, Shape, PassShape, At, BindingSteps,
       PassRecord, NamespaceObject, BindingObject
  <2>2. RecordReady \/ RecordFailure =>
          /\ pass.binding \in BindingObject
          /\ pass.reason \in Reasons \cup {"none"}
          /\ pass.applied \in SUBSET Refs
    BY <1>1, WorkingPass DEF RecordReady, RecordFailure, At, PassRecord
  <2>3. ASSUME RecordReady \/ RecordFailure, NEW i \in SUBSET Refs, NEW r \in Reasons \cup {"none"}
        PROVE  [pass.binding EXCEPT !.inventory = i, !.reason = r] \in BindingObject
    BY <2>2, <2>3 DEF BindingObject
  <2>4. RecordReady => \/ UNCHANGED bindingStore
                       \/ \E v \in BindingObject \cup {Absent} : WriteBinding(cur, v)
    <3>1. "BindingRecorded" \in Reasons
      BY DEF Reasons
    <3>. QED BY <2>2, <2>3, <3>1 DEF RecordReady, StatusUpdate
  <2>5. RecordFailure => \/ UNCHANGED bindingStore
                         \/ \E v \in BindingObject \cup {Absent} : WriteBinding(cur, v)
    <3>1. RecordFailure => MergeResourceRefs(pass.binding.inventory, pass.applied) \in SUBSET Refs
      BY <2>2 DEF MergeResourceRefs, BindingObject
    <3>. QED BY <2>2, <2>3, <3>1 DEF RecordFailure, StatusUpdate
  <2>6. UNCHANGED bindingStore \/ \E v \in BindingObject \cup {Absent} : WriteBinding(cur, v)
    BY <1>4, <2>1, <2>4, <2>5 DEF CreateBinding, UpdateBinding, DeleteBinding
  <2>7. bindingCache' = bindingCache
    BY <2>6 DEF bindingStore, WriteBinding
  <2>. QED BY <1>2, <1>4, <2>6, <2>7 DEF CreateBinding, UpdateBinding, RecordReady, RecordFailure,
       DeleteBinding, Proceed, nsStore, classVars
<1>5. CASE \/ ReadClass \/ Lookup \/ RereadBinding \/ Prepare \/ ApplyResource \/ CheckStale
           \/ DeleteStale \/ CallFails \/ ApplyReplyLost \/ DeleteReplyLost
  <2>1. /\ queue' = queue /\ UNCHANGED <<nsStore, bindingStore, classVars>>
    BY <1>5 DEF ReadClass, Lookup, RereadBinding, Prepare, ApplyResource, CheckStale, DeleteStale,
       CallFails, ApplyReplyLost, DeleteReplyLost, Fault
  <2>2. timers' = timers \/ \E result : Return(result)
    BY <1>5 DEF ReadClass, Lookup, RereadBinding, Prepare, ApplyResource, CheckStale, DeleteStale,
       CallFails, ApplyReplyLost, DeleteReplyLost, Proceed, TakeCachedBinding
  <2>. QED BY <1>2, <2>1, <2>2 DEF nsStore, bindingStore, classVars
<1>6. CASE NamespaceReplyLost
  <2>1. PICK v \in NamespaceObject : WriteNamespace(cur, v)
    BY <1>6, LostNamespaceWrite
  <2>. QED BY <1>2, <1>6, <2>1 DEF NamespaceReplyLost, Fault, WriteNamespace, bindingStore, classVars
<1>7. CASE BindingReplyLost
  <2>1. PICK v \in BindingObject \cup {Absent} : WriteBinding(cur, v)
    BY <1>7, LostBindingWrite
  <2>. QED BY <1>2, <1>7, <2>1 DEF BindingReplyLost, Fault, WriteBinding, nsStore, classVars
<1>. QED BY <1>3, <1>4, <1>5, <1>6, <1>7 DEF Call, PassStep

\* No call takes attention away.
LEMMA CallKeepsAttention ==
  ASSUME Shape, CacheTrails, Call, NEW n \in Namespaces, Attended(n) PROVE Attended(n)'
<1>1. cur \in Namespaces
  BY DEF Shape, PassShape, Call, PassStep, At, ReadClass, AddFinalizer, Lookup,
     CreateBinding, UpdateBinding, RereadBinding, Prepare, ApplyResource, CheckStale, DeleteStale,
     RecordReady, RecordFailure, DeleteBinding, RemoveFinalizer, CallFails, NamespaceReplyLost,
     BindingReplyLost, ApplyReplyLost, DeleteReplyLost
<1>2. n \in queue \cup timers => n \in queue' \cup timers'
  BY CallWrites
<1>3. nsEvents[n] # << >> => nsEvents'[n] # << >>
  <2>1. nsEvents \in [Namespaces -> Seq(NamespaceObject \cup {Absent})]
    BY DEF Shape, TypeOK, ClusterTypeOK
  <2>2. ASSUME NEW v \in NamespaceObject, WriteNamespace(cur, v), nsEvents[n] # << >>
        PROVE  nsEvents'[n] # << >>
    <3>1. nsEvents' = [nsEvents EXCEPT ![cur] = Append(nsEvents[cur], v)]
      BY <2>2 DEF WriteNamespace
    <3>2. nsEvents[cur] \in Seq(NamespaceObject \cup {Absent}) /\ v \in NamespaceObject \cup {Absent}
      BY <1>1, <2>1
    <3>3. Append(nsEvents[cur], v) # << >>
      BY <3>2, AppendProperties
    <3>. QED BY <2>1, <2>2, <3>1, <3>3
  <2>. QED BY <2>2, CallWrites DEF nsStore
<1>4. Unheard(n) => Unheard(n)'
  <2>1. UNCHANGED bindingStore => (Unheard(n) => Unheard(n)')
    BY DEF Unheard, Sightings, Alike, BindingReconcilePredicate, bindingStore
  <2>2. ASSUME NEW v \in BindingObject \cup {Absent}, WriteBinding(cur, v), Unheard(n)
        PROVE  Unheard(n)'
    BY <1>1, <2>2, WriteHeard
  <2>. QED BY <2>1, <2>2, CallWrites
<1>5. Called(n) => Called(n)'
  BY CallWrites DEF Called, RequestsForNamespaceClass
<1>. QED BY <1>2, <1>3, <1>4, <1>5, StillAttended

\* q goes on from p with the same namespace, class and binding in mind.
GoesOnFrom(p, q) ==
  /\ q.cur = p.cur /\ q.ns = p.ns /\ q.resources = p.resources /\ q.binding = p.binding
  /\ q.applied = p.applied
  /\ q.step \in BindingSteps \ {"update", "recordFailure"}

\* The operators that continue a pass do.
LEMMA SweepGoesOn == ASSUME NEW p \in PassRecord, NEW s PROVE GoesOnFrom(p, SweepOf(p, s))
BY DEF GoesOnFrom, SweepOf, AfterSweep, PassRecord, BindingSteps

\* So does going on to apply what is left, or to sweep if nothing is.
LEMMA ApplyGoesOn ==
  ASSUME NEW p \in PassRecord, NEW todo \in Seq(Templates)
  PROVE  GoesOnFrom(p, ApplyOf(p, todo))
<1> DEFINE q == [p EXCEPT !.todo = todo]
<1>1. /\ q \in PassRecord /\ q.cur = p.cur /\ q.ns = p.ns /\ q.resources = p.resources
      /\ q.binding = p.binding /\ q.applied = p.applied
  BY DEF PassRecord
<1>2. CASE todo = << >>
  <2>1. ApplyOf(p, todo) = SweepOf(q, p.binding.inventory \ p.applied)
    BY <1>2 DEF ApplyOf
  <2> HIDE DEF q
  <2>. QED BY <1>1, <2>1, SweepGoesOn DEF GoesOnFrom
<1>3. CASE todo # << >>
  BY <1>3 DEF ApplyOf, GoesOnFrom, PassRecord, BindingSteps
<1>. QED BY <1>2, <1>3

\* So does preparing one resource more, or turning to apply.
LEMMA PrepareGoesOn ==
  ASSUME NEW p \in PassRecord, NEW prepared \in Seq(Templates)
  PROVE  GoesOnFrom(p, PrepareOf(p, prepared))
<1>1. CASE Len(prepared) = Len(p.resources)
  BY <1>1, ApplyGoesOn DEF PrepareOf
<1>2. CASE Len(prepared) # Len(p.resources)
  BY <1>2 DEF PrepareOf, GoesOnFrom, PassRecord, BindingSteps
<1>. QED BY <1>1, <1>2

\* So does starting on the class once the binding is read.
LEMMA WithBindingGoesOn == ASSUME NEW p \in PassRecord PROVE GoesOnFrom(p, WithBinding(p))
BY SweepGoesOn, PrepareGoesOn, EmptySeq DEF WithBinding

\* A pass that goes on with what it knows stays on track.
LEMMA StaysOnTrack ==
  ASSUME NEW n \in Namespaces, cur = n, OnTrack(n),
         UNCHANGED <<nsStore, bindingStore, classVars>>,
         pass.step \notin {"idle", "readClass", "addFinalizer"},
         NEW p, p.cur = cur, p.ns = pass.ns, p.resources = pass.resources,
         bindingCache[n] # Absent, bindingCache[n].class = p.binding.class,
         Deleting \/ Unlabelled \/ BoundAsAsked(n),
         GoesOnFrom(p, pass')
  PROVE  cur' = n /\ OnTrack(n)'
<1>1. /\ pass'.cur = n /\ pass'.ns = pass.ns /\ pass'.resources = pass.resources
      /\ pass'.binding = p.binding
      /\ pass'.step \in BindingSteps \ {"update", "recordFailure"}
  BY DEF GoesOnFrom, cur
<1>2. /\ Deleting' = Deleting /\ Unlabelled' = Unlabelled /\ BoundAsAsked(n)' = BoundAsAsked(n)
      /\ namespace' = namespace /\ class' = class /\ bindingCache' = bindingCache
  BY <1>1 DEF Deleting, Unlabelled, BoundAsAsked, nsStore, bindingStore, classVars
<1> HIDE DEF GoesOnFrom
<1>. QED BY <1>1, <1>2 DEF OnTrack, At, BindingSteps, cur

\* What a pass that has read the binding knows.
LEMMA KnownToPass ==
  ASSUME NEW n \in Namespaces, cur = n, OnTrack(n), pass.step \in BindingSteps \ {"update"}
  PROVE  /\ bindingCache[n] # Absent /\ bindingCache[n].class = pass.binding.class
         /\ Deleting \/ Unlabelled \/ BoundAsAsked(n)
BY DEF OnTrack, At

\* A pass that gives up for a reason it will record stays on track.
LEMMA FailsOnTrack ==
  ASSUME NEW n \in Namespaces, cur = n, OnTrack(n), pass \in PassRecord,
         UNCHANGED <<nsStore, bindingStore, classVars>>,
         pass.step \in {"prepare", "apply", "sweep", "delete"},
         NEW reason \in Reasons \ {"BindingRecorded"}, pass' = FailWith(reason)
  PROVE  cur' = n /\ OnTrack(n)'
<1>1. /\ pass'.cur = n /\ pass'.ns = pass.ns /\ pass'.resources = pass.resources
      /\ pass'.binding = pass.binding /\ pass'.step = "recordFailure" /\ pass'.reason = reason
  BY DEF FailWith, PassRecord, cur
<1>2. /\ Deleting' = Deleting /\ Unlabelled' = Unlabelled /\ BoundAsAsked(n)' = BoundAsAsked(n)
      /\ namespace' = namespace /\ class' = class /\ bindingCache' = bindingCache
  BY <1>1 DEF Deleting, Unlabelled, BoundAsAsked, nsStore, bindingStore, classVars
<1>3. reason \notin {"none", "BindingRecorded"}
  BY DEF Reasons
<1>. QED BY <1>1, <1>2, <1>3, KnownToPass DEF OnTrack, At, BindingSteps, cur

\* The outcome of a call for the namespace of the pass.
Cared(n) == Attended(n)' \/ IF cur' = n THEN OnTrack(n)' ELSE Accounted(n)'

\* An error puts the namespace on the rate limiter's timer.
LEMMA RetryCares == ASSUME NEW n, cur = n, Return("retry") PROVE Cared(n)
BY DEF Return, Cared, Attended

\* So does a change of a namespace, or of what matters of its binding.
LEMMA ChangeCares ==
  ASSUME Shape, CacheTrails, NEW n \in Namespaces,
         \/ \E v \in NamespaceObject : WriteNamespace(n, v)
         \/ \E v \in BindingObject \cup {Absent} : WriteBinding(n, v) /\ ~Alike(v, bindingCache[n])
  PROVE  Cared(n)
<1>1. nsEvents \in [Namespaces -> Seq(NamespaceObject \cup {Absent})]
  BY DEF Shape, TypeOK, ClusterTypeOK
<1>2. ASSUME NEW v \in NamespaceObject, WriteNamespace(n, v) PROVE Attended(n)'
  <2>1. nsEvents' = [nsEvents EXCEPT ![n] = Append(nsEvents[n], v)]
    BY <1>2 DEF WriteNamespace
  <2>2. nsEvents[n] \in Seq(NamespaceObject \cup {Absent}) /\ v \in NamespaceObject \cup {Absent}
    BY <1>1
  <2>3. Append(nsEvents[n], v) # << >>
    BY <2>2, AppendProperties
  <2>. QED BY <1>1, <2>1, <2>3 DEF Attended
<1>3. ASSUME NEW v \in BindingObject \cup {Absent}, WriteBinding(n, v), ~Alike(v, bindingCache[n])
      PROVE  Attended(n)'
  <2>1. Unheard(n)'
    BY <1>3, WriteHeard
  <2>. QED BY <2>1 DEF Attended, Unheard
<1>. QED BY <1>2, <1>3 DEF Cared

\* The class is read as it is now; a finalizer that is added makes itself heard.
LEMMA ClassReadCares ==
  ASSUME Shape, CacheTrails, NEW n \in Namespaces, cur = n, OnTrack(n), ReadClass \/ AddFinalizer
  PROVE  Cared(n)
<1>1. pass \in PassRecord /\ pass.ns = namespace[n] /\ pass.ns # Absent
  BY DEF Shape, TypeOK, PassShape, ReadClass, AddFinalizer, At, OnTrack
<1>2. CASE ReadClass
  <2> DEFINE found == class[namespace[n].label]
  <2>1. /\ pass' = [pass EXCEPT !.resources = found, !.step = AfterReadClass(found)]
        /\ UNCHANGED <<nsStore, bindingStore, classVars>>
    BY <1>1, <1>2 DEF ReadClass, Proceed
  <2> HIDE DEF found
  <2>2. /\ pass'.cur = n /\ pass'.ns = pass.ns /\ pass'.resources = found
        /\ pass'.step = AfterReadClass(found)
    BY <1>1, <2>1 DEF PassRecord, cur
  <2>3. /\ Deleting' = Deleting /\ namespace' = namespace /\ class' = class
        /\ bindingCache' = bindingCache
    BY <2>1, <2>2 DEF Deleting, nsStore, bindingStore, classVars
  <2>4. CASE pass'.step = "lookup" /\ (found # Absent => pass.ns.finalizer)
    <3>1. OnTrack(n)'
      BY <1>1, <2>2, <2>3, <2>4 DEF OnTrack, At, BindingSteps, found
    <3>. QED BY <2>2, <3>1 DEF Cared, cur
  <2>5. CASE pass'.step = "addFinalizer"
    <3>1. OnTrack(n)'
      BY <1>1, <2>2, <2>3, <2>5 DEF OnTrack, At, BindingSteps, found
    <3>. QED BY <2>2, <3>1 DEF Cared, cur
  <2>. QED BY <2>2, <2>4, <2>5 DEF AfterReadClass
<1>3. CASE AddFinalizer
  <2>1. [pass.ns EXCEPT !.finalizer = TRUE] \in NamespaceObject
    BY <1>1 DEF PassRecord, NamespaceObject
  <2>. QED BY <1>3, <2>1, ChangeCares, RetryCares DEF AddFinalizer
<1>. QED BY <1>2, <1>3

\* The cached binding is as good as the live one, as far as its class goes.
LEMMA LookupCares ==
  ASSUME Shape, CacheTrails, NEW n \in Namespaces, cur = n, OnTrack(n), Lookup
  PROVE  Cared(n)
<1> DEFINE found == bindingCache[n]
           held == [pass EXCEPT !.binding = found]
<1>1. /\ pass \in PassRecord /\ pass.step = "lookup" /\ pass.ns = namespace[n]
      /\ UNCHANGED <<nsStore, bindingStore, classVars>>
      /\ found \in BindingObject \cup {Absent}
  BY DEF Shape, TypeOK, ClusterTypeOK, Lookup, At, OnTrack
<1>2. /\ held \in PassRecord /\ held.cur = n /\ held.ns = pass.ns
      /\ held.resources = pass.resources /\ held.binding = found
  BY <1>1 DEF PassRecord, cur
<1>0. found = bindingCache[n] /\ held = [pass EXCEPT !.binding = found]
  OBVIOUS
<1> HIDE DEF found, held
<1>3. namespace' = namespace /\ bindingCache' = bindingCache /\ class' = class
  BY <1>1 DEF nsStore, bindingStore, classVars
<1>4. CASE found = Absent
  <2> DEFINE step == IF Deleting \/ Unlabelled THEN "removeFinalizer" ELSE "create"
  <2>1. pass' = Goto(step)
    BY <1>0, <1>4 DEF Lookup, Proceed
  <2>2. /\ pass'.cur = n /\ pass'.ns = pass.ns /\ pass'.resources = pass.resources
        /\ pass'.step = step
    BY <1>1, <2>1 DEF Goto, PassRecord, cur
  <2>3. Deleting' = Deleting /\ Unlabelled' = Unlabelled /\ ~BoundAsAsked(n)'
    BY <1>0, <1>3, <1>4, <2>2 DEF Deleting, Unlabelled, BoundAsAsked
  <2>4. OnTrack(n)'
    BY <1>0, <1>1, <1>3, <1>4, <2>2, <2>3 DEF OnTrack, At, BindingSteps
  <2>. QED BY <2>2, <2>4 DEF Cared, cur
<1>5. ASSUME found # Absent, GoesOnFrom(held, pass'), Deleting \/ Unlabelled \/ BoundAsAsked(n)
      PROVE  Cared(n)
  <2>1. cur' = n /\ OnTrack(n)'
    BY <1>0, <1>1, <1>2, <1>5, StaysOnTrack
  <2>. QED BY <2>1 DEF Cared
<1>6. CASE found # Absent /\ (Deleting \/ Unlabelled)
  <2>1. \E s : pass' = SweepOf(held, s)
    BY <1>0, <1>6 DEF Lookup, TakeCachedBinding
  <2>. QED BY <1>2, <1>5, <1>6, <2>1, SweepGoesOn
<1>7. CASE found # Absent /\ ~Deleting /\ ~Unlabelled /\ found.class # pass.ns.label
  <2>1. pass' = [held EXCEPT !.step = "update"]
    BY <1>0, <1>7 DEF Lookup, TakeCachedBinding
  <2>2. /\ pass'.cur = n /\ pass'.ns = pass.ns /\ pass'.resources = pass.resources
        /\ pass'.binding = found /\ pass'.step = "update"
    BY <1>2, <2>1 DEF PassRecord
  <2>3. Deleting' = Deleting /\ Unlabelled' = Unlabelled /\ ~BoundAsAsked(n)'
    BY <1>0, <1>1, <1>3, <1>7, <2>2 DEF Deleting, Unlabelled, BoundAsAsked
  <2>4. OnTrack(n)'
    BY <1>0, <1>1, <1>3, <1>7, <2>2, <2>3 DEF OnTrack, At
  <2>. QED BY <2>2, <2>4 DEF Cared, cur
<1>8. CASE found # Absent /\ ~Deleting /\ ~Unlabelled /\ found.class = pass.ns.label
  <2>1. pass' = WithBinding(held)
    BY <1>0, <1>8 DEF Lookup, TakeCachedBinding
  <2>2. BoundAsAsked(n)
    BY <1>0, <1>1, <1>8 DEF BoundAsAsked
  <2>. QED BY <1>2, <1>5, <1>8, <2>1, <2>2, WithBindingGoesOn
<1>. QED BY <1>4, <1>6, <1>7, <1>8

\* A binding that comes, goes or changes its class makes itself heard.
LEMMA BindingWriteCares ==
  ASSUME Shape, CacheTrails, NEW n \in Namespaces, cur = n, OnTrack(n),
         CreateBinding \/ UpdateBinding \/ DeleteBinding
  PROVE  Cared(n)
<1>1. pass \in PassRecord /\ pass.ns = namespace[n]
  BY DEF Shape, TypeOK, OnTrack
<1>2. CASE CreateBinding
  <2>1. NewBinding \in BindingObject /\ NewBinding # Absent /\ bindingCache[n] = Absent
    BY <1>1, <1>2, SentinelAssumption DEF CreateBinding, NewBinding, Shape, PassShape, At,
       PassRecord, NamespaceObject, BindingObject, OnTrack
  <2>2. ~Alike(NewBinding, bindingCache[n])
    BY <2>1 DEF Alike, BindingReconcilePredicate
  <2>. QED BY <1>2, <2>1, <2>2, ChangeCares, RetryCares DEF CreateBinding
<1>3. CASE UpdateBinding
  <2> DEFINE switched == [pass.binding EXCEPT !.class = pass.ns.label]
  <2>1. /\ pass.binding \in BindingObject /\ pass.ns.label \in Classes /\ At("update")
        /\ ~Deleting /\ ~Unlabelled
    BY <1>1, <1>3 DEF UpdateBinding, Shape, PassShape, At, BindingSteps, PassRecord,
       NamespaceObject, Unlabelled
  <2>2. switched \in BindingObject /\ switched.class = pass.ns.label
    BY <2>1 DEF BindingObject
  <2>3. bindingCache[n] # Absent /\ bindingCache[n].class # pass.ns.label
    BY <1>1, <2>1 DEF OnTrack, BoundAsAsked, At, BindingSteps
  <2> HIDE DEF switched
  <2>4. ~Alike(switched, bindingCache[n])
    BY <2>2, <2>3, SentinelAssumption DEF Alike, BindingReconcilePredicate
  <2>. QED BY <1>3, <2>2, <2>4, ChangeCares, RetryCares DEF UpdateBinding, switched
<1>4. CASE DeleteBinding
  <2>1. bindingCache[n] # Absent
    BY <1>4 DEF DeleteBinding, OnTrack, At, BindingSteps
  <2>2. ~Alike(Absent, bindingCache[n])
    BY <2>1 DEF Alike, BindingReconcilePredicate
  <2>. QED BY <1>4, <2>2, ChangeCares DEF DeleteBinding
<1>. QED BY <1>2, <1>3, <1>4

\* Preparing, applying and sweeping go by what the pass knows.
LEMMA WorkCares ==
  ASSUME Shape, NEW n \in Namespaces, cur = n, OnTrack(n),
         \/ Prepare \/ ApplyResource \/ CheckStale \/ DeleteStale
         \/ CallFails \/ ApplyReplyLost \/ DeleteReplyLost
  PROVE  Cared(n)
<1>1. pass \in PassRecord /\ UNCHANGED <<nsStore, bindingStore, classVars>>
  BY DEF Shape, TypeOK, Prepare, ApplyResource, CheckStale, DeleteStale, CallFails, ApplyReplyLost,
     DeleteReplyLost, Fault
<1>2. ASSUME pass.step \in {"prepare", "apply", "sweep", "delete"},
             NEW p, p.cur = cur, p.ns = pass.ns, p.resources = pass.resources,
             p.binding = pass.binding, GoesOnFrom(p, pass')
      PROVE  Cared(n)
  <2>1. /\ bindingCache[n] # Absent /\ bindingCache[n].class = p.binding.class
        /\ Deleting \/ Unlabelled \/ BoundAsAsked(n)
    BY <1>2, KnownToPass DEF BindingSteps
  <2>2. cur' = n /\ OnTrack(n)'
    BY <1>1, <1>2, <2>1, StaysOnTrack
  <2>. QED BY <2>2 DEF Cared
<1>3. ASSUME pass.step \in {"prepare", "apply", "sweep", "delete"},
             NEW reason \in Reasons \ {"BindingRecorded"}, pass' = FailWith(reason)
      PROVE  Cared(n)
  <2>1. cur' = n /\ OnTrack(n)'
    BY <1>1, <1>3, FailsOnTrack
  <2>. QED BY <2>1 DEF Cared
<1>4. SweepFailed \in Reasons \ {"BindingRecorded"} /\ "ApplyFailed" \in Reasons \ {"BindingRecorded"}
  BY DEF SweepFailed, Reasons
<1>5. CASE Prepare
  <2> DEFINE t == pass.resources[Len(pass.todo) + 1]
  <2>1. Refusal(t) \in (Reasons \ {"BindingRecorded"}) \cup {"none"}
    BY DEF Refusal, Reasons
  <2>2. Append(pass.todo, t) \in Seq(Templates) /\ pass.step = "prepare"
    BY <1>5, NextToPrepare DEF Prepare, At
  <2> HIDE DEF t
  <2>3. GoesOnFrom(pass, PrepareOf(pass, Append(pass.todo, t)))
    BY <1>1, <2>2, PrepareGoesOn
  <2>. QED BY <1>2, <1>3, <1>5, <2>1, <2>2, <2>3 DEF Prepare, Proceed, t, cur
<1>6. CASE ApplyResource
  <2> DEFINE t == Head(pass.todo)
             p == [pass EXCEPT !.applied = @ \cup {RefOf(t, cur)}]
  <2>1. t \in Templates /\ Tail(pass.todo) \in Seq(Templates) /\ pass.step = "apply"
    BY <1>6, NextToApply DEF ApplyResource, At
  <2>2. /\ p \in PassRecord /\ p.cur = cur /\ p.ns = pass.ns /\ p.resources = pass.resources
        /\ p.binding = pass.binding
    BY <1>1, <2>1, RefsAndObjects DEF PassRecord, cur
  <2>3. ApplyRefusals(t) \subseteq Reasons \ {"BindingRecorded"}
    BY DEF ApplyRefusals, Reasons
  <2> HIDE DEF p
  <2>4. GoesOnFrom(p, ApplyOf(p, Tail(pass.todo)))
    BY <2>1, <2>2, ApplyGoesOn
  <2> HIDE DEF t
  <2>5. \/ pass' = ApplyOf(p, Tail(pass.todo))
        \/ \E reason \in ApplyRefusals(t) : pass' = FailWith(reason)
    BY <1>6 DEF ApplyResource, Proceed, p, t
  <2>. QED BY <1>2, <1>3, <2>1, <2>2, <2>3, <2>4, <2>5
<1>7. CASE CheckStale
  <2>1. pass.step = "sweep"
    BY <1>7 DEF CheckStale, At
  <2>2. ASSUME NEW r, pass' = [pass EXCEPT !.target = r, !.step = "delete"] PROVE Cared(n)
    <3>1. GoesOnFrom(pass, pass')
      BY <1>1, <2>2 DEF GoesOnFrom, PassRecord, BindingSteps
    <3>. QED BY <1>2, <2>1, <3>1 DEF cur
  <2>3. ASSUME NEW s, pass' = SweepOf(pass, s) PROVE Cared(n)
    BY <1>1, <1>2, <2>1, <2>3, SweepGoesOn DEF cur
  <2>. QED BY <1>3, <1>4, <1>7, <2>1, <2>2, <2>3 DEF CheckStale, Proceed
<1>8. CASE DeleteStale
  <2>1. pass.step = "delete" /\ pass' = SweepOf(pass, pass.stale \ {pass.target})
    BY <1>8 DEF DeleteStale, At, Proceed
  <2>. QED BY <1>1, <1>2, <2>1, SweepGoesOn DEF cur
<1>9. CASE CallFails
  <2>1. \/ Return("retry")
        \/ pass.step \in {"prepare", "apply"} /\ pass' = FailWith("ApplyFailed")
        \/ pass.step \in {"sweep", "delete"} /\ pass' = FailWith(SweepFailed)
    BY <1>9 DEF CallFails, Proceed
  <2>. QED BY <1>3, <1>4, <2>1, RetryCares
<1>10. CASE ApplyReplyLost \/ DeleteReplyLost
  <2>1. \/ pass.step = "apply" /\ pass' = FailWith("ApplyFailed")
        \/ pass.step = "delete" /\ pass' = FailWith(SweepFailed)
    BY <1>10 DEF ApplyReplyLost, DeleteReplyLost, At, Proceed
  <2>. QED BY <1>3, <1>4, <2>1
<1>. QED BY <1>5, <1>6, <1>7, <1>8, <1>9, <1>10

\* A pass that is about to record success has applied exactly what the class asks for.
LEMMA AllApplied ==
  ASSUME Shape, OrderInv, PreparedInv, At("recordReady")
  PROVE  Appliable(pass.resources, cur) /\ pass.applied = DesiredBy(pass.resources, cur)
<1>1. /\ Reconciling /\ Desired \subseteq pass.applied /\ Preparable(pass.resources, cur)
      /\ AppliedSound(pass)
  BY DEF Shape, PassShape, OrderInv, SweepComesLast, PreparedInv, AppliedSound, At, cur
<1>2. pass.applied \subseteq DesiredBy(pass.resources, cur)
  BY <1>1 DEF AppliedSound, DesiredBy, cur
<1>3. ASSUME NEW i \in DOMAIN pass.resources PROVE pass.resources[i].fault = "none"
  <2>1. RefOf(pass.resources[i], cur) \in pass.applied
    BY <1>1 DEF Desired, DesiredBy
  <2>2. PICK j \in DOMAIN pass.resources :
          RefOf(pass.resources[j], cur) = RefOf(pass.resources[i], cur) /\ pass.resources[j].fault = "none"
    BY <1>1, <2>1 DEF AppliedSound, cur
  <2>3. i = j
    BY <1>1, <2>2 DEF Preparable, Distinct
  <2>. QED BY <2>2, <2>3
<1>. QED BY <1>1, <1>2, <1>3 DEF Appliable, Preparable, Desired

\* The last steps of a pass: what it has not retried or set a timer for is in order.
LEMMA ReturnCares ==
  ASSUME Shape, CacheTrails, HeldIsCurrent, OrderInv, PreparedInv,
         NEW n \in Namespaces, cur = n, ~Attended(n), OnTrack(n),
         RecordReady \/ RecordFailure \/ RemoveFinalizer
  PROVE  Cared(n)
<1>1. pass \in PassRecord /\ pass.ns = namespace[n] /\ namespace[n] # Absent
  BY DEF Shape, TypeOK, PassShape, OnTrack, RecordReady, RecordFailure, RemoveFinalizer, At
<1>2. ASSUME NEW result, Return(result) PROVE cur' # n
  BY <1>2, SentinelAssumption DEF Return, Idle, cur
<1>3. ASSUME Return("periodic"), Periodic PROVE Cared(n)
  BY <1>3 DEF Return, Cared, Attended
<1>4. ASSUME RecordReady, StatusUpdate(pass.applied, "BindingRecorded"), Return("periodic"), ~Periodic
      PROVE  Cared(n)
  <2> DEFINE v == [pass.binding EXCEPT !.inventory = pass.applied, !.reason = "BindingRecorded"]
  <2>1. WriteBinding(n, v) /\ At("recordReady") /\ UNCHANGED <<nsStore, classVars>>
    BY <1>4 DEF RecordReady, StatusUpdate
  <2>2. pass.binding \in BindingObject /\ pass.applied \in SUBSET Refs /\ Reconciling
    BY <2>1, WorkingPass DEF At, Shape, PassShape
  <2>3. /\ v \in BindingObject /\ v.class = pass.binding.class /\ v.inventory = pass.applied
        /\ v.reason = "BindingRecorded"
    BY <2>2 DEF BindingObject, Reasons
  <2> HIDE DEF v
  <2>4. binding'[n] = v
    BY <2>1, <2>3, BindingWritten
  <2>5. /\ bindingCache[n].class = pass.binding.class /\ BoundAsAsked(n)
        /\ pass.resources = class[namespace[n].label] /\ pass.ns.finalizer
    BY <2>1, <2>2 DEF OnTrack, At, BindingSteps, Reconciling
  <2>6. v.class = namespace[n].label /\ v # Absent
    BY <2>3, <2>5, SentinelAssumption DEF BoundAsAsked
  <2>7. namespace' = namespace /\ class' = class
    BY <2>1 DEF nsStore, classVars
  <2>8. ~namespace[n].deleting /\ namespace[n].label # NoLabel /\ class[namespace[n].label] # Absent
    BY <1>1, <2>2, <2>5 DEF Reconciling, Deleting, Unlabelled
  <2>9. Fulfilled(n)'
    BY <1>1, <2>1, <2>3, <2>4, <2>5, <2>6, <2>7, <2>8, AllApplied DEF Fulfilled
  <2>. QED BY <1>2, <1>4, <2>7, <2>8, <2>9 DEF Cared, Accounted
<1>5. ASSUME RecordFailure, ~Deleting, Return("periodic"), ~Periodic,
             StatusUpdate(MergeResourceRefs(pass.binding.inventory, pass.applied), pass.reason)
      PROVE  Cared(n)
  <2> DEFINE merged == MergeResourceRefs(pass.binding.inventory, pass.applied)
             v == [pass.binding EXCEPT !.inventory = merged, !.reason = pass.reason]
  <2>1. WriteBinding(n, v) /\ At("recordFailure") /\ UNCHANGED <<nsStore, classVars>>
    BY <1>5 DEF RecordFailure, StatusUpdate
  <2>2. /\ pass.binding \in BindingObject /\ pass.applied \in SUBSET Refs
        /\ pass.reason \in Reasons \cup {"none"} /\ pass.reason \notin {"none", "BindingRecorded"}
    BY <1>1, <2>1, WorkingPass DEF At, PassRecord, OnTrack
  <2>3. v \in BindingObject /\ v.reason = pass.reason /\ v # Absent
    BY <2>2, SentinelAssumption DEF BindingObject, MergeResourceRefs
  <2> HIDE DEF v
  <2>4. binding'[n] = v
    BY <2>1, <2>3, BindingWritten
  <2>5. Reported(n)' /\ namespace' = namespace
    BY <2>1, <2>2, <2>3, <2>4 DEF Reported, nsStore
  <2>. QED BY <1>1, <1>2, <1>5, <2>1, <2>5 DEF Cared, Accounted, Deleting
<1>6. CASE RecordReady
  BY <1>3, <1>4, <1>6, RetryCares DEF RecordReady
<1>7. CASE RecordFailure
  <2>1. \/ Return("retry")
        \/ /\ StatusUpdate(MergeResourceRefs(pass.binding.inventory, pass.applied), pass.reason)
           /\ Return("periodic") /\ ~Deleting
    BY <1>7 DEF RecordFailure
  <2>. QED BY <1>3, <1>5, <1>7, <2>1, RetryCares
<1>8. CASE RemoveFinalizer
  <2>1. Deleting \/ (Unlabelled /\ bindingCache[n] = Absent)
    BY <1>8 DEF RemoveFinalizer, OnTrack
  <2>2. CASE pass.ns.finalizer
    <3>1. [pass.ns EXCEPT !.finalizer = FALSE] \in NamespaceObject
      BY <1>1 DEF PassRecord, NamespaceObject
    <3>. QED BY <1>8, <2>2, <3>1, ChangeCares, RetryCares DEF RemoveFinalizer
  <2>3. CASE ~pass.ns.finalizer
    <3>1. Unlabelled /\ bindingCache[n] = Absent
      BY <2>1, <2>3 DEF OnTrack
    <3>2. Alike(bindingCache[n], binding[n])
      BY LiveIsSighted DEF Attended
    <3>3. binding[n] = Absent
      BY <3>1, <3>2 DEF Alike, BindingReconcilePredicate
    <3>4. /\ UNCHANGED <<nsStore, bindingStore>> /\ \E result : Return(result)
      BY <1>8, <2>3 DEF RemoveFinalizer
    <3>5. Accounted(n)'
      BY <1>1, <2>3, <3>1, <3>3, <3>4 DEF Accounted, Unlabelled, Deleting, nsStore, bindingStore
    <3>. QED BY <1>2, <3>4, <3>5 DEF Cared
  <2>. QED BY <2>2, <2>3
<1>. QED BY <1>6, <1>7, <1>8

\* Every call of a pass over an unattended namespace takes care of it.
LEMMA OwnCallCares ==
  ASSUME Shape, CacheTrails, HeldIsCurrent, OrderInv, PreparedInv, Call,
         NEW n \in Namespaces, cur = n, ~Attended(n), OnTrack(n)
  PROVE  Cared(n)
<1>1. ~RereadBinding
  BY DEF RereadBinding, OnTrack
<1>2. NamespaceReplyLost \/ BindingReplyLost => Return("retry")
  BY DEF NamespaceReplyLost, BindingReplyLost
<1>. QED BY <1>1, <1>2, ClassReadCares, LookupCares, BindingWriteCares, WorkCares, ReturnCares,
         RetryCares DEF Call, PassStep

\* A pass takes its namespace out of the queue and goes by the cached version: it is the
\* live one, or an event is still to come.
LEMMA StartCares ==
  ASSUME Shape, UIDInv, WakeInv, NEW m \in Namespaces, Start(m) PROVE WakeInv'
<1>1. /\ queue' = queue \ {m} /\ At("idle") /\ cur = Absent
      /\ UNCHANGED <<nsStore, bindingStore, classVars, timers>>
  BY DEF Start, Shape, PassShape, bindingVars
<1>2. \A n \in Namespaces : /\ Sightings(n)' = Sightings(n) /\ (Accounted(n) => Accounted(n)')
                            /\ Unheard(n)' = Unheard(n) /\ Called(n)' = Called(n)
                            /\ nsEvents'[n] = nsEvents[n]
  BY <1>1 DEF Sightings, Accounted, Fulfilled, Reported, Unheard, Called, Alike,
     BindingReconcilePredicate, RequestsForNamespaceClass, nsStore, bindingStore, classVars
<1>3. \A n \in Namespaces : Attended(n) \/ Accounted(n)
  BY <1>1, SentinelAssumption DEF WakeInv
<1>4. cur' \in {m, Absent} /\ (cur' = Absent => pass' = pass)
  BY <1>1, SentinelAssumption DEF Start, Idle, cur
<1>5. ASSUME NEW n \in Namespaces \ {m} PROVE cur' # n /\ (Attended(n)' \/ Accounted(n)')
  <2>1. n \in queue \cup timers => n \in queue' \cup timers'
    BY <1>1
  <2>. QED BY <1>2, <1>3, <1>4, <2>1, StillAttended, SentinelAssumption
<1>6. ASSUME ~Attended(m)' PROVE IF cur' = m THEN OnTrack(m)' ELSE Accounted(m)'
  <2>1. nsEvents[m] = << >>
    BY <1>2, <1>6 DEF Attended
  <2>2. nsCache[m] = namespace[m] /\ namespace'[m] = namespace[m]
    BY <1>1, <2>1 DEF UIDInv, Latest, nsStore
  <2>3. CASE namespace[m] = Absent \/ (namespace[m].deleting /\ ~namespace[m].finalizer)
    <3>1. pass' = pass
      BY <2>2, <2>3 DEF Start
    <3>2. cur' # m
      BY <1>1, <3>1, SentinelAssumption DEF cur
    <3>. QED BY <2>2, <2>3, <3>2 DEF Accounted
  <2>4. CASE namespace[m] # Absent /\ (namespace[m].deleting => namespace[m].finalizer)
    <3> DEFINE ns == namespace[m]
               step == IF ns.deleting \/ ns.label = NoLabel THEN "lookup" ELSE "readClass"
    <3>1. pass' = [Idle EXCEPT !.cur = m, !.ns = ns, !.step = step]
      BY <2>2, <2>4 DEF Start
    <3>2. pass'.cur = m /\ pass'.ns = ns /\ pass'.step = step
      BY <3>1 DEF Idle
    <3>3. OnTrack(m)'
      BY <2>2, <2>4, <3>2 DEF OnTrack, At, Deleting, Unlabelled, BindingSteps
    <3>. QED BY <3>2, <3>3 DEF cur
  <2>. QED BY <2>3, <2>4
<1>. QED BY <1>4, <1>5, <1>6 DEF WakeInv

\* The successor of a controller queues all there is.
LEMMA RestartCares == ASSUME Shape, Restart PROVE WakeInv'
<1>1. /\ queue' = {n \in Namespaces : namespace[n] # Absent \/ binding[n] # Absent}
      /\ namespace' = namespace /\ cur' \notin Namespaces
  BY SentinelAssumption DEF Restart, Idle, cur
<1>2. ASSUME NEW n \in Namespaces PROVE Attended(n)' \/ Accounted(n)'
  BY <1>1 DEF Attended, Accounted
<1>. QED BY <1>1, <1>2 DEF WakeInv

\* Nothing is ever lost sight of.
LEMMA WakeInvariant == Spec => []WakeInv
<1>1. Init => WakeInv
  <2> SUFFICES ASSUME Init PROVE WakeInv
    OBVIOUS
  <2>1. cur \notin Namespaces /\ \A n \in Namespaces : namespace[n] = Absent
    BY SentinelAssumption DEF Init, ClusterInit, Idle, cur
  <2>. QED BY <2>1 DEF WakeInv, Accounted
<1>2. IInv /\ OrderInv /\ PreparedInv /\ UIDInv /\ WakeInv /\ [Next]_vars => WakeInv'
  <2> SUFFICES ASSUME IInv, OrderInv, PreparedInv, UIDInv, WakeInv, [Next]_vars PROVE WakeInv'
    OBVIOUS
  <2>1. Shape /\ CacheTrails /\ HeldIsCurrent
    BY DEF IInv, Shape
  <2>2. CASE UNCHANGED vars
    BY <2>2 DEF vars, clusterVars, nsVars, nsStore, bindingVars, bindingStore, classVars, workVars,
       WakeInv, OnTrack, Accounted, Fulfilled, Reported, Attended, Sightings, Alike,
       BindingReconcilePredicate, RequestsForNamespaceClass, At, Deleting, Unlabelled,
       BoundAsAsked, cur
  <2>3. CASE Delivery \/ (Environment /\ UNCHANGED <<workVars, budgetVars>>)
    <3>1. pass' = pass
      BY <2>3 DEF Delivery, DeliverNamespace, DeliverBinding, DeliverClass, Requeue, workVars
    <3>2. ASSUME NEW n \in Namespaces
          PROVE  Attended(n)' \/ IF cur' = n THEN OnTrack(n)' ELSE Accounted(n)'
      <4>1. Attended(n)' \/ (~Attended(n) /\ LeftUnseen(n))
        BY <2>1, <2>3, DeliveryNoticed, EnvironmentNoticed
      <4>2. CASE ~Attended(n) /\ LeftUnseen(n)
        <5>1. (OnTrack(n) => OnTrack(n)') /\ (Accounted(n) => Accounted(n)')
          BY <2>1, <3>1, <4>2, UnseenKept
        <5>2. cur' = cur
          BY <3>1 DEF cur
        <5>. QED BY <4>2, <5>1, <5>2 DEF WakeInv
      <4>. QED BY <4>1, <4>2
    <3>. QED BY <3>2 DEF WakeInv
  <2>4. CASE Call
    <3>1. ASSUME NEW n \in Namespaces
          PROVE  Attended(n)' \/ IF cur' = n THEN OnTrack(n)' ELSE Accounted(n)'
      <4>1. CASE Attended(n)
        BY <2>1, <2>4, <4>1, CallKeepsAttention
      <4>2. CASE ~Attended(n) /\ cur = n
        BY <2>1, <2>4, <4>2, OwnCallCares DEF WakeInv, Cared
      <4>3. CASE ~Attended(n) /\ cur # n
        <5>1. /\ namespace'[n] = namespace[n] /\ binding'[n] = binding[n] /\ class' = class
              /\ cur' # n
          BY <2>1, <2>4, <4>3, WritesItsOwn
        <5>2. Accounted(n)'
          BY <4>3, <5>1 DEF WakeInv, Accounted, Fulfilled, Reported
        <5>. QED BY <5>1, <5>2
      <4>. QED BY <4>1, <4>2, <4>3
    <3>. QED BY <3>1 DEF WakeInv
  <2>. QED BY <2>1, <2>2, <2>3, <2>4, StartCares, RestartCares DEF Next, Call
<1>. QED BY <1>1, <1>2, InductiveInvariant, OrderInvariant, PreparedInvariant, UIDInvariant, PTL
     DEF Spec

\* No wakeup is ever lost: a namespace that is neither worked on nor queued, timed or about to
\* be queued by an event in flight has nothing left to be done for it.
THEOREM NothingLost == Spec => []NothingForgotten
<1>1. WakeInv => NothingForgotten
  BY DEF WakeInv, NothingForgotten
<1>. QED BY <1>1, WakeInvariant, PTL

-----------------------------------------------------------------------------
(* Part 4: what is recorded is in place.                                   *)

\* Users keep their hands off what the controller has made.
ObjectsUntouched == {"deleteObject", "stripMarkers", "driftObject"} \cap Edits = {}

\* The step changes nothing that is namespace n's own.
LeavesAlone(n) ==
  \A o \in Objects : o.namespace \in {n, Cluster} /\ owner[o] = namespace[n].uid => ~Changes(o)

LEMMA StaysInPlace ==
  ASSUME Shape, NEW n \in Namespaces, NEW t \in Templates, InPlace(t, n),
         namespace'[n] = namespace[n], LeavesAlone(n)
  PROVE  /\ owner'[ObjectOf(RefOf(t, n))] = namespace'[n].uid
         /\ content'[ObjectOf(RefOf(t, n))] = t.body
<1> DEFINE o == ObjectOf(RefOf(t, n))
<1>1. o \in Objects /\ o.namespace \in {n, Cluster}
  <2>1. o.namespace \in {n, Cluster}
    BY DEF ObjectOf, RefOf
  <2>. QED BY <2>1, RefsAndObjects
<1>2. owner[o] = namespace[n].uid /\ content[o] = t.body
  BY DEF InPlace
<1> HIDE DEF o
<1>3. owner'[o] = owner[o] /\ content'[o] = content[o]
  BY <1>1, <1>2 DEF LeavesAlone, Changes
<1>. QED BY <1>2, <1>3 DEF o

\* What is up to date stays so if neither its namespace, its binding, its class nor its
\* objects change.
LEMMA StaysUpToDate ==
  ASSUME Shape, NEW n \in Namespaces, UpToDate(n),
         namespace'[n] = namespace[n], binding'[n] = binding[n],
         namespace[n] # Absent /\ ~namespace[n].deleting => LeavesAlone(n),
         binding[n] # Absent /\ binding[n].class = namespace[n].label =>
           class'[namespace[n].label] = class[namespace[n].label]
  PROVE  UpToDate(n)'
<1> DEFINE resources == class[namespace[n].label]
<1>1. CASE ~(namespace[n] # Absent /\ ~namespace[n].deleting /\ Fulfilled(n)')
  BY <1>1 DEF UpToDate
<1>2. CASE namespace[n] # Absent /\ ~namespace[n].deleting /\ Fulfilled(n)'
  <2>1. class'[namespace'[n].label] = resources
    BY <1>2 DEF Fulfilled
  <2>2. Fulfilled(n)
    BY <1>2, <2>1 DEF Fulfilled
  <2>3. resources \in Seq(Templates)
    <3>1. namespace[n].label \in Classes
      BY <1>2, <2>2, WhatIsThere DEF Fulfilled, NamespaceObject
    <3>. QED BY <2>2, <3>1, WhatIsThere DEF Fulfilled
  <2>4. ASSUME NEW i \in DOMAIN resources
        PROVE  /\ owner'[ObjectOf(RefOf(resources[i], n))] = namespace'[n].uid
               /\ content'[ObjectOf(RefOf(resources[i], n))] = resources[i].body
    <3>1. resources[i] \in Templates /\ InPlace(resources[i], n)
      BY <1>2, <2>2, <2>3, <2>4, ElementOfSeq DEF UpToDate
    <3>. QED BY <1>2, <3>1, StaysInPlace
  <2> HIDE DEF resources
  <2>. QED BY <2>1, <2>4 DEF UpToDate, InPlace
<1>. QED BY <1>1, <1>2

\* So does what a pass has applied.
LEMMA StaysInHand ==
  ASSUME Shape, NEW n \in Namespaces, InHand(n), namespace'[n] = namespace[n],
         pass.applied # {} => LeavesAlone(n),
         pass'.applied = {} \/ (pass'.applied = pass.applied /\ pass'.resources = pass.resources)
  PROVE  InHand(n)'
<1>1. CASE pass'.applied = {}
  BY <1>1 DEF InHand
<1>2. CASE pass.applied # {} /\ pass'.applied = pass.applied /\ pass'.resources = pass.resources
  <2>1. pass.resources \in Seq(Templates)
    BY <1>2, DataAssumption DEF Shape, TypeOK, PassRecord, PassShape, Reconciling
  <2>2. ASSUME NEW r \in pass.applied, NEW i \in DOMAIN pass.resources,
               RefOf(pass.resources[i], n) = r
        PROVE  /\ owner'[ObjectOf(RefOf(pass.resources[i], n))] = namespace'[n].uid
               /\ content'[ObjectOf(RefOf(pass.resources[i], n))] = pass.resources[i].body
    <3>1. pass.resources[i] \in Templates /\ InPlace(pass.resources[i], n)
      BY <2>1, <2>2, ElementOfSeq DEF InHand
    <3>. QED BY <1>2, <3>1, StaysInPlace
  <2>. QED BY <1>2, <2>2 DEF InHand, InPlace
<1>. QED BY <1>1, <1>2

\* A pass that has applied something to an unattended namespace has a living one.
LEMMA AppliedToTheLiving ==
  ASSUME Shape, NEW n \in Namespaces, cur = n, OnTrack(n), pass.applied # {}
  PROVE  namespace[n] # Absent /\ ~namespace[n].deleting /\ pass.ns = namespace[n]
BY DEF Shape, PassShape, OnTrack, At, Reconciling, Deleting

\* Users and Kubernetes leave the objects of a living namespace alone.
LEMMA EnvironmentSpares ==
  ASSUME Shape, ObjectsUntouched, Environment, NEW n \in Namespaces,
         namespace[n] # Absent, ~namespace[n].deleting
  PROVE  LeavesAlone(n)
<1>1. /\ namespace[n].uid \in UIDs
      /\ owner \in [Objects -> UIDs \cup {Absent, Unowned}]
      /\ content \in [Objects -> Bodies \cup {Blank, Drifted}]
  BY WhatIsThere DEF Shape, TypeOK, ClusterTypeOK
<1>2. CASE UNCHANGED objectVars
  BY <1>2 DEF LeavesAlone, Changes, objectVars
<1>3. ASSUME NEW o \in Objects, NEW who, NEW what, SetObject(o, who, what),
             owner[o] # namespace[n].uid \/ o.namespace \notin {n, Cluster}
      PROVE  LeavesAlone(n)
  <2>1. \A x \in Objects : x # o => ~Changes(x)
    BY <1>1, <1>3 DEF SetObject, Changes
  <2>. QED BY <1>3, <2>1 DEF LeavesAlone
<1>4. ASSUME NEW o \in Objects, NEW what, CreateObject(o, what) PROVE LeavesAlone(n)
  BY <1>1, <1>3, <1>4, SentinelAssumption DEF CreateObject, EditObject
<1>5. ASSUME NEW o \in Objects, CollectObject(o) PROVE LeavesAlone(n)
  BY <1>3, <1>5 DEF CollectObject, Terminating
<1>6. \A o \in Objects : ~DeleteObject(o) /\ ~StripMarkers(o) /\ ~DriftObject(o)
  BY DEF ObjectsUntouched, DeleteObject, StripMarkers, DriftObject, Edit
<1>7. ASSUME NEW m \in Namespaces, NEW l, CreateNamespace(m, l) \/ Relabel(m, l)
      PROVE  UNCHANGED objectVars
  BY <1>7 DEF CreateNamespace, Relabel, EditNamespace
<1>8. ASSUME NEW m \in Namespaces,
             DeleteNamespace(m) \/ DeleteBindingByHand(m) \/ FinishDeletion(m)
      PROVE  UNCHANGED objectVars
  BY <1>8 DEF DeleteNamespace, DeleteBindingByHand, FinishDeletion, EditNamespace
<1>9. ASSUME NEW c, NEW s, SetClass(c, s) PROVE UNCHANGED objectVars
  BY <1>9 DEF SetClass
<1>. QED BY <1>2, <1>4, <1>5, <1>6, <1>7, <1>8, <1>9 DEF Environment

\* What is so of n after a step that PlaceInv asks for.
Placed(n) == Attended(n)' \/ IF cur' = n THEN InHand(n)' ELSE UpToDate(n)'

\* What touches neither the pass nor any object of a living namespace.
LEMMA OutsidePlaces ==
  ASSUME Shape, CacheTrails, WakeInv, PlaceInv, ObjectsUntouched, NEW n \in Namespaces,
         Delivery \/ (Environment /\ UNCHANGED <<workVars, budgetVars>>)
  PROVE  Placed(n)
<1>1. pass' = pass /\ cur' = cur
  BY DEF Delivery, DeliverNamespace, DeliverBinding, DeliverClass, Requeue, workVars, cur
<1>2. Attended(n)' \/ (~Attended(n) /\ LeftUnseen(n))
  BY DeliveryNoticed, EnvironmentNoticed
<1>3. namespace[n] # Absent /\ ~namespace[n].deleting => LeavesAlone(n)
  <2>1. Delivery => UNCHANGED objectVars
    BY DEF Delivery, DeliverNamespace, DeliverBinding, DeliverClass, Requeue, clusterVars
  <2>2. UNCHANGED objectVars => LeavesAlone(n)
    BY DEF LeavesAlone, Changes, objectVars
  <2>. QED BY <2>1, <2>2, EnvironmentSpares
<1>4. ASSUME ~Attended(n), LeftUnseen(n), cur = n PROVE InHand(n)'
  <2>1. InHand(n) /\ OnTrack(n)
    BY <1>4 DEF WakeInv, PlaceInv
  <2>2. pass.applied # {} => LeavesAlone(n)
    BY <1>3, <1>4, <2>1, AppliedToTheLiving
  <2>. QED BY <1>1, <1>4, <2>1, <2>2, StaysInHand DEF LeftUnseen
<1>5. ASSUME ~Attended(n), LeftUnseen(n), cur # n PROVE UpToDate(n)'
  <2>1. UpToDate(n)
    BY <1>5 DEF PlaceInv
  <2>2. Alike(bindingCache[n], binding[n])
    BY <1>5, LiveIsSighted DEF Attended
  <2>3. ASSUME binding[n] # Absent, binding[n].class = namespace[n].label
        PROVE  class'[namespace[n].label] = class[namespace[n].label]
    <3>1. binding[n] \in BindingObject
      BY <2>3 DEF Shape, TypeOK, ClusterTypeOK
    <3>2. namespace[n].label \in Classes
      BY <2>3, <3>1 DEF BindingObject
    <3>3. n \in RequestsForNamespaceClass(namespace[n].label)
      BY <2>2, <2>3 DEF Alike, BindingReconcilePredicate, RequestsForNamespaceClass
    <3>. QED BY <1>5, <3>2, <3>3 DEF LeftUnseen
  <2>. QED BY <1>3, <1>5, <2>1, <2>3, StaysUpToDate DEF LeftUnseen
<1>. QED BY <1>1, <1>2, <1>4, <1>5 DEF Placed

\* The calls of a pass over another namespace.
LEMMA OthersPlace ==
  ASSUME IInv, UIDInv, PlaceInv, Call, NEW n \in Namespaces, cur # n, ~Attended(n)
  PROVE  Placed(n)
<1>1. Shape
  BY DEF IInv, Shape
<1>2. cur \in Namespaces /\ pass.ns # Absent
  BY <1>1 DEF Shape, PassShape, Call, PassStep, At, ReadClass, AddFinalizer, Lookup,
     CreateBinding, UpdateBinding, RereadBinding, Prepare, ApplyResource, CheckStale, DeleteStale,
     RecordReady, RecordFailure, DeleteBinding, RemoveFinalizer, CallFails, NamespaceReplyLost,
     BindingReplyLost, ApplyReplyLost, DeleteReplyLost
<1>3. ASSUME namespace[n] # Absent PROVE LeavesAlone(n)
  <2>1. namespace[n] \in Versions(n) \ {Absent} /\ pass.ns \in Versions(cur) \ {Absent}
    BY <1>1, <1>2, <1>3, LiveIsCopy DEF Versions
  <2>2. namespace[n].uid # pass.ns.uid /\ namespace[n].uid \in UIDs
    BY <1>1, <1>2, <1>3, <2>1, WhatIsThere DEF UIDInv
  <2>3. \A o \in Objects : owner[o] = namespace[n].uid => ~Changes(o)
    BY <2>2, OwnObjectsOnly DEF Call
  <2>. QED BY <2>3 DEF LeavesAlone
<1>4. /\ namespace'[n] = namespace[n] /\ binding'[n] = binding[n] /\ class' = class
      /\ cur' # n
  BY <1>1, WritesItsOwn
<1>. QED BY <1>1, <1>3, <1>4, StaysUpToDate DEF PlaceInv, Placed

\* A pass takes its namespace out of the queue and has applied nothing yet.
LEMMA StartPlaces ==
  ASSUME Shape, UIDInv, PlaceInv, NEW m \in Namespaces, Start(m), NEW n \in Namespaces
  PROVE  Placed(n)
<1>1. /\ queue' = queue \ {m} /\ At("idle") /\ cur = Absent
      /\ UNCHANGED <<nsStore, bindingStore, classVars, objectVars, timers>>
  BY DEF Start, Shape, PassShape, bindingVars
<1>2. /\ Unheard(n)' = Unheard(n) /\ Called(n)' = Called(n) /\ nsEvents'[n] = nsEvents[n]
      /\ namespace'[n] = namespace[n]
  BY <1>1 DEF Sightings, Unheard, Called, Alike, BindingReconcilePredicate,
     RequestsForNamespaceClass, nsStore, bindingStore, classVars
<1>3. cur' \in {m, Absent} /\ (cur' # Absent => pass'.applied = {})
  BY <1>1, SentinelAssumption DEF Start, Idle, cur
<1>4. CASE n # m
  <2>1. n \in queue \cup timers => n \in queue' \cup timers'
    BY <1>1, <1>4
  <2>2. Attended(n) => Attended(n)'
    BY <1>2, <2>1, StillAttended
  <2>3. UpToDate(n) => UpToDate(n)'
    BY <1>1 DEF UpToDate, Fulfilled, InPlace, nsStore, bindingStore, classVars, objectVars
  <2>. QED BY <1>1, <1>3, <1>4, <2>2, <2>3, SentinelAssumption DEF PlaceInv, Placed
<1>5. CASE n = m /\ cur' = m
  BY <1>3, <1>5, SentinelAssumption DEF Placed, InHand
<1>6. CASE n = m /\ cur' # m
  <2>1. nsCache[m] = Absent \/ (nsCache[m].deleting /\ ~nsCache[m].finalizer)
    BY <1>6, <1>1 DEF Start, Idle, cur
  <2>2. ASSUME ~Attended(m)' PROVE UpToDate(m)'
    <3>1. nsEvents[m] = << >>
      BY <1>2, <1>6, <2>2 DEF Attended
    <3>2. namespace'[m] = nsCache[m]
      BY <1>2, <1>6, <3>1 DEF UIDInv, Latest
    <3>. QED BY <2>1, <3>2 DEF UpToDate
  <2>. QED BY <1>6, <2>2 DEF Placed
<1>. QED BY <1>4, <1>5, <1>6

\* The successor of a controller queues all there is.
LEMMA RestartPlaces == ASSUME Restart, NEW n \in Namespaces PROVE Placed(n)
<1>1. /\ queue' = {m \in Namespaces : namespace[m] # Absent \/ binding[m] # Absent}
      /\ namespace' = namespace /\ cur' \notin Namespaces
  BY SentinelAssumption DEF Restart, Idle, cur
<1>. QED BY <1>1 DEF Placed, Attended, UpToDate

\* An error puts the namespace on the rate limiter's timer.
LEMMA RetryPlaces == ASSUME NEW n, cur = n, Return("retry") PROVE Placed(n)
BY DEF Return, Placed, Attended

\* The steps of a pass before it applies anything.
LEMMA EarlyPlaces ==
  ASSUME Shape, NEW n \in Namespaces, cur = n,
         \/ ReadClass \/ AddFinalizer \/ Lookup \/ CreateBinding \/ UpdateBinding
         \/ RereadBinding \/ Prepare \/ DeleteBinding
  PROVE  Placed(n)
<1>1. pass \in PassRecord /\ pass.applied = {}
  BY DEF Shape, TypeOK, PassShape, ReadClass, AddFinalizer, Lookup, CreateBinding, UpdateBinding,
     RereadBinding, Prepare, DeleteBinding, At
<1>2. ASSUME pass'.cur = n, pass'.applied = {} PROVE Placed(n)
  BY <1>2 DEF Placed, InHand, cur
<1>3. ASSUME NEW p \in PassRecord, p.cur = n, p.applied = {}, GoesOnFrom(p, pass') PROVE Placed(n)
  BY <1>2, <1>3 DEF GoesOnFrom
<1>4. CASE ReadClass
  BY <1>1, <1>2, <1>4 DEF ReadClass, Proceed, PassRecord, cur
<1>5. CASE AddFinalizer
  BY <1>1, <1>2, <1>5, RetryPlaces DEF AddFinalizer, Proceed, PassRecord, cur
<1>6. CASE CreateBinding \/ DeleteBinding
  BY <1>1, <1>2, <1>6, RetryPlaces DEF CreateBinding, DeleteBinding, Proceed, Goto, PassRecord, cur
<1>7. CASE UpdateBinding
  BY <1>1, <1>2, <1>7, RetryPlaces DEF UpdateBinding, Proceed, PassRecord, cur
<1>8. CASE Lookup \/ RereadBinding
  <2> DEFINE held == [pass EXCEPT !.binding = bindingCache[cur]]
  <2>1. bindingCache[cur] \in BindingObject \cup {Absent}
    BY DEF Shape, TypeOK, ClusterTypeOK
  <2>2. held \in PassRecord /\ held.cur = n /\ held.applied = {}
    BY <1>1, <2>1 DEF PassRecord, cur
  <2>3. CASE \E step \in {"removeFinalizer", "create"} : pass' = Goto(step)
    BY <1>1, <1>2, <2>3 DEF Goto, PassRecord, cur
  <2>4. CASE pass' = [held EXCEPT !.step = "update"]
    BY <1>2, <2>2, <2>4 DEF PassRecord
  <2>5. CASE \/ pass' = SweepOf(held, ClusterScoped(bindingCache[cur].inventory))
             \/ pass' = SweepOf(held, bindingCache[cur].inventory)
             \/ pass' = WithBinding(held)
    <3> HIDE DEF held
    <3>. QED BY <1>3, <2>2, <2>5, SweepGoesOn, WithBindingGoesOn
  <2>6. \/ Return("retry")
        \/ \E step \in {"removeFinalizer", "create"} : pass' = Goto(step)
        \/ pass' = [held EXCEPT !.step = "update"]
        \/ pass' = SweepOf(held, ClusterScoped(bindingCache[cur].inventory))
        \/ pass' = SweepOf(held, bindingCache[cur].inventory)
        \/ pass' = WithBinding(held)
    BY <1>8 DEF Lookup, RereadBinding, TakeCachedBinding, Proceed
  <2>. QED BY <2>3, <2>4, <2>5, <2>6, RetryPlaces
<1>9. CASE Prepare
  <2> DEFINE t == pass.resources[Len(pass.todo) + 1]
  <2>1. CASE \E reason : pass' = FailWith(reason)
    BY <1>1, <1>2, <2>1 DEF FailWith, PassRecord, cur
  <2>2. CASE pass' = PrepareOf(pass, Append(pass.todo, t))
    <3>1. Append(pass.todo, t) \in Seq(Templates)
      BY <1>9, NextToPrepare DEF Prepare, At
    <3>. QED BY <1>1, <1>3, <2>2, <3>1, PrepareGoesOn DEF cur
  <2>. QED BY <1>9, <2>1, <2>2 DEF Prepare, Proceed
<1>. QED BY <1>4, <1>5, <1>6, <1>7, <1>8, <1>9

\* A step that moves no object and goes on with what has been applied, or to fail.
LEMMA GoingOnPlaces ==
  ASSUME Shape, NEW n \in Namespaces, cur = n, InHand(n), UNCHANGED <<nsStore, objectVars>>,
         GoesOnFrom(pass, pass') \/ \E reason : pass' = FailWith(reason)
  PROVE  Placed(n)
<1>1. pass \in PassRecord
  BY DEF Shape, TypeOK
<1>2. pass'.cur = n /\ pass'.applied = pass.applied /\ pass'.resources = pass.resources
  BY <1>1 DEF GoesOnFrom, FailWith, PassRecord, cur
<1>3. LeavesAlone(n) /\ namespace' = namespace
  BY DEF LeavesAlone, Changes, objectVars, nsStore
<1>4. InHand(n)'
  BY <1>2, <1>3, StaysInHand
<1>. QED BY <1>2, <1>4 DEF Placed, cur

\* An apply puts one more resource in place and leaves the others where they are.
LEMMA ApplyPlaces ==
  ASSUME OneReferencePerObject, Shape, PreparedInv, NEW n \in Namespaces, cur = n, OnTrack(n),
         InHand(n), ApplyResource \/ ApplyReplyLost
  PROVE  Placed(n)
<1> DEFINE t == Head(pass.todo)
           r == RefOf(t, n)
           p == [pass EXCEPT !.applied = @ \cup {r}]
<1>1. /\ pass.step = "apply" /\ UNCHANGED nsStore /\ pass.ns = namespace[n]
      /\ pass \in PassRecord /\ pass.applied \in SUBSET Refs
      /\ pass.todo \in Seq(Templates) /\ pass.todo # << >> /\ Reconciling
      /\ owner \in [Objects -> UIDs \cup {Absent, Unowned}]
      /\ content \in [Objects -> Bodies \cup {Blank, Drifted}]
  BY WorkingPass DEF ApplyResource, ApplyReplyLost, Fault, At, Shape, TypeOK, PassShape,
     ClusterTypeOK, OnTrack
<1>2. /\ t \in Templates /\ Tail(pass.todo) \in Seq(Templates) /\ r \in Refs
      /\ pass.resources \in Seq(Templates)
  BY <1>1, NextToApply, RefsAndObjects, DataAssumption DEF At, PassRecord, Reconciling
<1>3. Preparable(pass.resources, n) /\ \E j \in DOMAIN pass.resources : t = pass.resources[j]
  <2>1. t = pass.todo[1] /\ 1 \in DOMAIN pass.todo
    BY <1>1, EmptySeq
  <2>. QED BY <1>1, <2>1 DEF PreparedInv, At
<1> HIDE DEF t, r
<1>4. ASSUME Apply(t), NEW i \in DOMAIN pass.resources,
             RefOf(pass.resources[i], n) \in pass.applied \cup {r}
      PROVE  /\ owner'[ObjectOf(RefOf(pass.resources[i], n))] = namespace'[n].uid
             /\ content'[ObjectOf(RefOf(pass.resources[i], n))] = pass.resources[i].body
  <2> DEFINE s == RefOf(pass.resources[i], n)
  <2>1. /\ owner' = [owner EXCEPT ![ObjectOf(r)] = namespace[n].uid]
        /\ content' = [content EXCEPT ![ObjectOf(r)] = t.body]
        /\ namespace' = namespace
    BY <1>1, <1>4 DEF Apply, SetObject, r, nsStore
  <2>2. pass.resources[i] \in Templates /\ s \in Refs /\ ObjectOf(s) \in Objects
    BY <1>2, <1>4, ElementOfSeq, RefsAndObjects
  <2>3. CASE s = r
    <3>1. pass.resources[i] = t
      BY <1>3, <2>3 DEF Preparable, Distinct, r
    <3>. QED BY <1>1, <2>1, <2>2, <2>3, <3>1
  <2>4. CASE s # r
    <3>1. ObjectOf(s) # ObjectOf(r)
      BY <1>2, <2>2, <2>4 DEF OneReferencePerObject
    <3>2. InPlace(pass.resources[i], n)
      BY <1>4, <2>4 DEF InHand
    <3>. QED BY <1>1, <2>1, <2>2, <3>1, <3>2 DEF InPlace
  <2>. QED BY <2>3, <2>4
<1>5. ASSUME Apply(t), pass'.cur = n, pass'.resources = pass.resources,
             pass'.applied \subseteq pass.applied \cup {r}
      PROVE  Placed(n)
  <2>1. InHand(n)'
    BY <1>4, <1>5 DEF InHand, InPlace
  <2>. QED BY <1>5, <2>1 DEF Placed, cur
<1>6. CASE Apply(t) /\ pass' = ApplyOf(p, Tail(pass.todo))
  <2>1. /\ p \in PassRecord /\ p.cur = n /\ p.resources = pass.resources
        /\ p.applied = pass.applied \cup {r}
    BY <1>1, <1>2 DEF PassRecord, cur
  <2> HIDE DEF p
  <2>2. GoesOnFrom(p, pass')
    BY <1>2, <1>6, <2>1, ApplyGoesOn
  <2>. QED BY <1>5, <1>6, <2>1, <2>2 DEF GoesOnFrom
<1>7. CASE Apply(t) /\ \E reason : pass' = FailWith(reason)
  <2>1. pass'.cur = n /\ pass'.resources = pass.resources /\ pass'.applied = pass.applied
    BY <1>1, <1>7 DEF FailWith, PassRecord, cur
  <2>. QED BY <1>5, <1>7, <2>1
<1>8. CASE UNCHANGED objectVars /\ \E reason : pass' = FailWith(reason)
  BY <1>1, <1>8, GoingOnPlaces
<1>. QED BY <1>6, <1>7, <1>8 DEF ApplyResource, ApplyReplyLost, Proceed, t, r

\* The sweep takes nothing that has been applied.
LEMMA SweepPlaces ==
  ASSUME OneReferencePerObject, Shape, OrderInv, NEW n \in Namespaces, cur = n, OnTrack(n),
         InHand(n), CheckStale \/ DeleteStale \/ DeleteReplyLost
  PROVE  Placed(n)
<1>1. /\ pass \in PassRecord /\ pass.stale \in SUBSET Refs /\ pass.applied \in SUBSET Refs
      /\ UNCHANGED nsStore
      /\ pass.applied # {} => Reconciling
      /\ owner \in [Objects -> UIDs \cup {Absent, Unowned}]
      /\ content \in [Objects -> Bodies \cup {Blank, Drifted}]
  BY WorkingPass DEF CheckStale, DeleteStale, DeleteReplyLost, At, Shape, TypeOK, ClusterTypeOK
<1>2. CASE CheckStale
  <2>1. UNCHANGED objectVars
    BY <1>2 DEF CheckStale
  <2>2. ASSUME NEW r, pass' = [pass EXCEPT !.target = r, !.step = "delete"]
        PROVE  GoesOnFrom(pass, pass')
    BY <1>1, <2>2 DEF GoesOnFrom, PassRecord, BindingSteps
  <2>3. \/ \E r : pass' = SweepOf(pass, pass.stale \ {r})
        \/ \E r : pass' = [pass EXCEPT !.target = r, !.step = "delete"]
        \/ pass' = FailWith(SweepFailed)
    BY <1>2 DEF CheckStale, Proceed
  <2>. QED BY <1>1, <2>1, <2>2, <2>3, SweepGoesOn, GoingOnPlaces
<1>3. CASE DeleteStale \/ DeleteReplyLost
  <2> DEFINE gone == pass.target
  <2>1. /\ At("delete") /\ gone \in pass.stale
        /\ \/ pass' = SweepOf(pass, pass.stale \ {gone})
           \/ \E reason : pass' = FailWith(reason)
        /\ owner' = [owner EXCEPT ![ObjectOf(gone)] = Absent]
        /\ content' = [content EXCEPT ![ObjectOf(gone)] = Blank]
    BY <1>3 DEF DeleteStale, DeleteReplyLost, Proceed, SetObject, Shape, PassShape
  <2>2. pass'.cur = n /\ pass'.applied = pass.applied /\ pass'.resources = pass.resources
    <3>1. ASSUME NEW reason, pass' = FailWith(reason)
          PROVE  pass'.cur = n /\ pass'.applied = pass.applied /\ pass'.resources = pass.resources
      BY <1>1, <3>1 DEF FailWith, PassRecord, cur
    <3>. QED BY <1>1, <2>1, <3>1, SweepGoesOn DEF GoesOnFrom, cur
  <2>3. ASSUME NEW r \in pass.applied, NEW i \in DOMAIN pass.resources,
               RefOf(pass.resources[i], n) = r
        PROVE  /\ owner'[ObjectOf(RefOf(pass.resources[i], n))] = namespace'[n].uid
               /\ content'[ObjectOf(RefOf(pass.resources[i], n))] = pass.resources[i].body
    <3>1. r # gone
      BY <1>1, <2>1, <2>3 DEF OrderInv, SweepComesLast, At
    <3>2. ObjectOf(r) # ObjectOf(gone) /\ ObjectOf(r) \in Objects
      BY <1>1, <2>1, <2>3, <3>1, RefsAndObjects DEF OneReferencePerObject
    <3>3. InPlace(pass.resources[i], n)
      BY <2>3 DEF InHand
    <3>. QED BY <1>1, <2>1, <2>3, <3>2, <3>3 DEF InPlace, nsStore
  <2>4. InHand(n)'
    BY <2>2, <2>3 DEF InHand, InPlace
  <2>. QED BY <2>2, <2>4 DEF Placed, cur
<1>. QED BY <1>2, <1>3

\* The ends of a pass: what it records as done is in place.
LEMMA ReturnPlaces ==
  ASSUME Shape, CacheTrails, OrderInv, PreparedInv, NEW n \in Namespaces, cur = n, OnTrack(n),
         InHand(n), RecordReady \/ RecordFailure \/ RemoveFinalizer
  PROVE  Placed(n)
<1>1. /\ pass \in PassRecord /\ pass.ns = namespace[n] /\ pass.ns \in NamespaceObject
      /\ namespace \in [Namespaces -> NamespaceObject \cup {Absent}]
      /\ UNCHANGED <<classVars, objectVars>>
  BY DEF Shape, TypeOK, ClusterTypeOK, PassShape, PassRecord, OnTrack, RecordReady, RecordFailure,
     RemoveFinalizer, At
<1>2. ASSUME NEW result, Return(result) PROVE cur' # n
  BY <1>2, SentinelAssumption DEF Return, Idle, cur
<1>3. ASSUME RecordReady, StatusUpdate(pass.applied, "BindingRecorded"), Return("periodic")
      PROVE  Placed(n)
  <2>1. At("recordReady") /\ namespace' = namespace /\ class' = class /\ UNCHANGED objectVars
    BY <1>3 DEF RecordReady, nsStore, classVars
  <2>2. pass.applied = DesiredBy(pass.resources, n)
    BY <2>1, AllApplied
  <2>3. ASSUME Fulfilled(n)' PROVE pass.resources = class[namespace[n].label]
    <3>1. bindingCache[n].class = pass.binding.class /\ BoundAsAsked(n)
      BY <2>1 DEF OnTrack, At, BindingSteps, Shape, PassShape, Reconciling
    <3>. QED BY <2>1, <3>1 DEF OnTrack, At, Shape, PassShape, Reconciling
  <2>4. ASSUME NEW i \in DOMAIN pass.resources
        PROVE  /\ owner'[ObjectOf(RefOf(pass.resources[i], n))] = namespace'[n].uid
               /\ content'[ObjectOf(RefOf(pass.resources[i], n))] = pass.resources[i].body
    <3>1. InPlace(pass.resources[i], n)
      BY <2>2, <2>4 DEF InHand, DesiredBy
    <3>. QED BY <2>1, <3>1 DEF InPlace, objectVars
  <2>5. UpToDate(n)'
    BY <2>1, <2>3, <2>4 DEF UpToDate, InPlace
  <2>. QED BY <1>2, <1>3, <2>5 DEF Placed
<1>4. ASSUME RecordFailure, ~Deleting, Return("periodic"),
             StatusUpdate(MergeResourceRefs(pass.binding.inventory, pass.applied), pass.reason)
      PROVE  Placed(n)
  <2> DEFINE merged == MergeResourceRefs(pass.binding.inventory, pass.applied)
             v == [pass.binding EXCEPT !.inventory = merged, !.reason = pass.reason]
  <2>1. WriteBinding(n, v) /\ At("recordFailure")
    BY <1>4 DEF RecordFailure, StatusUpdate
  <2>2. /\ pass.binding \in BindingObject /\ pass.applied \in SUBSET Refs
        /\ pass.reason \in Reasons \cup {"none"} /\ pass.reason \notin {"none", "BindingRecorded"}
    BY <1>1, <2>1, WorkingPass DEF At, PassRecord, OnTrack
  <2>3. v \in BindingObject /\ v.reason = pass.reason
    BY <2>2 DEF BindingObject, MergeResourceRefs
  <2> HIDE DEF v
  <2>4. binding'[n] = v
    BY <2>1, <2>3, BindingWritten
  <2>5. ~Fulfilled(n)'
    BY <2>2, <2>3, <2>4 DEF Fulfilled
  <2>. QED BY <1>2, <1>4, <2>5 DEF Placed, UpToDate
<1>5. CASE RecordReady
  BY <1>3, <1>5, RetryPlaces DEF RecordReady
<1>6. CASE RecordFailure
  <2>1. \/ Return("retry")
        \/ /\ StatusUpdate(MergeResourceRefs(pass.binding.inventory, pass.applied), pass.reason)
           /\ Return("periodic") /\ ~Deleting
    BY <1>6 DEF RecordFailure
  <2>. QED BY <1>4, <1>6, <2>1, RetryPlaces
<1>7. CASE RemoveFinalizer
  <2>1. namespace[n].deleting \/ namespace[n].label = NoLabel
    BY <1>1, <1>7 DEF RemoveFinalizer, OnTrack, Deleting, Unlabelled
  <2>2. namespace'[n].deleting \/ namespace'[n].label = NoLabel
    <3>1. CASE UNCHANGED nsStore
      BY <2>1, <3>1 DEF nsStore
    <3>2. CASE WriteNamespace(n, [pass.ns EXCEPT !.finalizer = FALSE])
      BY <1>1, <2>1, <3>2 DEF WriteNamespace, NamespaceObject
    <3>. QED BY <1>7, <3>1, <3>2 DEF RemoveFinalizer
  <2>3. UpToDate(n)'
    BY <2>2 DEF UpToDate, Fulfilled
  <2>4. \E result : Return(result)
    BY <1>7 DEF RemoveFinalizer
  <2>. QED BY <1>2, <2>3, <2>4 DEF Placed
<1>. QED BY <1>5, <1>6, <1>7

\* Every call of a pass over an unattended namespace.
LEMMA OwnCallPlaces ==
  ASSUME OneReferencePerObject, Shape, CacheTrails, OrderInv, PreparedInv, Call,
         NEW n \in Namespaces, cur = n, OnTrack(n), InHand(n)
  PROVE  Placed(n)
<1>1. CASE CallFails
  <2>1. UNCHANGED <<nsStore, objectVars>>
    BY <1>1 DEF CallFails, Fault
  <2>2. Return("retry") \/ \E reason : pass' = FailWith(reason)
    BY <1>1 DEF CallFails, Proceed
  <2>. QED BY <2>1, <2>2, RetryPlaces, GoingOnPlaces
<1>2. NamespaceReplyLost \/ BindingReplyLost => Return("retry")
  BY DEF NamespaceReplyLost, BindingReplyLost
<1>. QED BY <1>1, <1>2, EarlyPlaces, ApplyPlaces, SweepPlaces, ReturnPlaces, RetryPlaces
     DEF Call, PassStep

\* What a pass has applied and what it has recorded stays where it is.
LEMMA PlaceInvariant ==
  ASSUME OneReferencePerObject, ObjectsUntouched PROVE Spec => []PlaceInv
<1>1. Init => PlaceInv
  <2> SUFFICES ASSUME Init PROVE PlaceInv
    OBVIOUS
  <2>1. cur \notin Namespaces /\ \A n \in Namespaces : namespace[n] = Absent
    BY SentinelAssumption DEF Init, ClusterInit, Idle, cur
  <2>. QED BY <2>1 DEF PlaceInv, UpToDate
<1>2. IInv /\ OrderInv /\ PreparedInv /\ UIDInv /\ WakeInv /\ PlaceInv /\ [Next]_vars => PlaceInv'
  <2> SUFFICES ASSUME IInv, OrderInv, PreparedInv, UIDInv, WakeInv, PlaceInv, [Next]_vars
               PROVE  PlaceInv'
    OBVIOUS
  <2>1. Shape /\ CacheTrails
    BY DEF IInv, Shape
  <2>2. CASE UNCHANGED vars
    <3>1. /\ UNCHANGED <<namespace, binding, bindingCache, bindingEvents, class, classEvents>>
          /\ UNCHANGED <<queue, timers, nsEvents, owner, content, pass>>
      BY <2>2 DEF vars, clusterVars, nsVars, nsStore, bindingVars, bindingStore, classVars, objectVars,
         workVars
    <3>2. cur' = cur
      BY <3>1 DEF cur
    <3>3. ASSUME NEW n \in Namespaces PROVE Attended(n)' <=> Attended(n)
      BY <3>1 DEF Attended, Sightings, Alike, BindingReconcilePredicate, RequestsForNamespaceClass
    <3>4. ASSUME NEW n \in Namespaces PROVE InHand(n)' <=> InHand(n)
      BY <3>1 DEF InHand, InPlace
    <3>5. ASSUME NEW n \in Namespaces PROVE UpToDate(n)' <=> UpToDate(n)
      BY <3>1 DEF UpToDate, Fulfilled, InPlace
    <3>. QED BY <3>2, <3>3, <3>4, <3>5 DEF PlaceInv
  <2>3. ASSUME Next, NEW n \in Namespaces PROVE Placed(n)
    <3>1. CASE Delivery \/ (Environment /\ UNCHANGED <<workVars, budgetVars>>)
      BY <2>1, <3>1, ObjectsUntouched, OutsidePlaces
    <3>2. CASE Call
      <4>1. CASE Attended(n)
        BY <2>1, <3>2, <4>1, CallKeepsAttention DEF Placed
      <4>2. CASE ~Attended(n) /\ cur = n
        BY <2>1, <3>2, <4>2, OneReferencePerObject, OwnCallPlaces DEF WakeInv, PlaceInv
      <4>3. CASE ~Attended(n) /\ cur # n
        BY <3>2, <4>3, OthersPlace
      <4>. QED BY <4>1, <4>2, <4>3
    <3>3. CASE Restart \/ \E m \in Namespaces : Start(m)
      BY <2>1, <3>3, StartPlaces, RestartPlaces
    <3>. QED BY <2>3, <3>1, <3>2, <3>3 DEF Next, Call
  <2>4. CASE Next
    BY <2>3, <2>4 DEF PlaceInv, Placed
  <2>. QED BY <2>2, <2>4
<1>. QED BY <1>1, <1>2, InductiveInvariant, OrderInvariant, PreparedInvariant, UIDInvariant,
         WakeInvariant, OneReferencePerObject, ObjectsUntouched, PTL DEF Spec

\* If no object goes by two references and users leave the objects alone, then a binding that
\* reads Ready is true of the class as it is now: with nothing more on its way every object
\* is there, the namespace's own, and as the class has it.
THEOREM ReadyStaysTrue ==
  ASSUME OneReferencePerObject, ObjectsUntouched PROVE Spec => []ReadyIsCurrent
<1>1. PlaceInv => ReadyIsCurrent
  BY DEF PlaceInv, ReadyIsCurrent
<1>. QED BY <1>1, OneReferencePerObject, ObjectsUntouched, PlaceInvariant, PTL

\* Under the same assumptions, when all is quiet every namespace is settled or has a failure
\* on its binding: what SettlesOrReports promises to happen in the end is so whenever
\* nothing is left to be done.
THEOREM QuietIsSettled ==
  ASSUME OneReferencePerObject, ObjectsUntouched
  PROVE  Spec => [](\A n \in Namespaces :
                      Attended(n) \/ cur = n \/ Settled(n) \/ Reported(n))
<1>1. ASSUME NEW n \in Namespaces, Accounted(n), UpToDate(n) PROVE Settled(n) \/ Reported(n)
  BY <1>1 DEF Accounted, UpToDate, Fulfilled, Settled, ClassInPlace
<1>2. NothingForgotten /\ ReadyIsCurrent =>
        \A n \in Namespaces : Attended(n) \/ cur = n \/ Settled(n) \/ Reported(n)
  BY <1>1 DEF NothingForgotten, ReadyIsCurrent
<1>. QED BY <1>2, OneReferencePerObject, ObjectsUntouched, NothingLost, ReadyStaysTrue, PTL

=============================================================================
