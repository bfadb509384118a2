---------------------------- MODULE ClusterState ----------------------------
(***************************************************************************)
(* The cluster as the NamespaceClass controller sees it: what the API      *)
(* server stores, what the controller's informer caches lag behind by, and *)
(* what users and Kubernetes' own controllers do to it meanwhile.          *)
(*                                                                         *)
(* Objects are reduced to what the controller's decisions read.  Object    *)
(* kinds are folded into names; resourceVersions are reduced to the only   *)
(* question optimistic locking asks of them: "is the copy this write       *)
(* started from still the current one?" (nsHeld, bindingHeld).             *)
(***************************************************************************)
EXTENDS Naturals, Sequences, FiniteSets

CONSTANTS
  Namespaces,      \* namespace names
  Classes,         \* NamespaceClass names
  Templates,       \* entries of NamespaceClass.spec.resources, see Template
  ResourceLists,   \* the values spec.resources takes: sequences of templates
  InitialClasses,  \* possible initial values of `class`
  MaxUID,          \* bound: namespace incarnations ever created
  MaxLag,          \* bound: undelivered watch events of one object
  MaxEdits,        \* bound: edits by users and other controllers
  Edits,           \* the kinds of edit a configuration allows
  Absent,          \* "no such object"
  Unowned,         \* owner of an object without this controller's markers
  NoLabel,         \* a namespace without the class label
  Cluster,         \* the namespace of a cluster-scoped object
  Blank,           \* content that no template field contradicts
  Drifted          \* content another field manager holds against the template

UIDs == 1..MaxUID

(***************************************************************************)
(* A template: name and version stand for kind+name and apiVersion;        *)
(* `perNamespace` says its name contains {{ .Namespace.Name }}; `body` is  *)
(* the rest of the manifest; `fault` is what is wrong with it: nothing, a  *)
(* GVK the policy denies, something that parsing, rendering or REST        *)
(* mapping refuses, or something the API server refuses.                   *)
(***************************************************************************)
Faults == {"none", "denied", "malformed", "rejected"}

RefName(t, n) == <<t.name, IF t.perNamespace THEN n ELSE Cluster>>

\* The inventory identity of template t rendered for namespace n.
RefOf(t, n) == [version   |-> t.version,
                namespace |-> IF t.namespaced THEN n ELSE Cluster,
                name      |-> RefName(t, n)]

Refs == {RefOf(t, n) : t \in Templates, n \in Namespaces}

\* The stored object a reference names: versions of one API serve the same object.
ObjectOf(r) == [namespace |-> r.namespace, name |-> r.name]
Objects == {ObjectOf(r) : r \in Refs}

Bodies == {t.body : t \in Templates}

NamespaceObject == [uid : UIDs, label : Classes \cup {NoLabel},
                    deleting : BOOLEAN, finalizer : BOOLEAN]

Reasons == {"BindingRecorded", "CleanupFailed", "GVKDenied", "ApplyConflict",
            "ApplyFailed", "DeleteFailed", "DuplicateResource"}

\* reason is that of the Ready condition, which is True only for
\* BindingRecorded; "none" before the first status write.
BindingObject == [class : Classes, inventory : SUBSET Refs,
                  reason : Reasons \cup {"none"}]

ASSUME SentinelAssumption ==
  /\ Absent \notin UIDs \cup Namespaces
  /\ Unowned \notin UIDs
  /\ Unowned # Absent
  /\ NoLabel \notin Classes
  /\ Cluster \notin Namespaces
  /\ Absent \notin NamespaceObject
  /\ Absent \notin BindingObject
  /\ Absent \notin ResourceLists
  /\ Drifted \notin Bodies

ASSUME DataAssumption ==
  /\ \A t \in Templates : /\ t.namespaced \in BOOLEAN
                          /\ t.perNamespace \in BOOLEAN
                          /\ t.fault \in Faults
  /\ ResourceLists \subseteq Seq(Templates)
  /\ InitialClasses \subseteq [Classes -> ResourceLists \cup {Absent}]
  /\ MaxUID \in Nat

VARIABLES
  namespace,      \* live Namespace objects
  nsCache,        \* the informer's copy of each
  nsEvents,       \* its undelivered watch events, oldest first
  nsHeld,         \* namespaces whose current version is the copy the worker holds
  binding,        \* live NamespaceClassBinding objects, one per namespace name
  bindingCache, bindingEvents, bindingHeld,
  class,          \* live NamespaceClass.spec.resources
  classEvents,    \* undelivered NamespaceClass events
  owner,          \* per managed-object identity: Absent, Unowned or a namespace UID
  content,        \* per managed-object identity: whose content it has
  uid,            \* namespace UIDs handed out
  edits           \* edits made

nsStore == <<namespace, nsCache, nsEvents>>
nsVars == <<nsStore, nsHeld>>
bindingStore == <<binding, bindingCache, bindingEvents>>
bindingVars == <<bindingStore, bindingHeld>>
classVars == <<class, classEvents>>
objectVars == <<owner, content>>
clusterVars == <<nsVars, bindingVars, classVars, objectVars, uid, edits>>

ClusterTypeOK ==
  /\ namespace \in [Namespaces -> NamespaceObject \cup {Absent}]
  /\ nsCache \in [Namespaces -> NamespaceObject \cup {Absent}]
  /\ nsEvents \in [Namespaces -> Seq(NamespaceObject \cup {Absent})]
  /\ nsHeld \subseteq Namespaces
  /\ binding \in [Namespaces -> BindingObject \cup {Absent}]
  /\ bindingCache \in [Namespaces -> BindingObject \cup {Absent}]
  /\ bindingEvents \in [Namespaces -> Seq(BindingObject \cup {Absent})]
  /\ bindingHeld \subseteq Namespaces
  /\ class \in [Classes -> ResourceLists \cup {Absent}]
  /\ classEvents \in [Classes -> Nat]
  /\ owner \in [Objects -> UIDs \cup {Absent, Unowned}]
  /\ content \in [Objects -> Bodies \cup {Blank, Drifted}]
  /\ uid \in 0..MaxUID
  /\ edits \in Nat

ClusterInit ==
  /\ namespace = [n \in Namespaces |-> Absent]
  /\ nsCache = namespace
  /\ nsEvents = [n \in Namespaces |-> << >>]
  /\ nsHeld = {}
  /\ binding = [n \in Namespaces |-> Absent]
  /\ bindingCache = binding
  /\ bindingEvents = [n \in Namespaces |-> << >>]
  /\ bindingHeld = {}
  /\ class \in InitialClasses
  /\ classEvents = [c \in Classes |-> 0]
  /\ owner = [o \in Objects |-> Absent]
  /\ content = [o \in Objects |-> Blank]
  /\ uid = 0
  /\ edits = 0

-----------------------------------------------------------------------------
(* Writes: the stored object changes at once, the informer learns later.   *)

WriteNamespace(n, v) ==
  /\ Len(nsEvents[n]) < MaxLag
  /\ namespace' = [namespace EXCEPT ![n] = v]
  /\ nsEvents' = [nsEvents EXCEPT ![n] = Append(@, v)]
  /\ UNCHANGED nsCache

\* A write that changes nothing gets no new resourceVersion and no event.
WriteBinding(n, v) ==
  /\ IF v = binding[n]
     THEN UNCHANGED <<binding, bindingEvents>>
     ELSE /\ Len(bindingEvents[n]) < MaxLag
          /\ binding' = [binding EXCEPT ![n] = v]
          /\ bindingEvents' = [bindingEvents EXCEPT ![n] = Append(@, v)]
  /\ UNCHANGED bindingCache

SetObject(o, who, what) ==
  /\ owner' = [owner EXCEPT ![o] = who]
  /\ content' = [content EXCEPT ![o] = what]

\* New objects are admitted to a namespace only while it lives.
Admits(o) ==
  o.namespace # Cluster => /\ namespace[o.namespace] # Absent
                           /\ ~namespace[o.namespace].deleting

-----------------------------------------------------------------------------
(* Edits by users and by other controllers.                                *)

Edit(kind) ==
  /\ kind \in Edits
  /\ edits < MaxEdits
  /\ edits' = edits + 1

\* Creations are bounded by MaxUID alone.
CreateNamespace(n, l) ==
  /\ namespace[n] = Absent
  /\ uid < MaxUID
  /\ uid' = uid + 1
  /\ WriteNamespace(n, [uid |-> uid + 1, label |-> l,
                        deleting |-> FALSE, finalizer |-> FALSE])
  /\ UNCHANGED <<nsHeld, bindingVars, classVars, objectVars, edits>>

EditNamespace(n, v) ==
  /\ WriteNamespace(n, v)
  /\ nsHeld' = nsHeld \ {n}
  /\ UNCHANGED <<bindingVars, classVars, objectVars, uid>>

Relabel(n, l) ==
  /\ Edit(IF l = NoLabel THEN "removeLabel" ELSE "setLabel")
  /\ namespace[n] # Absent
  /\ ~namespace[n].deleting
  /\ namespace[n].label # l
  /\ EditNamespace(n, [namespace[n] EXCEPT !.label = l])

DeleteNamespace(n) ==
  /\ Edit("deleteNamespace")
  /\ namespace[n] # Absent
  /\ ~namespace[n].deleting
  /\ EditNamespace(n, [namespace[n] EXCEPT !.deleting = TRUE])

\* Creation, update of spec.resources, or (s = Absent) deletion of a class.
SetClass(c, s) ==
  /\ Edit(IF s = Absent THEN "deleteClass"
          ELSE IF class[c] = Absent THEN "createClass" ELSE "updateClass")
  /\ class[c] # s
  /\ class' = [class EXCEPT ![c] = s]
  /\ classEvents' = [classEvents EXCEPT ![c] = @ + 1]
  /\ UNCHANGED <<nsVars, bindingVars, objectVars, uid>>

DeleteBindingByHand(n) ==
  /\ Edit("deleteBinding")
  /\ binding[n] # Absent
  /\ WriteBinding(n, Absent)
  /\ bindingHeld' = bindingHeld \ {n}
  /\ UNCHANGED <<nsVars, classVars, objectVars, uid>>

EditObject(o, who, what) ==
  /\ SetObject(o, who, what)
  /\ UNCHANGED <<nsVars, bindingVars, classVars, uid>>

\* A user's own object, with content a template may or may not contradict.
CreateObject(o, what) ==
  /\ Edit("createObject")
  /\ owner[o] = Absent
  /\ Admits(o)
  /\ EditObject(o, Unowned, what)

DeleteObject(o) ==
  /\ Edit("deleteObject")
  /\ owner[o] # Absent
  /\ EditObject(o, Absent, Blank)

\* The ownership label or annotation is taken off a managed object.
StripMarkers(o) ==
  /\ Edit("stripMarkers")
  /\ owner[o] \in UIDs
  /\ EditObject(o, Unowned, content[o])

\* Another field manager takes over a field that the template sets.
DriftObject(o) ==
  /\ Edit("driftObject")
  /\ owner[o] \in UIDs
  /\ content[o] # Drifted
  /\ EditObject(o, owner[o], Drifted)

-----------------------------------------------------------------------------
(* Kubernetes' namespace controller empties a terminating namespace, then  *)
(* removes it once no finalizer is left.                                   *)

Terminating(n) == namespace[n] # Absent /\ namespace[n].deleting

CollectObject(o) ==
  /\ o.namespace # Cluster
  /\ Terminating(o.namespace)
  /\ owner[o] # Absent
  /\ SetObject(o, Absent, Blank)
  /\ UNCHANGED <<nsVars, bindingVars, classVars, uid, edits>>

FinishDeletion(n) ==
  /\ Terminating(n)
  /\ ~namespace[n].finalizer
  /\ \A o \in Objects : o.namespace = n => owner[o] = Absent
  /\ WriteNamespace(n, Absent)
  /\ nsHeld' = nsHeld \ {n}
  /\ UNCHANGED <<bindingVars, classVars, objectVars, uid, edits>>

Environment ==
  \/ \E n \in Namespaces :
       \/ \E l \in Classes \cup {NoLabel} : CreateNamespace(n, l) \/ Relabel(n, l)
       \/ DeleteNamespace(n)
       \/ DeleteBindingByHand(n)
       \/ FinishDeletion(n)
  \/ \E c \in Classes, s \in ResourceLists \cup {Absent} : SetClass(c, s)
  \/ \E o \in Objects :
       \/ \E what \in {Blank, Drifted} : CreateObject(o, what)
       \/ DeleteObject(o)
       \/ StripMarkers(o)
       \/ DriftObject(o)
       \/ CollectObject(o)
=============================================================================
