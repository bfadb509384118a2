----------------------- MODULE PreparationProperties -----------------------
(***************************************************************************)
(* What the preparation of a class's resources is meant to keep.           *)
(***************************************************************************)
EXTENDS ResourcePreparation

Refusals == {"ApplyFailed", "GVKDenied", "ApplyConflict", "DuplicateResource"}

TypeOK ==
  /\ flags \in FlagSets
  /\ DOMAIN options = {"allow", "deny", "interval"}
  /\ manager \in {"parsed", "running", "exited"}
  /\ manager # "parsed" => options.deny # << >> /\ options.interval # 0
  /\ manager # "running" => outcome = "idle"
  /\ outcome \in {"idle", "preparing", "prepared"} \cup Refusals
  /\ outcome # "idle" => /\ namespace \in NamespaceObjects
                         /\ class \in ClassObjects
                         /\ foreign \in ForeignSets
                         /\ Len(prepared) \leq Len(class.resources)
  /\ outcome \notin {"preparing", "prepared"} => prepared = << >>

-----------------------------------------------------------------------------
(* What the operator has asked for, read off the command line.             *)

GivenAllow == IF "allow" \in DOMAIN flags THEN flags.allow ELSE << >>

\* No deny list, or an empty one, asks for the default.
GivenDeny ==
  IF "deny" \in DOMAIN flags /\ flags.deny # << >> THEN flags.deny ELSE <<DeniedByDefault>>

Names(list, gvk) ==
  \E i \in DOMAIN list :
    \/ gvk.group = Nothing /\ list[i] = <<gvk.version, gvk.kind>>
    \/ gvk.group # Nothing /\ list[i] = <<gvk.group, gvk.version, gvk.kind>>

OperatorAllows(gvk) ==
  /\ ~Names(GivenDeny, gvk)
  /\ (\A i \in DOMAIN GivenAllow : GivenAllow[i] = << >>) \/ Names(GivenAllow, gvk)

\* A controller that runs does as every entry of the operator's lists says: a list
\* it could not read in full has kept it from starting.  And it comes back to
\* recorded failures on a timer unless the operator gave a negative interval.
OptionsInForce ==
  manager = "running" =>
    /\ Parses(GivenAllow) /\ Parses(GivenDeny)
    /\ \A gvk \in DOMAIN Scope : Permits(policy, gvk) <=> OperatorAllows(gvk)
    /\ options.interval > 0 \/ ("interval" \in DOMAIN flags /\ flags.interval < 0)

\* No object is prepared whose kind the operator's lists forbid, also when the kind
\* comes from a label of the namespace or the class is otherwise in order.
PreparedAllowed == \A i \in DOMAIN prepared : OperatorAllows(GVK(prepared[i]))

-----------------------------------------------------------------------------
(* What is prepared.                                                       *)

\* Whatever marks and namespace a template brings along, the next pass and the
\* cleanup will know the object for this namespace's own, and it stands where the
\* namespace's objects belong, where nothing of another owner was.
RecognisedLater ==
  \A i \in DOMAIN prepared :
    LET o == prepared[i] IN
    /\ IsManagedByNamespace(o, namespace)
    /\ o.marks.class = class.name /\ o.marks.namespace = namespace.name
    /\ o.namespace = IF Scope[GVK(o)] = "namespaced" THEN namespace.name ELSE Nothing
    /\ Identity(o) \notin foreign

\* What text t comes to, as a set of tokens.
Substituted(t) ==
  LET values == TemplateValues(namespace, class)
  IN {u \in Tokens(t) : ~u.variable} \cup UNION {Tokens(values[v]) : v \in Variables(t)}

\* Values enter an object as they are: an annotation that itself looks like a
\* template is not rendered in its turn.
RenderedOnce ==
  \A i \in DOMAIN prepared :
    LET raw == class.resources[i] IN
    /\ Tokens(prepared[i].name) = Substituted(raw.name)
    /\ Tokens(prepared[i].kind) = Substituted(raw.kind)
    /\ Tokens(prepared[i].body) = Substituted(raw.body)

\* What is wrong with the i-th resource of the class, in no order.
Complaints(i) ==
  LET raw == class.resources[i]
      same(j) == RefTo(Placed(class.resources[j])) = RefTo(Placed(raw))
  IN IF ~raw.parses \/ ~Renders(raw, TemplateValues(namespace, class)) THEN {"ApplyFailed"}
     ELSE IF GVK(Rendered(raw)) \notin DOMAIN Scope
          THEN {"ApplyFailed"} \cup (IF OperatorAllows(GVK(Rendered(raw))) THEN {} ELSE {"GVKDenied"})
     ELSE (IF Nothing \in {Rendered(raw).kind, Rendered(raw).name} THEN {"ApplyFailed"} ELSE {}) \cup
          (IF OperatorAllows(GVK(Rendered(raw))) THEN {} ELSE {"GVKDenied"}) \cup
          (IF Identity(Placed(raw)) \in foreign THEN {"ApplyConflict"} ELSE {}) \cup
          (IF \E j \in 1..(i - 1) : same(j) THEN {"DuplicateResource"} ELSE {})

\* A class is handed over only if nothing is wrong with any of its resources, and
\* refused with a reason that fits the first resource something is wrong with.
OutcomeJust ==
  /\ outcome = "prepared" => \A i \in DOMAIN class.resources : Complaints(i) = {}
  /\ outcome \in Refusals =>
       \E i \in DOMAIN class.resources : /\ outcome \in Complaints(i)
                                         /\ \A j \in 1..(i - 1) : Complaints(j) = {}
=============================================================================
