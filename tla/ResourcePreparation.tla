------------------------- MODULE ResourcePreparation -------------------------
(***************************************************************************)
(* What happens between the command line and the first Apply: main.go and  *)
(* manager.go turn flags into options and a policy; then each pass of the  *)
(* reconciler turns the templates of a class into objects that are ready   *)
(* to be applied for one namespace (prepareManagedResources), one template *)
(* after the other, or refuses the class.  NamespaceReconciler has this    *)
(* loop with the `fault` of a template for its reason to refuse it.        *)
(*                                                                         *)
(* A string is a text: a sequence of tokens, each a literal or a variable  *)
(* {{ ... }}.  The value of a label or annotation is a text as well.       *)
(***************************************************************************)
EXTENDS GVKPolicy, Integers

CONSTANTS
  FlagSets,        \* the command lines: functions from names of given flags to values
  DeniedByDefault, \* the item of ClusterRoleBinding
  DefaultInterval, \* defaultReconcileInterval
  NamespaceObjects,\* namespaces as a pass may read them: name, uid, labels, annotations
  ClassObjects,    \* classes as a pass may read them: name, resources
  Scope,           \* the REST mapper: a function from the GVKs that are served
                   \* to "namespaced" and "cluster"
  ForeignSets      \* sets of identities of objects that lack the namespace's markers

IsSequence(s) == s \in Seq({s[i] : i \in DOMAIN s})

ASSUME OptionsAssumption ==
  /\ IsSequence(DeniedByDefault)
  /\ WellFormed(DeniedByDefault)
  /\ DefaultInterval \in Nat \ {0}

\* Of the flags these three become options.  The lists are lists of items, the
\* interval is a number of seconds.
ASSUME FlagsAssumption ==
  \A given \in FlagSets :
    /\ DOMAIN given \subseteq {"allow", "deny", "interval"}
    /\ \A flag \in DOMAIN given \cap {"allow", "deny"} :
         \A i \in DOMAIN given[flag] : IsSequence(given[flag][i])
    /\ "interval" \in DOMAIN given => given.interval \in Int

\* A template that does not parse has the fields as well; they are not looked at.
ASSUME ClassesAssumption ==
  \A c \in ClassObjects :
    /\ Len(c.resources) \in Nat /\ DOMAIN c.resources = 1..Len(c.resources)
    /\ \A i \in 1..Len(c.resources) :
         {"parses", "group", "version", "kind", "name", "namespace", "marks", "body"}
           \subseteq DOMAIN c.resources[i]

\* What is rendered, and what a variable can stand for, is text.
ASSUME TextsAssumption ==
  /\ \A c \in ClassObjects :
       /\ IsSequence(c.name)
       /\ \A i \in 1..Len(c.resources) :
            \A field \in {"kind", "name", "body"} : IsSequence(c.resources[i][field])
  /\ \A ns \in NamespaceObjects :
       /\ IsSequence(ns.name) /\ IsSequence(ns.uid)
       /\ \A k \in DOMAIN ns.labels : IsSequence(ns.labels[k])
       /\ \A k \in DOMAIN ns.annotations : IsSequence(ns.annotations[k])

VARIABLES
  flags,      \* the command line
  options,    \* the manager's options
  manager,    \* "parsed", "running" or "exited"
  policy,     \* ResourcePolicy
  namespace, class, foreign,  \* what the pass finds
  prepared,   \* resources: the prepared objects so far
  outcome     \* of the pass: "idle", "preparing", "prepared", or why not

vars == <<flags, options, manager, policy, namespace, class, foreign, prepared, outcome>>
passVars == <<namespace, class, foreign, prepared, outcome>>

\* f, and g where f is not defined.
Over(f, g) == [k \in DOMAIN f \cup DOMAIN g |-> IF k \in DOMAIN f THEN f[k] ELSE g[k]]

-----------------------------------------------------------------------------
(* Options.                                                                *)

DefaultOptions == [allow |-> << >>, deny |-> <<DeniedByDefault>>, interval |-> DefaultInterval]

\* Faulty variant: the default deny list is lost to an empty flag.
KeepEmptyDeny(o) == [o EXCEPT !.interval = IF @ = 0 THEN DefaultInterval ELSE @]

\* Options left empty or zero get their defaults.
WithDefaults(o) == [o EXCEPT !.deny = IF @ = << >> THEN DefaultOptions.deny ELSE @,
                             !.interval = IF @ = 0 THEN DefaultInterval ELSE @]

Init ==
  /\ flags \in FlagSets
  /\ options = Over(flags, DefaultOptions)
  /\ manager = "parsed"
  /\ policy = [allow |-> {}, deny |-> {}]
  /\ namespace = Nothing
  /\ class = Nothing
  /\ foreign = {}
  /\ prepared = << >>
  /\ outcome = "idle"

\* manager.New: a malformed list ends the process.
New ==
  /\ manager = "parsed"
  /\ LET o == WithDefaults(options) IN
       /\ options' = o
       /\ IF Parses(o.allow) /\ Parses(o.deny)
          THEN manager' = "running" /\ policy' = FromCSV(o.allow, o.deny)
          ELSE manager' = "exited" /\ UNCHANGED policy
  /\ UNCHANGED <<flags, passVars>>

-----------------------------------------------------------------------------
(* Rendering.                                                              *)

Literal(word) == [variable |-> FALSE, of |-> <<word>>]
Variable(path) == [variable |-> TRUE, of |-> path]
Word(word) == <<Literal(word)>>

Tokens(text) == {text[i] : i \in DOMAIN text}
Variables(text) == {t.of : t \in {u \in Tokens(text) : u.variable}}

\* templateValues
TemplateValues(ns, c) ==
  [path \in {<<"Name">>, <<"UID">>, <<"Class">>}
            \cup {<<"Labels", k>> : k \in DOMAIN ns.labels}
            \cup {<<"Annotations", k>> : k \in DOMAIN ns.annotations} |->
     CASE path = <<"Name">>  -> ns.name
       [] path = <<"UID">>   -> ns.uid
       [] path = <<"Class">> -> c.name
       [] path[1] = "Labels" -> ns.labels[path[2]]
       [] OTHER              -> ns.annotations[path[2]]]

\* RenderString, from left to right.  It fails if a variable has no value.
RenderString(text, values) ==
  LET upTo[i \in 0..Len(text)] ==
        IF i = 0 THEN << >>
        ELSE upTo[i - 1] \o (IF text[i].variable THEN values[text[i].of] ELSE <<text[i]>>)
  IN upTo[Len(text)]

\* Faulty variant: what a value brings in is rendered again.
RenderAgain(text, values) ==
  LET once == RenderString(text, values)
  IN IF Variables(once) \subseteq DOMAIN values THEN RenderString(once, values) ELSE once
RenderText(text, values) == RenderString(text, values)

Renders(raw, values) ==
  /\ Variables(raw.kind) \cup Variables(raw.name) \cup Variables(raw.namespace) \cup
       Variables(raw.body) \subseteq DOMAIN values
  /\ \A m \in DOMAIN raw.marks : Variables(raw.marks[m]) \subseteq DOMAIN values

\* renderObjectTemplates: all string values, no keys.
Render(raw, values) ==
  [raw EXCEPT !.kind = RenderText(@, values),
              !.name = RenderText(@, values),
              !.namespace = RenderText(@, values),
              !.body = RenderText(@, values),
              !.marks = [m \in DOMAIN @ |-> RenderText(@[m], values)]]

-----------------------------------------------------------------------------
(* Preparing one template.                                                 *)

GVK(object) == [group |-> object.group, version |-> object.version, kind |-> object.kind]

\* A namespaced object goes to the namespace, a cluster-scoped one to none.
Place(object, ns) ==
  [object EXCEPT !.namespace = IF Scope[GVK(object)] = "namespaced" THEN ns.name ELSE Nothing]

\* Labels and annotations by which the controller knows its objects.
ManagedMarks(ns, c) == [managed |-> Word("true"), class |-> c.name,
                        namespace |-> ns.name, owner |-> ns.uid]

\* Faulty variant: the template's own marks win.
AddMissingMetadata(object, ns, c) == [object EXCEPT !.marks = Over(@, ManagedMarks(ns, c))]
AddManagedMetadata(object, ns, c) == [object EXCEPT !.marks = Over(ManagedMarks(ns, c), @)]

IsManagedByNamespace(object, ns) ==
  /\ {"managed", "owner"} \subseteq DOMAIN object.marks
  /\ object.marks.managed = Word("true")
  /\ object.marks.owner = ns.uid

\* Where an object is stored: every version of its API leads there.
Identity(object) == [group |-> object.group, kind |-> object.kind,
                     namespace |-> object.namespace, name |-> object.name]

\* The inventory reference.
RefTo(object) == [group |-> object.group, version |-> object.version, kind |-> object.kind,
                  namespace |-> object.namespace, name |-> object.name]

Rendered(raw) == Render(raw, TemplateValues(namespace, class))
Placed(raw) == Place(Rendered(raw), namespace)
Managed(raw) == AddManagedMetadata(Placed(raw), namespace, class)

\* Faulty variant: the template is judged before it is rendered.
JudgedUnrendered(raw) == Permits(policy, GVK(raw))
Permitted(raw) == Permits(policy, GVK(Rendered(raw)))

\* Faulty variant: duplicates go unnoticed.
NeverSeen(ref) == FALSE
Seen(ref) == \E i \in DOMAIN prepared : RefTo(prepared[i]) = ref

\* Why a template is refused, "none" if it is not: in the order of the code.
Verdict(raw) ==
  IF ~raw.parses \/ ~Renders(raw, TemplateValues(namespace, class)) THEN "ApplyFailed"
  ELSE IF Rendered(raw).kind = Nothing \/ Rendered(raw).name = Nothing THEN "ApplyFailed"
  ELSE IF ~Permitted(raw) THEN "GVKDenied"
  ELSE IF GVK(Rendered(raw)) \notin DOMAIN Scope THEN "ApplyFailed"
  ELSE IF Identity(Placed(raw)) \in foreign THEN "ApplyConflict"
  ELSE IF Seen(RefTo(Managed(raw))) THEN "DuplicateResource"
  ELSE "none"

-----------------------------------------------------------------------------
(* A pass.                                                                 *)

\* The reconciler has read a namespace and its class and begins to prepare.
Begin ==
  /\ manager = "running"
  /\ outcome # "preparing"
  /\ namespace' \in NamespaceObjects
  /\ class' \in ClassObjects
  /\ foreign' \in ForeignSets
  /\ prepared' = << >>
  /\ outcome' = "preparing"
  /\ UNCHANGED <<flags, options, manager, policy>>

PrepareResource ==
  /\ outcome = "preparing"
  /\ Len(prepared) < Len(class.resources)
  /\ LET raw == class.resources[Len(prepared) + 1] IN
       \/ /\ Verdict(raw) = "none"
          /\ prepared' = Append(prepared, Managed(raw))
          /\ UNCHANGED outcome
       \/ /\ Verdict(raw) # "none"
          /\ prepared' = << >>
          /\ outcome' = Verdict(raw)
  /\ UNCHANGED <<flags, options, manager, policy, namespace, class, foreign>>

\* All are prepared and go to applyManagedResources.
HandOver ==
  /\ outcome = "preparing"
  /\ Len(prepared) = Len(class.resources)
  /\ outcome' = "prepared"
  /\ UNCHANGED <<flags, options, manager, policy, namespace, class, foreign, prepared>>

Next == New \/ Begin \/ PrepareResource \/ HandOver

Spec == Init /\ [][Next]_vars
=============================================================================
