-------------------------- MODULE PreparationProofs --------------------------
(***************************************************************************)
(* For every command line, every class and every namespace: a controller   *)
(* that runs follows the operator's lists to the letter, whatever is       *)
(* prepared is allowed by them and carries the namespace's marks, and the  *)
(* namespace's values enter a rendered resource as they are.               *)
(***************************************************************************)
EXTENDS PreparationProperties, SequenceTheorems, WellFoundedInduction, TLAPS


\* Of what a flag holds, only items that are well-formed sequences matter.
AreItems(list) == \A i \in DOMAIN list : IsSequence(list[i])

\* Reading an entry of a list and formatting it gives the entry back, so a lookup of a
\* formatted kind compares what the operator has written.
LEMMA FormatParse ==
  ASSUME NEW item, IsSequence(item), WellFormed(item)
  PROVE  Format(ParseGVK(item)) = item
<1>1. Len(item) = 2 => item = <<item[1], item[2]>>
  BY DEF IsSequence
<1>2. Len(item) = 3 => item = <<item[1], item[2], item[3]>>
  BY DEF IsSequence
<1>3. CASE Len(item) = 2
  BY <1>1, <1>3 DEF Format, ParseGVK, Nothing
<1>4. CASE Len(item) = 3
  <2>1. item[1] # Nothing
    BY <1>4 DEF WellFormed, IsSequence
  <2>2. QED
    BY <1>2, <1>4, <2>1 DEF Format, ParseGVK
<1>5. QED
  BY <1>3, <1>4 DEF WellFormed

\* A list that parses holds exactly its entries.
LEMMA ParsedList ==
  ASSUME NEW list, AreItems(list), Parses(list)
  PROVE  ParseCSV(list) = Items(list)
<1>1. \A item \in Items(list) : Format(ParseGVK(item)) = item
  BY FormatParse DEF AreItems, Parses, Items
<1>2. QED
  BY <1>1 DEF ParseCSV

\* A kind is in a parsed list when one of the entries names it.
LEMMA ListExact ==
  ASSUME NEW list, AreItems(list), Parses(list), NEW gvk
  PROVE  Format(gvk) \in ParseCSV(list) <=> Names(list, gvk)
<1>1. Format(gvk) # << >>
  <2>1. <<gvk.version, gvk.kind>> # << >>
    OBVIOUS
  <2>2. <<gvk.group, gvk.version, gvk.kind>> # << >>
    OBVIOUS
  <2>3. QED
    BY <2>1, <2>2 DEF Format
<1>2. Format(gvk) \in ParseCSV(list) <=> \E i \in DOMAIN list : list[i] = Format(gvk)
  BY <1>1, ParsedList DEF Items
<1>3. QED
  BY <1>2 DEF Names, Format

-----------------------------------------------------------------------------
(* The options.                                                            *)

\* What the flags ask for: the lists are lists of items.
LEMMA GivenLists ==
  ASSUME flags \in FlagSets
  PROVE  AreItems(GivenAllow) /\ AreItems(GivenDeny)
<1>1. AreItems(GivenAllow)
  <2>1. CASE "allow" \in DOMAIN flags
    BY <2>1, FlagsAssumption DEF AreItems, GivenAllow
  <2>2. CASE "allow" \notin DOMAIN flags
    BY <2>2 DEF AreItems, GivenAllow
  <2>3. QED
    BY <2>1, <2>2
<1>2. AreItems(GivenDeny)
  <2>1. CASE "deny" \in DOMAIN flags /\ flags.deny # << >>
    BY <2>1, FlagsAssumption DEF AreItems, GivenDeny
  <2>2. CASE ~("deny" \in DOMAIN flags /\ flags.deny # << >>)
    BY <2>2, OptionsAssumption DEF AreItems, GivenDeny
  <2>3. QED
    BY <2>1, <2>2
<1>3. QED
  BY <1>1, <1>2

\* A controller that runs works with the lists the flags ask for.
PolicyInv ==
  /\ flags \in FlagSets
  /\ manager = "parsed" => options = Over(flags, DefaultOptions)
  /\ manager = "running" =>
       /\ Parses(GivenAllow) /\ Parses(GivenDeny)
       /\ policy = FromCSV(GivenAllow, GivenDeny)
       /\ options.interval > 0 \/ ("interval" \in DOMAIN flags /\ flags.interval < 0)

\* The options that reach FromCSV are what the flags ask for.
LEMMA DefaultsKept ==
  ASSUME flags \in FlagSets
  PROVE  LET o == WithDefaults(Over(flags, DefaultOptions))
         IN /\ o.allow = GivenAllow
            /\ o.deny = GivenDeny
            /\ o.interval > 0 \/ ("interval" \in DOMAIN flags /\ flags.interval < 0)
<1> DEFINE p == Over(flags, DefaultOptions)
           o == WithDefaults(p)
<1>1. {"allow", "deny", "interval"} \subseteq DOMAIN p
  BY DEF Over, DefaultOptions
<1>2. p.allow = GivenAllow
  BY DEF Over, DefaultOptions, GivenAllow
<1>3. p.deny = IF "deny" \in DOMAIN flags THEN flags.deny ELSE <<DeniedByDefault>>
  BY DEF Over, DefaultOptions
<1>4. p.interval = IF "interval" \in DOMAIN flags THEN flags.interval ELSE DefaultInterval
  BY DEF Over, DefaultOptions
<1> HIDE DEF p
<1>5. o.allow = p.allow
  BY <1>1 DEF WithDefaults
<1>6. o.deny = IF p.deny = << >> THEN <<DeniedByDefault>> ELSE p.deny
  BY <1>1 DEF WithDefaults, DefaultOptions
<1>7. o.interval = IF p.interval = 0 THEN DefaultInterval ELSE p.interval
  BY <1>1 DEF WithDefaults
<1> HIDE DEF o
<1>8. o.deny = GivenDeny
  BY <1>3, <1>6 DEF GivenDeny
<1>9. o.interval > 0 \/ ("interval" \in DOMAIN flags /\ flags.interval < 0)
  BY <1>4, <1>7, OptionsAssumption, FlagsAssumption
<1>10. QED
  BY <1>2, <1>5, <1>8, <1>9 DEF o, p

\* The policy of a controller that runs decides as the operator's lists do.
LEMMA PolicyExact ==
  ASSUME PolicyInv, manager = "running", NEW gvk
  PROVE  Permits(policy, gvk) <=> OperatorAllows(gvk)
<1>1. AreItems(GivenAllow) /\ AreItems(GivenDeny)
  BY GivenLists DEF PolicyInv
<1>2. /\ Parses(GivenAllow) /\ Parses(GivenDeny)
      /\ policy.allow = ParseCSV(GivenAllow) /\ policy.deny = ParseCSV(GivenDeny)
  BY DEF PolicyInv, FromCSV
<1>3. Format(gvk) \in policy.deny <=> Names(GivenDeny, gvk)
  BY <1>1, <1>2, ListExact
<1>4. Format(gvk) \in policy.allow <=> Names(GivenAllow, gvk)
  BY <1>1, <1>2, ListExact
<1>5. policy.allow = {} <=> \A i \in DOMAIN GivenAllow : GivenAllow[i] = << >>
  <2>1. policy.allow = Items(GivenAllow)
    BY <1>1, <1>2, ParsedList
  <2>2. QED
    BY <2>1 DEF Items
<1>6. QED
  BY <1>3, <1>4, <1>5 DEF Permits, OperatorAllows

\* What a start takes from the flags is never changed afterwards.
LEMMA PolicyStep ==
  ASSUME PolicyInv, [Next]_vars
  PROVE  PolicyInv'
<1>1. CASE New
  <2> DEFINE o == WithDefaults(Over(flags, DefaultOptions))
  <2>1. /\ flags \in FlagSets /\ manager = "parsed"
        /\ options = Over(flags, DefaultOptions) /\ flags' = flags
    BY <1>1 DEF New, PolicyInv
  <2>2. /\ options' = o
        /\ \/ manager' = "exited"
           \/ /\ Parses(o.allow) /\ Parses(o.deny)
              /\ manager' = "running" /\ policy' = FromCSV(o.allow, o.deny)
    BY <1>1, <2>1 DEF New
  <2>3. /\ o.allow = GivenAllow /\ o.deny = GivenDeny
        /\ o.interval > 0 \/ ("interval" \in DOMAIN flags /\ flags.interval < 0)
    BY <2>1, DefaultsKept
  <2>4. GivenAllow' = GivenAllow /\ GivenDeny' = GivenDeny
    BY <2>1 DEF GivenAllow, GivenDeny
  <2> HIDE DEF o
  <2>5. QED
    BY <2>1, <2>2, <2>3, <2>4 DEF PolicyInv
<1>2. CASE Begin \/ PrepareResource \/ HandOver \/ UNCHANGED vars
  <2>1. UNCHANGED <<flags, options, manager, policy>>
    BY <1>2 DEF Begin, PrepareResource, HandOver, vars
  <2>2. GivenAllow' = GivenAllow /\ GivenDeny' = GivenDeny
    BY <2>1 DEF GivenAllow, GivenDeny
  <2>3. QED
    BY <2>1, <2>2 DEF PolicyInv
<1>3. QED
  BY <1>1, <1>2 DEF Next

\* Every process starts with the flags it is given.
LEMMA PolicyInit == Init => PolicyInv
BY DEF Init, PolicyInv

\* A controller that runs obeys every entry of the operator's allow and deny lists,
\* whatever they are, and has a timer unless a negative interval was asked for.
THEOREM ListsInForce == Spec => []OptionsInForce
<1>1. PolicyInv => OptionsInForce
  BY PolicyExact DEF PolicyInv, OptionsInForce
<1>2. QED
  BY <1>1, PolicyInit, PolicyStep, PTL DEF Spec

-----------------------------------------------------------------------------
(* What is prepared.                                                       *)

Accepted(raw) ==
  /\ Renders(raw, TemplateValues(namespace, class))
  /\ Permitted(raw)
  /\ GVK(Rendered(raw)) \in DOMAIN Scope
  /\ Identity(Placed(raw)) \notin foreign

\* What is prepared comes, one by one, from accepted templates of the class.
PassInv ==
  /\ manager # "running" => outcome = "idle"
  /\ outcome \notin {"preparing", "prepared"} => prepared = << >>
  /\ outcome \in {"preparing", "prepared"} =>
       /\ class \in ClassObjects
       /\ Len(prepared) \in 0..Len(class.resources)
       /\ prepared = [i \in 1..Len(prepared) |-> Managed(class.resources[i])]
       /\ \A i \in 1..Len(prepared) : Accepted(class.resources[i])

\* Only an accepted template gets through.
LEMMA NoneAccepted == \A raw : Verdict(raw) = "none" => Accepted(raw)
BY DEF Verdict, Accepted

\* Appending the next object keeps the correspondence with the class.
LEMMA AppendNext ==
  ASSUME NEW f, NEW n \in Nat, NEW s, s = [i \in 1..n |-> f[i]]
  PROVE  /\ Append(s, f[n + 1]) = [i \in 1..(n + 1) |-> f[i]]
         /\ Len(Append(s, f[n + 1])) = n + 1
<1> DEFINE S == {f[i] : i \in 1..(n + 1)}
           t == Append(s, f[n + 1])
<1>1. s \in Seq(S) /\ Len(s) = n
  OBVIOUS
<1>2. t \in Seq(S) /\ Len(t) = n + 1
  BY <1>1
<1>3. \A i \in 1..(n + 1) : t[i] = f[i]
  BY <1>1
<1>4. QED
  BY <1>2, <1>3

\* What is accepted is judged by what the pass has read, and by the policy.
LEMMA SameJudgement ==
  ASSUME UNCHANGED <<policy, namespace, class, foreign>>
  PROVE  \A raw : (Managed(raw)' = Managed(raw)) /\ (Accepted(raw)' = Accepted(raw))
BY DEF Managed, Placed, Rendered, Accepted, Permitted

\* Before the first pass nothing is prepared.
LEMMA PassInit == Init => PassInv
BY DEF Init, PassInv

\* The next template is accepted and its object appended, or all objects are dropped.
LEMMA PassStep ==
  ASSUME PassInv, [Next]_vars
  PROVE  PassInv'
<1>1. CASE New
  <2>1. UNCHANGED <<prepared, outcome>> /\ outcome = "idle" /\ prepared = << >>
    BY <1>1 DEF New, PassInv, passVars
  <2>2. QED
    BY <2>1 DEF PassInv
<1>2. CASE Begin
  <2>1. /\ manager' = "running" /\ outcome' = "preparing"
        /\ class' \in ClassObjects /\ prepared' = << >> /\ Len(prepared') = 0
    BY <1>2 DEF Begin
  <2>2. Len(prepared') \in 0..Len(class'.resources)
    BY <2>1, ClassesAssumption
  <2>3. prepared' = [i \in 1..Len(prepared') |-> Managed(class.resources[i])']
    BY <2>1
  <2>4. QED
    BY <2>1, <2>2, <2>3 DEF PassInv
<1>3. CASE PrepareResource
  <2> DEFINE n == Len(prepared)
             raw == class.resources[n + 1]
             f == [i \in 1..Len(class.resources) |-> Managed(class.resources[i])]
  <2>1. /\ outcome = "preparing" /\ class \in ClassObjects
        /\ n \in Nat /\ Len(class.resources) \in Nat /\ n < Len(class.resources)
        /\ prepared = [i \in 1..n |-> Managed(class.resources[i])]
        /\ \A i \in 1..n : Accepted(class.resources[i])
    BY <1>3, ClassesAssumption DEF PrepareResource, PassInv
  <2>2. UNCHANGED <<flags, options, manager, policy, namespace, class, foreign>>
    BY <1>3 DEF PrepareResource
  <2>3. \A r : (Managed(r)' = Managed(r)) /\ (Accepted(r)' = Accepted(r))
    BY <2>2, SameJudgement
  <2>4. CASE Verdict(raw) = "none" /\ prepared' = Append(prepared, Managed(raw)) /\ UNCHANGED outcome
    <3>1. prepared = [i \in 1..n |-> f[i]] /\ Managed(raw) = f[n + 1]
      BY <2>1
    <3> HIDE DEF f
    <3>2. prepared' = [i \in 1..(n + 1) |-> f[i]] /\ Len(prepared') = n + 1
      BY <2>1, <2>4, <3>1, AppendNext
    <3>3. prepared' = [i \in 1..Len(prepared') |-> Managed(class'.resources[i])]
      BY <2>1, <2>2, <3>2 DEF f
    <3>4. prepared' = [i \in 1..Len(prepared') |-> Managed(class.resources[i])']
      BY <2>2, <2>3, <3>3
    <3>5. \A i \in 1..Len(prepared') : Accepted(class.resources[i])'
      <4>1. Accepted(raw)
        BY <2>4, NoneAccepted
      <4>2. \A i \in 1..(n + 1) : Accepted(class.resources[i])
        BY <2>1, <4>1
      <4>3. QED
        BY <2>2, <2>3, <3>2, <4>2
    <3>6. /\ outcome' = "preparing" /\ class' \in ClassObjects
          /\ Len(prepared') \in 0..Len(class'.resources) /\ manager' = manager
          /\ manager = "running"
      BY <2>1, <2>2, <2>4, <3>2 DEF PassInv
    <3>7. QED
      BY <3>4, <3>5, <3>6 DEF PassInv
  <2>5. CASE Verdict(raw) # "none" /\ prepared' = << >> /\ outcome' = Verdict(raw)
    <3>1. Verdict(raw) \notin {"preparing", "prepared"}
      BY <2>5 DEF Verdict
    <3>2. manager' = "running"
      BY <2>1, <2>2 DEF PassInv
    <3>3. QED
      BY <2>5, <3>1, <3>2 DEF PassInv
  <2>6. QED
    BY <1>3, <2>4, <2>5 DEF PrepareResource
<1>4. CASE HandOver \/ UNCHANGED vars
  <2>1. UNCHANGED <<flags, options, manager, policy, namespace, class, foreign, prepared>>
    BY <1>4 DEF HandOver, vars
  <2>2. \/ outcome = "preparing" /\ outcome' = "prepared"
        \/ outcome' = outcome
    BY <1>4 DEF HandOver, vars
  <2>3. \A r : (Managed(r)' = Managed(r)) /\ (Accepted(r)' = Accepted(r))
    BY <2>1, SameJudgement
  <2>4. QED
    BY <2>1, <2>2, <2>3 DEF PassInv
<1>5. QED
  BY <1>1, <1>2, <1>3, <1>4 DEF Next

\* Where an accepted template ends up: the fields of the object that is prepared.
LEMMA ManagedFields ==
  ASSUME PassInv, NEW i \in 1..Len(prepared), outcome \in {"preparing", "prepared"}
  PROVE  LET raw == class.resources[i] IN
         /\ prepared[i] = Managed(raw)
         /\ GVK(Managed(raw)) = GVK(Rendered(raw))
         /\ Identity(Managed(raw)) = Identity(Placed(raw))
         /\ \A x \in {"kind", "name", "body"} : Managed(raw)[x] = Rendered(raw)[x]
         /\ Managed(raw).namespace = IF Scope[GVK(Rendered(raw))] = "namespaced"
                                     THEN namespace.name ELSE Nothing
         /\ \A m \in {"managed", "class", "namespace", "owner"} :
              /\ m \in DOMAIN Managed(raw).marks
              /\ Managed(raw).marks[m] = ManagedMarks(namespace, class)[m]
<1> DEFINE raw == class.resources[i]
           fields == {"group", "version", "kind", "name", "namespace", "marks", "body"}
<1>1. /\ class \in ClassObjects /\ i \in 1..Len(class.resources)
      /\ prepared[i] = Managed(raw)
  BY ClassesAssumption DEF PassInv
<1>2. fields \subseteq DOMAIN raw
  BY <1>1, ClassesAssumption
<1>3. fields \subseteq DOMAIN Rendered(raw)
  BY <1>2 DEF Rendered, Render
<1>4. /\ fields \subseteq DOMAIN Placed(raw)
      /\ \A x \in fields \ {"namespace"} : Placed(raw)[x] = Rendered(raw)[x]
      /\ Placed(raw).namespace = IF Scope[GVK(Rendered(raw))] = "namespaced"
                                 THEN namespace.name ELSE Nothing
  BY <1>3 DEF Placed, Place
<1>5. /\ \A x \in fields \ {"marks"} : Managed(raw)[x] = Placed(raw)[x]
      /\ Managed(raw).marks = Over(ManagedMarks(namespace, class), Placed(raw).marks)
  BY <1>4 DEF Managed, AddManagedMetadata
<1>6. \A m \in {"managed", "class", "namespace", "owner"} :
        /\ m \in DOMAIN Managed(raw).marks
        /\ Managed(raw).marks[m] = ManagedMarks(namespace, class)[m]
  BY <1>5 DEF Over, ManagedMarks
<1>7. /\ GVK(Managed(raw)) = GVK(Rendered(raw))
      /\ Identity(Managed(raw)) = Identity(Placed(raw))
  BY <1>4, <1>5 DEF GVK, Identity
<1>8. \A x \in {"kind", "name", "body"} : Managed(raw)[x] = Rendered(raw)[x]
  BY <1>4, <1>5
<1>9. QED
  BY <1>1, <1>4, <1>5, <1>6, <1>7, <1>8

\* Objects are prepared only while the pass is at it or has handed them over.
LEMMA PreparedWhen ==
  ASSUME PassInv, NEW i \in DOMAIN prepared
  PROVE  outcome \in {"preparing", "prepared"} /\ i \in 1..Len(prepared)
<1>1. outcome \in {"preparing", "prepared"}
  <2>1. DOMAIN << >> = {}
    OBVIOUS
  <2>2. QED
    BY <2>1 DEF PassInv
<1>2. QED
  BY <1>1 DEF PassInv

\* No prepared object is of a kind the operator's lists forbid.
THEOREM AllowedOnly == Spec => []PreparedAllowed
<1>1. PolicyInv /\ PassInv => PreparedAllowed
  <2> SUFFICES ASSUME PolicyInv, PassInv, NEW i \in DOMAIN prepared
               PROVE  OperatorAllows(GVK(prepared[i]))
    BY DEF PreparedAllowed
  <2> DEFINE raw == class.resources[i]
  <2>1. /\ outcome \in {"preparing", "prepared"} /\ i \in 1..Len(prepared)
        /\ manager = "running"
    BY PreparedWhen DEF PassInv
  <2>2. prepared[i] = Managed(raw) /\ GVK(Managed(raw)) = GVK(Rendered(raw))
    BY <2>1, ManagedFields
  <2>3. Permits(policy, GVK(Rendered(raw)))
    BY <2>1 DEF PassInv, Accepted, Permitted
  <2>4. OperatorAllows(GVK(Rendered(raw)))
    BY <2>1, <2>3, PolicyExact
  <2>5. QED
    BY <2>2, <2>4
<1>2. QED
  BY <1>1, PolicyInit, PolicyStep, PassInit, PassStep, PTL DEF Spec

\* Whatever marks and namespace a template has of its own, the prepared object carries
\* the namespace's marks and stands where it should, clear of foreign objects.
THEOREM KnownAgain == Spec => []RecognisedLater
<1>1. PassInv => RecognisedLater
  <2> SUFFICES ASSUME PassInv, NEW i \in DOMAIN prepared
               PROVE  LET o == prepared[i] IN
                      /\ IsManagedByNamespace(o, namespace)
                      /\ o.marks.class = class.name /\ o.marks.namespace = namespace.name
                      /\ o.namespace = IF Scope[GVK(o)] = "namespaced" THEN namespace.name
                                                                      ELSE Nothing
                      /\ Identity(o) \notin foreign
    BY DEF RecognisedLater
  <2> DEFINE raw == class.resources[i]
  <2>1. outcome \in {"preparing", "prepared"} /\ i \in 1..Len(prepared)
    BY PreparedWhen
  <2>2. /\ prepared[i] = Managed(raw)
        /\ GVK(Managed(raw)) = GVK(Rendered(raw))
        /\ Identity(Managed(raw)) = Identity(Placed(raw))
        /\ Managed(raw).namespace = IF Scope[GVK(Rendered(raw))] = "namespaced"
                                    THEN namespace.name ELSE Nothing
        /\ \A m \in {"managed", "class", "namespace", "owner"} :
             /\ m \in DOMAIN Managed(raw).marks
             /\ Managed(raw).marks[m] = ManagedMarks(namespace, class)[m]
    BY <2>1, ManagedFields
  <2>3. Identity(Placed(raw)) \notin foreign
    BY <2>1 DEF PassInv, Accepted
  <2>4. /\ {"managed", "owner"} \subseteq DOMAIN prepared[i].marks
        /\ prepared[i].marks.managed = Word("true") /\ prepared[i].marks.owner = namespace.uid
        /\ prepared[i].marks.class = class.name /\ prepared[i].marks.namespace = namespace.name
    BY <2>2 DEF ManagedMarks
  <2>5. QED
    BY <2>2, <2>3, <2>4 DEF IsManagedByNamespace
<1>2. QED
  BY <1>1, PassInit, PassStep, PTL DEF Spec

-----------------------------------------------------------------------------
(* How a pass ends.                                                        *)

\* The marks are no part of a reference.
LEMMA MarksNoReference ==
  ASSUME class \in ClassObjects, NEW i \in 1..Len(class.resources)
  PROVE  RefTo(Managed(class.resources[i])) = RefTo(Placed(class.resources[i]))
<1> DEFINE raw == class.resources[i]
           fields == {"group", "version", "kind", "name", "namespace", "marks"}
<1>1. fields \subseteq DOMAIN raw
  BY ClassesAssumption
<1>2. fields \subseteq DOMAIN Placed(raw)
  BY <1>1 DEF Placed, Place, Rendered, Render
<1>3. \A x \in fields \ {"marks"} : Managed(raw)[x] = Placed(raw)[x]
  BY <1>2 DEF Managed, AddManagedMetadata
<1>4. QED
  BY <1>3 DEF RefTo

\* The verdict on the next template is one of the complaints about it, and there is
\* none only if there is nothing to complain about.
LEMMA VerdictJust ==
  ASSUME PolicyInv, PassInv, outcome = "preparing", Len(prepared) < Len(class.resources)
  PROVE  LET n == Len(prepared)
             raw == class.resources[n + 1]
         IN /\ Verdict(raw) = "none" => Complaints(n + 1) = {}
            /\ Verdict(raw) # "none" => Verdict(raw) \in Complaints(n + 1)
<1> DEFINE n == Len(prepared)
           raw == class.resources[n + 1]
           gvk == GVK(Rendered(raw))
           twice == \E j \in 1..n : RefTo(Placed(class.resources[j])) = RefTo(Placed(raw))
<1>1. /\ class \in ClassObjects /\ n \in Nat /\ Len(class.resources) \in Nat
      /\ n + 1 \in 1..Len(class.resources) /\ 1..n \subseteq 1..Len(class.resources)
      /\ prepared = [i \in 1..n |-> Managed(class.resources[i])]
      /\ manager = "running"
  BY ClassesAssumption DEF PassInv
<1>2. Permitted(raw) <=> OperatorAllows(gvk)
  BY <1>1, PolicyExact DEF Permitted
<1>3. Seen(RefTo(Managed(raw))) <=> twice
  <2>1. \A j \in 1..n : RefTo(prepared[j]) = RefTo(Placed(class.resources[j]))
    BY <1>1, MarksNoReference
  <2>2. RefTo(Managed(raw)) = RefTo(Placed(raw))
    BY <1>1, MarksNoReference
  <2>3. DOMAIN prepared = 1..n
    BY <1>1
  <2>4. QED
    BY <2>1, <2>2, <2>3 DEF Seen
<1>4. Complaints(n + 1) =
        IF ~raw.parses \/ ~Renders(raw, TemplateValues(namespace, class)) THEN {"ApplyFailed"}
        ELSE IF gvk \notin DOMAIN Scope
             THEN {"ApplyFailed"} \cup (IF OperatorAllows(gvk) THEN {} ELSE {"GVKDenied"})
        ELSE (IF Nothing \in {Rendered(raw).kind, Rendered(raw).name}
              THEN {"ApplyFailed"} ELSE {}) \cup
             (IF OperatorAllows(gvk) THEN {} ELSE {"GVKDenied"}) \cup
             (IF Identity(Placed(raw)) \in foreign THEN {"ApplyConflict"} ELSE {}) \cup
             (IF twice THEN {"DuplicateResource"} ELSE {})
  BY <1>1 DEF Complaints
<1>5. Verdict(raw) =
        IF ~raw.parses \/ ~Renders(raw, TemplateValues(namespace, class)) THEN "ApplyFailed"
        ELSE IF Rendered(raw).kind = Nothing \/ Rendered(raw).name = Nothing THEN "ApplyFailed"
        ELSE IF ~OperatorAllows(gvk) THEN "GVKDenied"
        ELSE IF gvk \notin DOMAIN Scope THEN "ApplyFailed"
        ELSE IF Identity(Placed(raw)) \in foreign THEN "ApplyConflict"
        ELSE IF twice THEN "DuplicateResource"
        ELSE "none"
  BY <1>2, <1>3 DEF Verdict
<1> HIDE DEF n, raw, gvk, twice
<1>6. /\ Verdict(raw) = "none" => Complaints(n + 1) = {}
      /\ Verdict(raw) # "none" => Verdict(raw) \in Complaints(n + 1)
  BY <1>4, <1>5
<1>7. QED
  BY <1>6 DEF n, raw

\* Nothing is wrong with what a pass has gone past.
JustInv ==
  /\ outcome \in {"preparing", "prepared"} => \A i \in 1..Len(prepared) : Complaints(i) = {}
  /\ outcome = "prepared" => Len(prepared) = Len(class.resources)
  /\ OutcomeJust

\* Each turn goes past one good template, or ends the pass at the first bad one.
LEMMA JustStep ==
  ASSUME PolicyInv, PassInv, JustInv, [Next]_vars
  PROVE  JustInv'
<1>1. CASE New
  <2>1. outcome = "idle" /\ outcome' = "idle"
    BY <1>1 DEF New, PassInv, passVars
  <2>2. QED
    BY <2>1 DEF JustInv, OutcomeJust, Refusals
<1>2. CASE Begin
  <2>1. outcome' = "preparing" /\ Len(prepared') = 0
    BY <1>2 DEF Begin
  <2>2. QED
    BY <2>1 DEF JustInv, OutcomeJust, Refusals
<1>3. CASE PrepareResource
  <2> DEFINE n == Len(prepared)
             raw == class.resources[n + 1]
  <2>1. /\ outcome = "preparing" /\ n \in Nat /\ n < Len(class.resources)
        /\ Len(class.resources) \in Nat /\ n + 1 \in DOMAIN class.resources
        /\ \A i \in 1..n : Complaints(i) = {}
        /\ prepared = [i \in 1..n |-> Managed(class.resources[i])]
    BY <1>3, ClassesAssumption DEF PrepareResource, PassInv, JustInv
  <2>2. /\ UNCHANGED <<flags, namespace, class, foreign>>
        /\ \A i : Complaints(i)' = Complaints(i)
    BY <1>3 DEF PrepareResource, Complaints, Placed, Rendered, OperatorAllows, GivenAllow, GivenDeny
  <2>3. /\ Verdict(raw) = "none" => Complaints(n + 1) = {}
        /\ Verdict(raw) # "none" => Verdict(raw) \in Complaints(n + 1)
    BY <2>1, VerdictJust
  <2>4. CASE Verdict(raw) = "none" /\ prepared' = Append(prepared, Managed(raw)) /\ UNCHANGED outcome
    <3> DEFINE f == [i \in 1..Len(class.resources) |-> Managed(class.resources[i])]
    <3>1. prepared = [i \in 1..n |-> f[i]] /\ Managed(raw) = f[n + 1]
      BY <2>1
    <3> HIDE DEF f
    <3>2. Len(prepared') = n + 1
      BY <2>1, <2>4, <3>1, AppendNext
    <3>3. \A i \in 1..(n + 1) : Complaints(i) = {}
      BY <2>1, <2>3, <2>4
    <3>4. QED
      BY <2>1, <2>2, <2>4, <3>2, <3>3 DEF JustInv, OutcomeJust, Refusals
  <2>5. CASE Verdict(raw) # "none" /\ prepared' = << >> /\ outcome' = Verdict(raw)
    <3>1. outcome' \notin {"preparing", "prepared"}
      BY <2>5 DEF Verdict
    <3>2. PICK k \in DOMAIN class.resources : k = n + 1
      BY <2>1
    <3>3. outcome' \in Complaints(k)
      BY <2>3, <2>5, <3>2
    <3>4. \A j \in 1..(k - 1) : Complaints(j) = {}
      BY <2>1, <3>2
    <3>5. /\ k \in DOMAIN class'.resources /\ outcome' \in Complaints(k)'
          /\ \A j \in 1..(k - 1) : Complaints(j)' = {}
      BY <2>2, <3>3, <3>4
    <3>6. QED
      BY <3>1, <3>5 DEF JustInv, OutcomeJust
  <2>6. QED
    BY <1>3, <2>4, <2>5 DEF PrepareResource
<1>4. CASE HandOver
  <2>1. /\ outcome = "preparing" /\ outcome' = "prepared" /\ class \in ClassObjects
        /\ Len(prepared) = Len(class.resources)
        /\ UNCHANGED <<flags, namespace, class, foreign, prepared>>
    BY <1>4 DEF HandOver, PassInv
  <2>2. \A i : Complaints(i)' = Complaints(i)
    BY <2>1 DEF Complaints, Placed, Rendered, OperatorAllows, GivenAllow, GivenDeny
  <2>3. DOMAIN class.resources = 1..Len(prepared)
    BY <2>1, ClassesAssumption
  <2>4. \A i \in DOMAIN class.resources : Complaints(i) = {}
    BY <2>1, <2>3 DEF JustInv
  <2>5. QED
    BY <2>1, <2>2, <2>3, <2>4 DEF JustInv, OutcomeJust, Refusals
<1>5. CASE UNCHANGED vars
  <2>1. UNCHANGED <<flags, namespace, class, foreign, prepared, outcome>>
    BY <1>5 DEF vars
  <2>2. \A i : Complaints(i)' = Complaints(i)
    BY <2>1 DEF Complaints, Placed, Rendered, OperatorAllows, GivenAllow, GivenDeny
  <2>3. QED
    BY <2>1, <2>2 DEF JustInv, OutcomeJust
<1>6. QED
  BY <1>1, <1>2, <1>3, <1>4, <1>5 DEF Next

\* A class is handed over only if nothing is wrong with any of its resources, and is
\* refused for something that is wrong with the first bad one.
THEOREM OutcomesJust == Spec => []OutcomeJust
<1>1. Init => JustInv
  BY DEF Init, JustInv, OutcomeJust, Refusals
<1>2. JustInv => OutcomeJust
  BY DEF JustInv
<1>3. QED
  BY <1>1, <1>2, PolicyInit, PolicyStep, PassInit, PassStep, JustStep, PTL DEF Spec
-----------------------------------------------------------------------------
(* Types.                                                                  *)

\* The options have their three fields and, from New on, no empty deny list or interval.
LEMMA OptionsTyped ==
  ASSUME flags \in FlagSets
  PROVE  LET p == Over(flags, DefaultOptions)
             o == WithDefaults(p)
         IN /\ DOMAIN p = {"allow", "deny", "interval"}
            /\ DOMAIN o = {"allow", "deny", "interval"}
            /\ o.deny # << >> /\ o.interval # 0
<1> DEFINE p == Over(flags, DefaultOptions)
           o == WithDefaults(p)
<1>1. DOMAIN p = {"allow", "deny", "interval"}
  <2>1. DOMAIN flags \subseteq {"allow", "deny", "interval"}
    BY FlagsAssumption
  <2>2. DOMAIN DefaultOptions = {"allow", "deny", "interval"}
    BY DEF DefaultOptions
  <2>3. QED
    BY <2>1, <2>2 DEF Over
<1> HIDE DEF p
<1>2. /\ DOMAIN o = DOMAIN p
      /\ o.deny = IF p.deny = << >> THEN <<DeniedByDefault>> ELSE p.deny
      /\ o.interval = IF p.interval = 0 THEN DefaultInterval ELSE p.interval
  BY <1>1 DEF WithDefaults, DefaultOptions
<1>3. <<DeniedByDefault>> # << >> /\ DefaultInterval # 0
  BY OptionsAssumption
<1> HIDE DEF o
<1>4. DOMAIN o = {"allow", "deny", "interval"} /\ o.deny # << >> /\ o.interval # 0
  BY <1>1, <1>2, <1>3
<1>5. QED
  BY <1>1, <1>4 DEF o, p

\* Every step keeps the variables in their types.
LEMMA PreparationTypesStep ==
  ASSUME TypeOK, PolicyInv, PassInv, [Next]_vars
  PROVE  TypeOK'
<1>1. CASE New
  <2>1. /\ manager = "parsed" /\ flags' = flags /\ flags \in FlagSets
        /\ options' = WithDefaults(Over(flags, DefaultOptions))
        /\ manager' \in {"running", "exited"}
    BY <1>1 DEF New, PolicyInv
  <2>2. /\ outcome = "idle" /\ prepared = << >>
        /\ outcome' = "idle" /\ prepared' = << >>
    BY <1>1, <2>1 DEF New, PassInv, passVars
  <2>3. /\ DOMAIN options' = {"allow", "deny", "interval"}
        /\ options'.deny # << >> /\ options'.interval # 0
    BY <2>1, OptionsTyped
  <2>4. QED
    BY <2>1, <2>2, <2>3 DEF TypeOK
<1>2. CASE Begin
  <2>1. /\ manager = "running" /\ UNCHANGED <<flags, options, manager>>
        /\ namespace' \in NamespaceObjects /\ class' \in ClassObjects
        /\ foreign' \in ForeignSets
        /\ prepared' = << >> /\ Len(prepared') = 0 /\ outcome' = "preparing"
    BY <1>2 DEF Begin
  <2>2. Len(prepared') \leq Len(class'.resources)
    BY <2>1, ClassesAssumption
  <2>3. QED
    BY <2>1, <2>2 DEF TypeOK
<1>3. CASE PrepareResource \/ HandOver
  <2>1. /\ UNCHANGED <<flags, options, manager, namespace, class, foreign>>
        /\ outcome = "preparing" /\ manager = "running"
    BY <1>3 DEF PrepareResource, HandOver, PassInv
  <2>2. outcome' \in {"preparing", "prepared"} \cup Refusals
    BY <1>3, <2>1 DEF PrepareResource, HandOver, Verdict, Refusals
  <2>3. PassInv'
    BY PassStep
  <2>4. /\ outcome' \notin {"preparing", "prepared"} => prepared' = << >>
        /\ Len(prepared') \leq Len(class'.resources)
    <3>1. CASE outcome' \in {"preparing", "prepared"}
      BY <2>3, <3>1, ClassesAssumption DEF PassInv
    <3>2. CASE outcome' \notin {"preparing", "prepared"}
      <4>1. prepared' = << >> /\ Len(prepared') = 0
        BY <2>3, <3>2 DEF PassInv
      <4>2. Len(class'.resources) \in Nat
        BY <2>1, ClassesAssumption DEF TypeOK
      <4>3. QED
        BY <4>1, <4>2
    <3>3. QED
      BY <3>1, <3>2
  <2>5. QED
    BY <2>1, <2>2, <2>4 DEF TypeOK
<1>4. CASE UNCHANGED vars
  BY <1>4 DEF vars, TypeOK
<1>5. QED
  BY <1>1, <1>2, <1>3, <1>4 DEF Next

\* Options, manager and pass stay in their types, no pass runs without a manager, and
\* a manager that has its options has a deny list and an interval.
THEOREM PreparationTypes == Spec => []TypeOK
<1>1. Init => TypeOK
  <2> SUFFICES ASSUME Init PROVE TypeOK
    OBVIOUS
  <2>1. DOMAIN options = {"allow", "deny", "interval"}
    BY OptionsTyped DEF Init
  <2>2. QED
    BY <2>1 DEF Init, TypeOK
<1>2. QED
  BY <1>1, PolicyInit, PolicyStep, PassInit, PassStep, PreparationTypesStep, PTL DEF Spec

-----------------------------------------------------------------------------
(* Rendering, for texts and values of every length: RenderString is a      *)
(* recursive function, and what is said of all its values is proved from   *)
(* the least position at which it would fail.                              *)

\* A set of numbers that has an element has a smallest one.
LEMMA SmallestExists ==
  ASSUME NEW T \in SUBSET Nat, T # {}
  PROVE  \E n \in T : \A m \in T : n \leq m
<1> DEFINE R == OpToRel(<, Nat)
<1>1. IsWellFoundedOn(R, Nat)
  BY NatLessThanWellFounded
<1>2. \A x, y \in Nat : x < y => <<x, y>> \in R
  BY DEF OpToRel
<1> HIDE DEF R
<1>3. PICK n \in T : \A m \in T : <<m, n>> \notin R
  BY <1>1, WFMin
<1>4. \A m \in T : n \leq m
  <2> TAKE m \in T
  <2>1. m \in Nat /\ n \in Nat /\ ~(m < n)
    BY <1>2, <1>3
  <2>2. QED
    BY <2>1
<1>5. QED
  BY <1>3, <1>4

\* What is true of 0, and of each number up to N along with the one before it, has no
\* exception up to N: Bad is the set of the exceptions.
LEMMA NoException ==
  ASSUME NEW N \in Nat, NEW Bad \in SUBSET (0..N), 0 \notin Bad,
         \A i \in 1..N : i \in Bad => i - 1 \in Bad
  PROVE  Bad = {}
<1> SUFFICES ASSUME Bad # {} PROVE FALSE
  OBVIOUS
<1>1. Bad \in SUBSET Nat
  OBVIOUS
<1>2. PICK n \in Bad : \A m \in Bad : n \leq m
  BY <1>1, SmallestExists
<1>3. n \in 1..N
  BY <1>2
<1>4. n - 1 \in Bad /\ n - 1 < n
  BY <1>2, <1>3
<1>5. QED
  BY <1>2, <1>3, <1>4

-----------------------------------------------------------------------------
(* The function of RenderString.                                           *)

\* What the i-th token of a text comes to.
Piece(text, values, i) == IF text[i].variable THEN values[text[i].of] ELSE <<text[i]>>

\* g renders every beginning of text up to the n-th token.
RendersUpTo(g, n, text, values) ==
  g = [i \in 0..n |-> IF i = 0 THEN << >> ELSE g[i - 1] \o Piece(text, values, i)]

\* Texts of every length can be rendered: a function that renders n - 1 tokens is
\* carried on by one.
LEMMA RenderedSomehow ==
  ASSUME NEW text, NEW values, NEW N \in Nat
  PROVE  \E g : RendersUpTo(g, N, text, values)
<1> DEFINE Bad == {n \in 0..N : ~\E g : RendersUpTo(g, n, text, values)}
<1>1. 0 \notin Bad
  <2> DEFINE g == [i \in 0..0 |-> << >>]
  <2>1. RendersUpTo(g, 0, text, values)
    BY DEF RendersUpTo
  <2>2. QED
    BY <2>1
<1>2. ASSUME NEW n \in 1..N, n - 1 \notin Bad
      PROVE  n \notin Bad
  <2>1. PICK g : RendersUpTo(g, n - 1, text, values)
    BY <1>2
  <2> DEFINE h == [i \in 0..n |-> IF i = n THEN g[n - 1] \o Piece(text, values, n) ELSE g[i]]
  <2>2. /\ \A i \in 0..(n - 1) : h[i] = g[i]
        /\ h[n] = g[n - 1] \o Piece(text, values, n)
    OBVIOUS
  <2>3. \A i \in 0..(n - 1) : g[i] = IF i = 0 THEN << >> ELSE g[i - 1] \o Piece(text, values, i)
    BY <2>1 DEF RendersUpTo
  <2>4. \A i \in 0..n : h[i] = IF i = 0 THEN << >> ELSE h[i - 1] \o Piece(text, values, i)
    <3> TAKE i \in 0..n
    <3>1. CASE i = 0
      BY <2>2, <2>3, <3>1
    <3>2. CASE i \in 1..(n - 1)
      BY <2>2, <2>3, <3>2
    <3>3. CASE i = n
      <4>1. i # 0 /\ i - 1 = n - 1 /\ n - 1 \in 0..(n - 1)
        BY <3>3
      <4>2. h[i] = g[n - 1] \o Piece(text, values, n) /\ h[i - 1] = g[n - 1]
        BY <2>2, <3>3, <4>1
      <4> HIDE DEF h
      <4>3. QED
        BY <3>3, <4>1, <4>2
    <3>4. QED
      BY <3>1, <3>2, <3>3
  <2>5. h = [i \in 0..n |-> h[i]]
    OBVIOUS
  <2> HIDE DEF h
  <2>6. RendersUpTo(h, n, text, values)
    BY <2>4, <2>5 DEF RendersUpTo
  <2>7. QED
    BY <2>6
<1>3. \A i \in 1..N : i \in Bad => i - 1 \in Bad
  BY <1>2
<1>4. Bad \in SUBSET (0..N)
  OBVIOUS
<1> HIDE DEF Bad
<1>5. Bad = {}
  BY <1>1, <1>3, <1>4, NoException
<1>6. QED
  BY <1>5 DEF Bad

\* RenderString is the last value of such a function.
LEMMA RenderUnfolds ==
  ASSUME NEW text, NEW values, Len(text) \in Nat
  PROVE  \E g : /\ RendersUpTo(g, Len(text), text, values)
                /\ RenderString(text, values) = g[Len(text)]
<1> DEFINE f == CHOOSE g : RendersUpTo(g, Len(text), text, values)
<1>1. RendersUpTo(f, Len(text), text, values)
  BY RenderedSomehow
<1>2. RenderString(text, values) = f[Len(text)]
  BY DEF RenderString, RendersUpTo, Piece
<1>3. QED
  BY <1>1, <1>2

-----------------------------------------------------------------------------
(* What comes out.                                                         *)

\* The tokens of two texts in a row are those of both.
LEMMA TokensOfConcat ==
  ASSUME NEW S, NEW s \in Seq(S), NEW t \in Seq(S)
  PROVE  Tokens(s \o t) = Tokens(s) \cup Tokens(t)
<1>1. /\ s \o t \in Seq(S) /\ Len(s \o t) = Len(s) + Len(t)
      /\ \A i \in 1..(Len(s) + Len(t)) :
           (s \o t)[i] = IF i \leq Len(s) THEN s[i] ELSE t[i - Len(s)]
  BY ConcatProperties
<1>2. DOMAIN s = 1..Len(s) /\ DOMAIN t = 1..Len(t) /\ Len(s) \in Nat /\ Len(t) \in Nat
  OBVIOUS
<1>3. DOMAIN (s \o t) = 1..(Len(s) + Len(t))
  BY <1>1
<1>4. ASSUME NEW i \in DOMAIN s
      PROVE  s[i] \in Tokens(s \o t)
  <2>1. i \in DOMAIN (s \o t) /\ (s \o t)[i] = s[i]
    BY <1>1, <1>2, <1>3
  <2>2. QED
    BY <2>1 DEF Tokens
<1>5. ASSUME NEW i \in DOMAIN t
      PROVE  t[i] \in Tokens(s \o t)
  <2>1. Len(s) + i \in DOMAIN (s \o t) /\ (s \o t)[Len(s) + i] = t[i]
    BY <1>1, <1>2, <1>3
  <2>2. QED
    BY <2>1 DEF Tokens
<1>6. ASSUME NEW i \in DOMAIN (s \o t)
      PROVE  (s \o t)[i] \in Tokens(s) \cup Tokens(t)
  <2>1. CASE i \leq Len(s)
    BY <1>1, <1>2, <1>3, <2>1 DEF Tokens
  <2>2. CASE ~(i \leq Len(s))
    <3>1. i - Len(s) \in DOMAIN t /\ (s \o t)[i] = t[i - Len(s)]
      BY <1>1, <1>2, <1>3, <2>2
    <3>2. QED
      BY <3>1 DEF Tokens
  <2>3. QED
    BY <2>1, <2>2
<1>7. QED
  BY <1>4, <1>5, <1>6 DEF Tokens

\* The tokens of the first n tokens of a text, each replaced by what it comes to.
PiecesUpTo(n, text, values) == UNION {Tokens(Piece(text, values, i)) : i \in 1..n}

\* A rendered text is made of the literals of the text and of the tokens of the values
\* of its variables, and nothing more happens to those.
LEMMA RenderedTokens ==
  ASSUME NEW text, NEW values, IsSequence(text), Variables(text) \subseteq DOMAIN values,
         \A v \in Variables(text) : IsSequence(values[v])
  PROVE  Tokens(RenderString(text, values)) =
           {u \in Tokens(text) : ~u.variable} \cup UNION {Tokens(values[v]) : v \in Variables(text)}
<1> DEFINE N == Len(text)
           S == Tokens(text) \cup UNION {Tokens(values[v]) : v \in Variables(text)}
<1>1. N \in Nat /\ DOMAIN text = 1..N
  BY DEF IsSequence
<1>2. PICK g : RendersUpTo(g, N, text, values) /\ RenderString(text, values) = g[N]
  BY <1>1, RenderUnfolds
<1>3. g[0] = << >> /\ \A i \in 1..N : g[i] = g[i - 1] \o Piece(text, values, i)
  <2>1. \A i \in 0..N : g[i] = IF i = 0 THEN << >> ELSE g[i - 1] \o Piece(text, values, i)
    BY <1>2 DEF RendersUpTo
  <2> HIDE DEF N
  <2>2. g[0] = << >>
    BY <1>1, <2>1
  <2>3. \A i \in 1..N : i \in 0..N /\ i # 0
    BY <1>1
  <2>4. QED
    BY <2>1, <2>2, <2>3
<1>4. ASSUME NEW i \in 1..N
      PROVE  Piece(text, values, i) \in Seq(S)
  <2>1. CASE text[i].variable
    <3>1. text[i].of \in Variables(text)
      BY <1>1, <2>1 DEF Variables, Tokens
    <3>2. IsSequence(values[text[i].of])
      BY <3>1
    <3>3. values[text[i].of] \in Seq(Tokens(values[text[i].of]))
      BY <3>2 DEF IsSequence, Tokens
    <3>4. Tokens(values[text[i].of]) \subseteq S
      BY <3>1
    <3>5. values[text[i].of] \in Seq(S)
      BY <3>3, <3>4
    <3>6. QED
      BY <2>1, <3>5 DEF Piece
  <2>2. CASE ~text[i].variable
    <3>1. text[i] \in S
      BY <1>1 DEF Tokens
    <3>2. QED
      BY <2>2, <3>1 DEF Piece
  <2>3. QED
    BY <2>1, <2>2
<1> HIDE DEF S
<1> DEFINE Bad == {n \in 0..N : ~(/\ g[n] \in Seq(S)
                                  /\ Tokens(g[n]) = PiecesUpTo(n, text, values))}
<1>5. 0 \notin Bad
  <2>1. << >> \in Seq(S) /\ Tokens(<< >>) = {}
    BY DEF Tokens
  <2>2. 1..0 = {}
    OBVIOUS
  <2>3. PiecesUpTo(0, text, values) = {}
    BY <2>2 DEF PiecesUpTo
  <2>4. QED
    BY <1>3, <2>1, <2>3
<1>6. ASSUME NEW n \in 1..N, n - 1 \notin Bad
      PROVE  n \notin Bad
  <2>1. g[n - 1] \in Seq(S) /\ Tokens(g[n - 1]) = PiecesUpTo(n - 1, text, values)
    BY <1>1, <1>6
  <2>2. g[n] = g[n - 1] \o Piece(text, values, n)
    BY <1>3
  <2>3. Tokens(g[n]) = Tokens(g[n - 1]) \cup Tokens(Piece(text, values, n))
    BY <1>4, <2>1, <2>2, TokensOfConcat
  <2>4. 1..n = 1..(n - 1) \cup {n}
    BY <1>1
  <2>5. PiecesUpTo(n, text, values) =
          PiecesUpTo(n - 1, text, values) \cup Tokens(Piece(text, values, n))
    BY <2>4 DEF PiecesUpTo
  <2>6. g[n] \in Seq(S)
    BY <1>4, <2>1, <2>2, ConcatProperties
  <2>7. QED
    BY <2>1, <2>3, <2>5, <2>6
<1>7. Bad \in SUBSET (0..N) /\ \A i \in 1..N : i \in Bad => i - 1 \in Bad
  BY <1>6
<1> HIDE DEF Bad
<1>8. Bad = {}
  BY <1>1, <1>5, <1>7, NoException
<1>9. Tokens(g[N]) = PiecesUpTo(N, text, values)
  BY <1>1, <1>8 DEF Bad
<1>10. PiecesUpTo(N, text, values) =
         {u \in Tokens(text) : ~u.variable} \cup UNION {Tokens(values[v]) : v \in Variables(text)}
  <2>1. ASSUME NEW i \in 1..N, NEW u \in Tokens(Piece(text, values, i))
        PROVE  \/ u \in Tokens(text) /\ ~u.variable
               \/ \E v \in Variables(text) : u \in Tokens(values[v])
    <3>1. CASE text[i].variable
      <4>1. text[i].of \in Variables(text)
        BY <1>1, <3>1 DEF Variables, Tokens
      <4>2. QED
        BY <2>1, <3>1, <4>1 DEF Piece
    <3>2. CASE ~text[i].variable
      <4>1. u = text[i]
        BY <2>1, <3>2 DEF Piece, Tokens
      <4>2. QED
        BY <1>1, <3>2, <4>1 DEF Tokens
    <3>3. QED
      BY <3>1, <3>2
  <2>2. ASSUME NEW u \in Tokens(text), ~u.variable
        PROVE  \E i \in 1..N : u \in Tokens(Piece(text, values, i))
    <3>1. PICK i \in 1..N : u = text[i]
      BY <1>1 DEF Tokens
    <3>2. Piece(text, values, i) = <<u>>
      BY <2>2, <3>1 DEF Piece
    <3>3. u \in Tokens(<<u>>)
      BY DEF Tokens
    <3>4. QED
      BY <3>2, <3>3
  <2>3. ASSUME NEW v \in Variables(text), NEW u \in Tokens(values[v])
        PROVE  \E i \in 1..N : u \in Tokens(Piece(text, values, i))
    <3>1. PICK i \in 1..N : text[i].variable /\ v = text[i].of
      BY <1>1 DEF Variables, Tokens
    <3>2. Piece(text, values, i) = values[v]
      BY <3>1 DEF Piece
    <3>3. QED
      BY <3>2
  <2>4. QED
    BY <2>1, <2>2, <2>3 DEF PiecesUpTo
<1>11. QED
  BY <1>2, <1>9, <1>10

-----------------------------------------------------------------------------
(* What is prepared.                                                       *)

\* What a variable stands for is text, whichever namespace and class a pass has read.
LEMMA ValuesAreTexts ==
  ASSUME namespace \in NamespaceObjects, class \in ClassObjects
  PROVE  LET values == TemplateValues(namespace, class)
         IN \A v \in DOMAIN values : IsSequence(values[v])
<1> DEFINE values == TemplateValues(namespace, class)
           labels == {<<"Labels", k>> : k \in DOMAIN namespace.labels}
           annotations == {<<"Annotations", k>> : k \in DOMAIN namespace.annotations}
<1> SUFFICES ASSUME NEW v \in DOMAIN values PROVE IsSequence(values[v])
  OBVIOUS
<1>1. /\ v \in {<<"Name">>, <<"UID">>, <<"Class">>} \cup labels \cup annotations
      /\ values[v] = CASE v = <<"Name">>  -> namespace.name
                       [] v = <<"UID">>   -> namespace.uid
                       [] v = <<"Class">> -> class.name
                       [] v[1] = "Labels" -> namespace.labels[v[2]]
                       [] OTHER           -> namespace.annotations[v[2]]
  BY DEF TemplateValues
<1> HIDE DEF values
<1>2. CASE v = <<"Name">>
  <2>1. v # <<"UID">> /\ v # <<"Class">> /\ v[1] # "Labels"
    BY <1>2
  <2>2. QED
    BY <1>1, <1>2, <2>1, TextsAssumption
<1>3. CASE v = <<"UID">>
  <2>1. v # <<"Name">> /\ v # <<"Class">> /\ v[1] # "Labels"
    BY <1>3
  <2>2. QED
    BY <1>1, <1>3, <2>1, TextsAssumption
<1>4. CASE v = <<"Class">>
  <2>1. v # <<"Name">> /\ v # <<"UID">> /\ v[1] # "Labels"
    BY <1>4
  <2>2. QED
    BY <1>1, <1>4, <2>1, TextsAssumption
<1>5. CASE v \in labels
  <2>1. PICK k \in DOMAIN namespace.labels : v = <<"Labels", k>>
    BY <1>5
  <2>2. v[1] = "Labels" /\ v[2] = k /\ v \notin {<<"Name">>, <<"UID">>, <<"Class">>}
    BY <2>1
  <2>3. QED
    BY <1>1, <2>1, <2>2, TextsAssumption
<1>6. CASE v \in annotations
  <2>1. PICK k \in DOMAIN namespace.annotations : v = <<"Annotations", k>>
    BY <1>6
  <2>2. v[1] # "Labels" /\ v[2] = k /\ v \notin {<<"Name">>, <<"UID">>, <<"Class">>}
    BY <2>1
  <2>3. QED
    BY <1>1, <2>1, <2>2, TextsAssumption
<1>7. QED
  BY <1>1, <1>2, <1>3, <1>4, <1>5, <1>6

\* Name, kind and body of a prepared object are those of its template with every
\* variable replaced by its value, once: what a value brings in is not rendered again.
THEOREM ValuesEnterAsTheyAre == Spec => []RenderedOnce
<1>1. TypeOK /\ PassInv => RenderedOnce
  <2> SUFFICES ASSUME TypeOK, PassInv, NEW i \in DOMAIN prepared,
                      NEW field \in {"kind", "name", "body"}
               PROVE  Tokens(prepared[i][field]) = Substituted(class.resources[i][field])
    BY DEF RenderedOnce
  <2> DEFINE raw == class.resources[i]
             values == TemplateValues(namespace, class)
  <2>1. outcome \in {"preparing", "prepared"} /\ i \in 1..Len(prepared)
    BY PreparedWhen
  <2>2. /\ namespace \in NamespaceObjects /\ class \in ClassObjects
        /\ i \in 1..Len(class.resources) /\ Renders(raw, values)
    BY <2>1, ClassesAssumption DEF TypeOK, PassInv, Accepted
  <2>3. IsSequence(raw[field]) /\ Variables(raw[field]) \subseteq DOMAIN values
    BY <2>2, TextsAssumption DEF Renders
  <2>4. \A v \in Variables(raw[field]) : IsSequence(values[v])
    BY <2>2, <2>3, ValuesAreTexts
  <2>5. prepared[i][field] = RenderString(raw[field], values)
    <3>1. prepared[i][field] = Rendered(raw)[field]
      BY <2>1, ManagedFields
    <3>2. Rendered(raw)[field] = RenderText(raw[field], values)
      <4>1. {"kind", "name", "namespace", "body", "marks"} \subseteq DOMAIN raw
        BY <2>2, ClassesAssumption
      <4>2. QED
        BY <4>1 DEF Rendered, Render
    <3>3. QED
      BY <3>1, <3>2 DEF RenderText
  <2> HIDE DEF raw, values
  <2>6. Tokens(RenderString(raw[field], values)) =
          {u \in Tokens(raw[field]) : ~u.variable}
            \cup UNION {Tokens(values[v]) : v \in Variables(raw[field])}
    BY <2>3, <2>4, RenderedTokens
  <2>7. QED
    BY <2>5, <2>6 DEF Substituted, raw, values
<1>2. QED
  BY <1>1, PreparationTypes, PassInit, PassStep, PTL DEF Spec
=============================================================================
