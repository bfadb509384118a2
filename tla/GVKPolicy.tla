------------------------------ MODULE GVKPolicy ------------------------------
(***************************************************************************)
(* internal/policy/gvk_policy.go: which kinds of object the controller may *)
(* apply, as the operator's allow and deny lists have it.                  *)
(*                                                                         *)
(* A list is the sequence of its comma-separated items, an item the        *)
(* sequence of the words between its slashes, with the spaces around it    *)
(* trimmed.  The empty word is Nothing.  A blank item is << >>; so is the  *)
(* list of an empty flag, while a flag of blanks has a blank item.         *)
(***************************************************************************)
EXTENDS Naturals, Sequences

Nothing == << >>

\* What ParseGVK accepts: version/kind or group/version/kind.
WellFormed(item) == /\ Len(item) \in {2, 3}
                    /\ \A i \in DOMAIN item : item[i] # Nothing

ParseGVK(item) ==
  IF Len(item) = 2 THEN [group |-> Nothing, version |-> item[1], kind |-> item[2]]
                   ELSE [group |-> item[1], version |-> item[2], kind |-> item[3]]

\* The key of a GVK in the policy's maps.
Format(gvk) == IF gvk.group = Nothing THEN <<gvk.version, gvk.kind>>
                                      ELSE <<gvk.group, gvk.version, gvk.kind>>

\* Blank items are skipped.
Items(list) == {list[i] : i \in DOMAIN list} \ {<< >>}

\* parseCSV fails as a whole on one malformed item.
Parses(list) == \A item \in Items(list) : WellFormed(item)
ParseCSV(list) == {Format(ParseGVK(item)) : item \in Items(list)}

FromCSV(allow, deny) == [allow |-> ParseCSV(allow), deny |-> ParseCSV(deny)]

\* Faulty variant: the allow list is asked first.
AllowFirst(policy, gvk) == \/ Format(gvk) \in policy.allow
                           \/ policy.allow = {} /\ Format(gvk) \notin policy.deny

\* Policy.Validate: the deny list wins, an empty allow list allows everything.
Permits(policy, gvk) == /\ Format(gvk) \notin policy.deny
                        /\ policy.allow # {} => Format(gvk) \in policy.allow
=============================================================================
