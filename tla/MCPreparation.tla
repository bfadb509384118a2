---------------------------- MODULE MCPreparation ----------------------------
(* Small command lines, classes and namespaces for TLC.                    *)
EXTENDS PreparationProperties

W(w) == Word(w)
LabelKind == <<Variable(<<"Labels", "kind">>)>>
LabelSuffix == <<Variable(<<"Labels", "suffix">>)>>
Note == <<Variable(<<"Annotations", "note">>)>>
NameOf == <<Variable(<<"Name">>)>>

ConfigMapItem == <<W("v1"), W("ConfigMap")>>
RoleItem == <<W("rbac"), W("v1"), W("Role")>>
BindingItem == <<W("rbac"), W("v1"), W("ClusterRoleBinding")>>
KindOnly == <<W("ConfigMap")>>
Blank == << >>

MCScope == [gvk \in {ParseGVK(ConfigMapItem), ParseGVK(RoleItem), ParseGVK(BindingItem)} |->
              IF gvk = ParseGVK(BindingItem) THEN "cluster" ELSE "namespaced"]

AllowFlags == {[x \in {} |-> 0], [allow |-> << >>], [allow |-> <<ConfigMapItem>>],
               [allow |-> <<BindingItem, RoleItem>>]}
DenyFlags == {[x \in {} |-> 0], [deny |-> << >>], [deny |-> <<Blank>>], [deny |-> <<KindOnly>>],
              [deny |-> <<ConfigMapItem, Blank>>], [deny |-> <<ConfigMapItem, KindOnly>>]}
IntervalFlags == {[x \in {} |-> 0], [interval |-> 0], [interval |-> -1]}
MCFlagSets == {Over(a, Over(d, i)) : a \in AllowFlags, d \in DenyFlags, i \in IntervalFlags}

Raw(item, name) ==
  [parses |-> TRUE, group |-> ParseGVK(item).group, version |-> ParseGVK(item).version,
   kind |-> ParseGVK(item).kind, name |-> name, namespace |-> W("elsewhere"),
   marks |-> [mine |-> NameOf], body |-> W("data")]

Raws ==
  {Raw(ConfigMapItem, NameOf),
   [Raw(ConfigMapItem, W("web")) EXCEPT !.body = Note],
   [Raw(ConfigMapItem, W("config")) EXCEPT !.marks = [managed |-> W("false"), owner |-> W("me")]],
   Raw(BindingItem, NameOf),
   [Raw(RoleItem, W("role")) EXCEPT !.kind = LabelKind],
   Raw(RoleItem, LabelSuffix),
   Raw(<<W("example"), W("v1"), W("Widget")>>, NameOf),
   [Raw(ConfigMapItem, W("config")) EXCEPT !.parses = FALSE]}

MCClassObjects ==
  {[name |-> W("public"), resources |-> list] : list \in {<<r, s>> : r, s \in Raws} \cup {<< >>}}

MCNamespaceObjects ==
  {[name |-> W("web"), uid |-> W("uid1"),
    labels |-> [kind |-> W("ClusterRoleBinding"), suffix |-> << >>],
    annotations |-> [note |-> <<Literal("of "), Variable(<<"Class">>)>>]],
   [name |-> W("db"), uid |-> W("uid2"),
    labels |-> [kind |-> W("Role"), suffix |-> W("x")],
    annotations |-> [x \in {} |-> << >>]]}

MCForeignSets ==
  {{}, {[group |-> Nothing, kind |-> W("ConfigMap"), namespace |-> W("web"), name |-> W("config")]}}
=============================================================================
