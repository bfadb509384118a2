---------------------------- MODULE MCReconciler ----------------------------
(* Small clusters for TLC: values of the constants for the .cfg files.     *)
EXTENDS ReconcilerProperties, TLC

CONSTANTS n1, n2, a, b

T(name, namespaced, perNamespace) ==
  [name |-> name, version |-> "v1", namespaced |-> namespaced,
   perNamespace |-> perNamespace, body |-> "one", fault |-> "none"]

ConfigMap  == T("config", TRUE, FALSE)
Role       == T("role", FALSE, TRUE)    \* cluster-scoped, named after the namespace
SharedRole == T("shared", FALSE, FALSE) \* cluster-scoped, one name for all
Quota      == [T("quota", TRUE, FALSE) EXCEPT !.fault = "rejected"]
Denied     == [T("denied", FALSE, TRUE) EXCEPT !.fault = "denied"]
NewConfigMap == [ConfigMap EXCEPT !.body = "two"]
BetaConfigMap == [ConfigMap EXCEPT !.version = "v1beta1"]

TemplatesOf(lists) == UNION {{list[i] : i \in DOMAIN list} : list \in lists}

CoreLists == {<<Role>>, <<ConfigMap, Role>>, <<ConfigMap, Quota>>}
CoreTemplates == TemplatesOf(CoreLists)
CoreClasses == {a :> <<ConfigMap, Quota>> @@ b :> <<Role>>}

LiveLists == {<<Role>>, <<ConfigMap>>, <<ConfigMap, Quota>>}
LiveTemplates == TemplatesOf(LiveLists)
LiveClasses == {a :> <<Role>> @@ b :> <<ConfigMap>>}

BrokenLists == {<<ConfigMap>>, <<NewConfigMap>>, <<ConfigMap, ConfigMap>>, <<Role, Denied>>}
BrokenTemplates == TemplatesOf(BrokenLists)
BrokenClasses == {a :> <<ConfigMap>> @@ b :> <<Role, Denied>>}

PairLists == {<<ConfigMap, Role>>}
PairTemplates == TemplatesOf(PairLists)
PairClasses == {a :> <<ConfigMap, Role>>}

SharedLists == {<<SharedRole, ConfigMap>>}
SharedTemplates == TemplatesOf(SharedLists)
SharedClasses == {a :> <<SharedRole, ConfigMap>>}

BetaLists == {<<ConfigMap>>, <<BetaConfigMap>>}
BetaTemplates == TemplatesOf(BetaLists)
BetaClasses == {a :> <<BetaConfigMap>>}

NoClasses == {a :> Absent}

SameNamespaces == Permutations({n1, n2})
=============================================================================
