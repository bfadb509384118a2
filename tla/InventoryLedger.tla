--------------------------- MODULE InventoryLedger ---------------------------
(***************************************************************************)
(* What the bindings of namespace_reconciler.go amount to, seen without    *)
(* caches, watches, resource versions and single API calls: per namespace  *)
(* name a ledger of the references of objects made for it, kept by one     *)
(* worker who claims and releases objects and then posts what it did.      *)
(*                                                                         *)
(* A posting enters all the worker has claimed, invents nothing, and       *)
(* strikes out only what nobody owns any more.  A worker that gives up     *)
(* with something claimed leaves its name due.  Objects are never taken    *)
(* from another owner, and released only after the worker has taken aim at *)
(* one of its own.  What the ledger does not promise is there to be seen   *)
(* too: a whole ledger may be thrown away (Forget), a claim may be made    *)
(* unnoticed (ClaimUnnoticed), and a crash forgets the claims.             *)
(***************************************************************************)

CONSTANTS
  Names,      \* namespace names
  Owners,     \* namespace UIDs
  Refs,       \* references a ledger may hold
  Objects,    \* the objects they name
  Object,     \* which: a function on Refs
  Absent,     \* the owner of an object that is not there
  Unowned,    \* the owner of an object of nobody's
  Nobody      \* nobody is at work

VARIABLES
  owner,      \* per object: its owner
  open,       \* names that have a ledger
  ledger,     \* per name: the references posted
  worker,     \* the name somebody is at work for, or Nobody
  id,         \* the owner on whose behalf
  claimed,    \* references the worker has claimed and not yet posted
  aims,       \* the object the worker has found its own and is about to release
  due         \* names somebody will be at work for

vars == <<owner, open, ledger, worker, id, claimed, aims, due>>

Init ==
  /\ owner = [o \in Objects |-> Absent]
  /\ open = {}
  /\ ledger = [n \in Names |-> {}]
  /\ worker = Nobody
  /\ id = Nobody
  /\ claimed = {}
  /\ aims = {}
  /\ due = {}

Working == worker # Nobody

\* Objects are free for all or the worker's own.
Claimable(o) == owner[o] \in {Absent, Unowned, id}

\* More names fall due.
Notice ==
  /\ due \subseteq due'
  /\ UNCHANGED <<owner, open, ledger, worker, id, claimed, aims>>

\* A due name is taken up, or found to need no work; it may stay due.
TakeUp(n) ==
  /\ ~Working
  /\ n \in due
  /\ due' \in {due, due \ {n}}
  /\ \/ worker' = n /\ id' \in Owners
     \/ UNCHANGED <<worker, id>>
  /\ UNCHANGED <<owner, open, ledger, claimed, aims>>

Take(r) ==
  /\ Working
  /\ Claimable(Object[r])
  /\ owner' = [owner EXCEPT ![Object[r]] = id]
  /\ UNCHANGED <<open, ledger, worker, id, aims, due>>

Claim(r) == Take(r) /\ claimed' = claimed \cup {r}

\* The worker does not learn that it has made the claim.
ClaimUnnoticed(r) == Take(r) /\ UNCHANGED claimed

Aim(o) ==
  /\ Working
  /\ owner[o] = id
  /\ aims' = {o}
  /\ UNCHANGED <<owner, open, ledger, worker, id, claimed, due>>

\* What the worker has aimed at may have been disowned meanwhile, not taken over.
Release(o) ==
  /\ o \in aims
  /\ Claimable(o)
  /\ owner' = [owner EXCEPT ![o] = Absent]
  /\ aims' = {}
  /\ UNCHANGED <<open, ledger, worker, id, claimed, due>>

\* The release comes to nothing.
Miss ==
  /\ aims' = {}
  /\ UNCHANGED <<owner, open, ledger, worker, id, claimed, due>>

Rest ==
  /\ worker' = Nobody
  /\ id' = Nobody
  /\ claimed' = {}
  /\ aims' = {}

\* The worker goes on, or gives up before it has claimed anything.
GoesOn == UNCHANGED <<worker, id, claimed, aims, due>>
Resigns == Working /\ claimed = {} /\ Rest /\ due' = due \cup {worker}

Post(inventory) ==
  /\ Working
  /\ worker \in open
  /\ claimed \subseteq inventory
  /\ inventory \subseteq ledger[worker] \cup claimed
  /\ \A r \in ledger[worker] \ inventory : owner[Object[r]] \in {Absent, Unowned}
  /\ ledger' = [ledger EXCEPT ![worker] = inventory]
  /\ Rest
  /\ due' \in {due, due \cup {worker}}
  /\ UNCHANGED <<owner, open>>

GiveUp ==
  /\ Working
  /\ Rest
  /\ due' \in {due, due \cup {worker}}
  /\ claimed # {} => worker \in due'
  /\ UNCHANGED <<owner, open, ledger>>

\* The worker opens a ledger.
Open ==
  /\ Working
  /\ claimed = {}
  /\ worker \notin open
  /\ open' = open \cup {worker}
  /\ GoesOn \/ Resigns
  /\ UNCHANGED <<owner, ledger>>

\* The worker or a user throws a ledger away.
Forget(n) ==
  /\ open' = open \ {n}
  /\ ledger' = [ledger EXCEPT ![n] = {}]
  /\ GoesOn \/ (n = worker /\ Resigns)
  /\ UNCHANGED owner

\* Users and Kubernetes create objects of nobody's, disown and delete.
World ==
  /\ owner' \in [Objects -> Owners \cup {Absent, Unowned}]
  /\ \A o \in Objects : owner'[o] \in {owner[o], Absent, Unowned}
  /\ UNCHANGED <<open, ledger, worker, id, claimed, aims, due>>

\* After a crash every name that has a ledger is due again.
Crash ==
  /\ Rest
  /\ open \subseteq due'
  /\ UNCHANGED <<owner, open, ledger>>

Next ==
  \/ Notice
  \/ Open
  \/ \E n \in Names : TakeUp(n) \/ Forget(n)
  \/ \E r \in Refs : Claim(r) \/ ClaimUnnoticed(r)
  \/ \E o \in Objects : Aim(o) \/ Release(o)
  \/ Miss
  \/ \E inventory \in SUBSET Refs : Post(inventory)
  \/ GiveUp
  \/ World
  \/ Crash

Spec == Init /\ [][Next]_vars
=============================================================================
