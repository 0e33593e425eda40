------------------------------ MODULE Election ------------------------------
(***************************************************************************)
(* What the election of src/leader.rs, with the life of the process around *)
(* it in main(), promises to the rest of the operator.                     *)
(*                                                                         *)
(* A replica runs its controller only after it has won the lease, for one  *)
(* term: once it drains it comes back by way of another win alone.         *)
(* Releasing or losing the lease does not stop it: its controller goes on  *)
(* until it is told to drain, and is done within Grace ticks.  Two         *)
(* replicas may run at the same time, for no longer than that.             *)
(***************************************************************************)
EXTENDS Naturals

CONSTANTS
  Replicas,
  NoHolder,  \* nobody holds the lease
  Grace      \* ticks a replica may go on without the lease

VARIABLES
  holder,    \* who holds the lease
  role,      \* of each replica, see Roles
  left       \* ticks each replica may go on, should it be without the lease

vars == <<holder, role, left>>

Roles == {"out", "won", "running", "draining"}

\* The controller of r may write.
Active(r) == role[r] \in {"running", "draining"}

Init ==
  /\ holder = NoHolder
  /\ role = [r \in Replicas |-> "out"]
  /\ left = [r \in Replicas |-> Grace]

Play(r, s) == role' = [role EXCEPT ![r] = s]
Reset(r) == left' = [left EXCEPT ![r] = Grace]

\* The lease is won; the vault client is not ready yet.
Win(r) ==
  /\ role[r] = "out"
  /\ holder' = r
  /\ Play(r, "won")
  /\ UNCHANGED left

\* The controller starts, whoever holds the lease by then.
Start(r) ==
  /\ role[r] = "won"
  /\ Play(r, "running") /\ Reset(r)
  /\ UNCHANGED holder

Renew(r) ==
  /\ Active(r)
  /\ holder' = r
  /\ Reset(r)
  /\ UNCHANGED role

\* A request for the lease whose answer is an error may have won it.
Unanswered(r) ==
  /\ holder' \in {holder, r}
  /\ UNCHANGED <<role, left>>

\* The lease is given back, while the controller still runs.
Release(r) ==
  /\ Active(r) /\ holder = r
  /\ holder' = NoHolder
  /\ UNCHANGED <<role, left>>

\* No reconcile is started any more.
Drain(r) ==
  /\ role[r] = "running"
  /\ Play(r, "draining")
  /\ UNCHANGED <<holder, left>>

\* The end of the process, at any time.
Stop(r) ==
  /\ role[r] # "out"
  /\ Play(r, "out") /\ Reset(r)
  /\ holder' \in {holder} \cup {h \in {NoHolder} : holder = r}

\* Time does not pass for a replica that has used up its grace.
Tick ==
  /\ \A r \in Replicas : Active(r) /\ holder # r => left[r] > 0
  /\ left' = [r \in Replicas |-> IF Active(r) /\ holder # r THEN left[r] - 1 ELSE Grace]
  /\ UNCHANGED <<holder, role>>

Next ==
  \/ \E r \in Replicas :
       \/ Win(r) \/ Start(r) \/ Renew(r) \/ Unanswered(r) \/ Release(r)
       \/ Drain(r) \/ Stop(r)
  \/ Tick

Spec == Init /\ [][Next]_vars
=============================================================================
